----------------------------- MODULE BlocksProofs -----------------------------
(***************************************************************************)
(* Theorems about the open blocks, and about the text in the blocks, for   *)
(* documents of any number of lines of any kinds (Blocks).                 *)
(***************************************************************************)
EXTENDS Blocks, ListLemmas, TLAPS

(***************************************************************************)
(* Trees as lists of children.                                             *)
(***************************************************************************)

Par(k, n) == CHOOSE p \in DOMAIN k : Contains(k[p], n)

Rises(k, S) == \A x \in S \ {Root} : Par(k, x) \in S

\* n and its ancestors.
Path(k, n) ==
  {m \in DOMAIN k : \A S \in SUBSET DOMAIN k : n \in S /\ Rises(k, S) => m \in S}

\* Every block but the root is on one list, once, and the way up ends.
Rooted(k) ==
  /\ IsFiniteSet(DOMAIN k) /\ DOMAIN k \subseteq Nat \ {0} /\ Root \in DOMAIN k
  /\ \A n \in DOMAIN k : k[n] \in Seq(DOMAIN k \ {Root})
  /\ \A n \in DOMAIN k : \A i, j \in DOMAIN k[n] : k[n][i] = k[n][j] => i = j
  /\ \A n \in DOMAIN k \ {Root} : \E p \in DOMAIN k : Contains(k[p], n)
  /\ \A p, q \in DOMAIN k : \A n : Contains(k[p], n) /\ Contains(k[q], n) => p = q
  /\ \A S \in SUBSET (DOMAIN k \ {Root}) : S # {} => \E n \in S : Par(k, n) \notin S

\* The list that has a block is its parent's.
LEMMA ParOf ==
  ASSUME NEW k, Rooted(k), NEW n \in DOMAIN k \ {Root}
  PROVE  /\ Par(k, n) \in DOMAIN k /\ Contains(k[Par(k, n)], n)
         /\ \A p \in DOMAIN k : Contains(k[p], n) => p = Par(k, n)
  BY DEF Rooted, Par

\* What is on a list is a block other than the root.
LEMMA OnList ==
  ASSUME NEW k, Rooted(k), NEW p \in DOMAIN k, NEW n, Contains(k[p], n)
  PROVE  n \in DOMAIN k \ {Root} /\ Par(k, n) = p /\ k[p] # <<>>
<1>1. k[p] \in Seq(DOMAIN k \ {Root})
  BY DEF Rooted
<1>2. PICK i \in 1 .. Len(k[p]) : k[p][i] = n
  BY DEF Contains
<1>3. n \in DOMAIN k \ {Root}
  BY <1>1, <1>2
<1>4. k[p] # <<>>
  BY <1>1, <1>2
<1> QED
  BY <1>3, <1>4, ParOf

\* The last of a list is on it.
LEMMA LastOnList ==
  ASSUME NEW k, Rooted(k), NEW p \in DOMAIN k, k[p] # <<>>
  PROVE  Last(k[p]) \in DOMAIN k \ {Root} /\ Par(k, Last(k[p])) = p /\ Contains(k[p], Last(k[p]))
<1>1. k[p] \in Seq(DOMAIN k \ {Root})
  BY DEF Rooted
<1>2. Len(k[p]) \in 1 .. Len(k[p])
  BY <1>1, EmptySeq
<1>3. Contains(k[p], Last(k[p]))
  BY <1>2 DEF Contains, Last
<1> QED
  BY <1>3, OnList

-----------------------------------------------------------------------------
(***************************************************************************)
(* Paths.                                                                  *)
(***************************************************************************)

\* A set that has a block and the parents of what it has, has its path.
LEMMA PathLeast ==
  ASSUME NEW k, NEW n, NEW S \in SUBSET DOMAIN k, n \in S, Rises(k, S)
  PROVE  Path(k, n) \subseteq S
  BY DEF Path

\* A path is such a set.
LEMMA PathRises ==
  ASSUME NEW k, Rooted(k), NEW n \in DOMAIN k
  PROVE  n \in Path(k, n) /\ Path(k, n) \in SUBSET DOMAIN k /\ Rises(k, Path(k, n))
<1>1. n \in Path(k, n) /\ Path(k, n) \in SUBSET DOMAIN k
  BY DEF Path
<1>2. ASSUME NEW x \in Path(k, n) \ {Root}
      PROVE  Par(k, x) \in Path(k, n)
  <2>1. x \in DOMAIN k \ {Root}
    BY DEF Path
  <2>2. Par(k, x) \in DOMAIN k
    BY <2>1, ParOf
  <2>3. \A S \in SUBSET DOMAIN k : n \in S /\ Rises(k, S) => Par(k, x) \in S
    BY <1>2 DEF Path, Rises
  <2> QED
    BY <2>2, <2>3 DEF Path
<1> QED
  BY <1>1, <1>2 DEF Rises

\* The path of an ancestor is part of the path.
LEMMA PathWithin ==
  ASSUME NEW k, Rooted(k), NEW n \in DOMAIN k, NEW m \in Path(k, n)
  PROVE  m \in DOMAIN k /\ Path(k, m) \subseteq Path(k, n)
  BY PathRises, PathLeast

\* The path of the root.
LEMMA PathRoot ==
  ASSUME NEW k, Rooted(k)
  PROVE  Path(k, Root) = {Root}
<1>1. Root \in DOMAIN k
  BY DEF Rooted
<1>2. Path(k, Root) \subseteq {Root}
  <2>1. {Root} \in SUBSET DOMAIN k /\ Root \in {Root} /\ Rises(k, {Root})
    BY <1>1 DEF Rises
  <2> QED
    BY <2>1, PathLeast
<1> QED
  BY <1>1, <1>2, PathRises

\* A path goes on with the parent's.
LEMMA PathStep ==
  ASSUME NEW k, Rooted(k), NEW n \in DOMAIN k \ {Root}
  PROVE  Path(k, n) = {n} \cup Path(k, Par(k, n))
<1>1. Par(k, n) \in DOMAIN k
  BY ParOf
<1>2. /\ Par(k, n) \in Path(k, Par(k, n)) /\ Path(k, Par(k, n)) \in SUBSET DOMAIN k
      /\ Rises(k, Path(k, Par(k, n)))
  BY <1>1, PathRises
<1>3. Path(k, n) \subseteq {n} \cup Path(k, Par(k, n))
  <2>1. Rises(k, {n} \cup Path(k, Par(k, n)))
    BY <1>2 DEF Rises
  <2> QED
    BY <1>2, <2>1, PathLeast
<1>4. n \in Path(k, n) /\ Par(k, n) \in Path(k, n)
  BY PathRises DEF Rises
<1> QED
  BY <1>3, <1>4, PathWithin

\* Every path comes to the root.
LEMMA RootOnPath ==
  ASSUME NEW k, Rooted(k), NEW n \in DOMAIN k
  PROVE  Root \in Path(k, n)
<1> SUFFICES ASSUME Root \notin Path(k, n) PROVE FALSE
  OBVIOUS
<1>1. n \in Path(k, n) /\ Path(k, n) \in SUBSET DOMAIN k /\ Rises(k, Path(k, n))
  BY PathRises
<1>2. Path(k, n) \in SUBSET (DOMAIN k \ {Root}) /\ Path(k, n) # {}
  BY <1>1
<1>3. PICK x \in Path(k, n) : Par(k, x) \notin Path(k, n)
  BY <1>2 DEF Rooted
<1> QED
  BY <1>1, <1>3 DEF Rises

\* No block is its own ancestor.
LEMMA NoReturn ==
  ASSUME NEW k, Rooted(k), NEW n \in DOMAIN k \ {Root}
  PROVE  n \notin Path(k, Par(k, n))
<1> SUFFICES ASSUME n \in Path(k, Par(k, n)) PROVE FALSE
  OBVIOUS
<1> DEFINE S == {x \in DOMAIN k : n \in Path(k, x)}
<1>1. Root \notin S
  BY PathRoot
<1>2. n \in S
  BY PathRises
<1>3. ASSUME NEW x \in S
      PROVE  Par(k, x) \in S
  <2>1. x \in DOMAIN k \ {Root} /\ n \in Path(k, x)
    BY <1>1
  <2>2. Path(k, x) = {x} \cup Path(k, Par(k, x)) /\ Par(k, x) \in DOMAIN k
    BY <2>1, PathStep, ParOf
  <2> QED
    BY <2>1, <2>2
<1> HIDE DEF S
<1>4. S \in SUBSET (DOMAIN k \ {Root}) /\ S # {}
  BY <1>1, <1>2 DEF S
<1> QED
  BY <1>3, <1>4 DEF Rooted

\* A block without children is on no path but its own.
LEMMA LeafOnPath ==
  ASSUME NEW k, Rooted(k), NEW m \in DOMAIN k, NEW n \in Path(k, m), k[n] = <<>>
  PROVE  n = m
<1> SUFFICES ASSUME n # m PROVE FALSE
  OBVIOUS
<1>1. m \in Path(k, m) /\ Path(k, m) \in SUBSET DOMAIN k /\ Rises(k, Path(k, m))
  BY PathRises
<1>2. ASSUME NEW x \in (Path(k, m) \ {n}) \ {Root}
      PROVE  Par(k, x) \in Path(k, m) \ {n}
  <2>1. x \in DOMAIN k \ {Root} /\ Par(k, x) \in Path(k, m)
    BY <1>1 DEF Rises
  <2>2. k[Par(k, x)] # <<>>
    BY <2>1, ParOf, OnList
  <2> QED
    BY <2>1, <2>2
<1>3. Path(k, m) \subseteq Path(k, m) \ {n}
  <2>1. Rises(k, Path(k, m) \ {n})
    BY <1>2 DEF Rises
  <2>2. m \in Path(k, m) \ {n} /\ Path(k, m) \ {n} \in SUBSET DOMAIN k
    BY <1>1
  <2> QED
    BY <2>1, <2>2, PathLeast
<1> QED
  BY <1>3

\* Trees in which the blocks of a path have the same parents have the same path.
LEMMA PathSame ==
  ASSUME NEW k, Rooted(k), NEW u, Rooted(u), NEW n \in DOMAIN k, Path(k, n) \subseteq DOMAIN u,
         \A x \in Path(k, n) \ {Root} : Par(u, x) = Par(k, x)
  PROVE  Path(u, n) = Path(k, n)
<1>1. n \in Path(k, n) /\ Path(k, n) \in SUBSET DOMAIN k /\ Rises(k, Path(k, n))
  BY PathRises
<1>2. Path(u, n) \subseteq Path(k, n)
  <2>1. Rises(u, Path(k, n))
    BY <1>1 DEF Rises
  <2> QED
    BY <1>1, <2>1, PathLeast
<1>3. n \in Path(u, n) /\ Rises(u, Path(u, n))
  BY <1>1, PathRises
<1>4. Rises(k, Path(u, n))
  BY <1>2, <1>3 DEF Rises
<1>5. Path(k, n) \subseteq Path(u, n)
  BY <1>1, <1>2, <1>3, <1>4, PathLeast
<1> QED
  BY <1>2, <1>5

-----------------------------------------------------------------------------
(***************************************************************************)
(* What add_child and finalize do to the lists.                            *)
(***************************************************************************)

GrownKids(k, p, a) == Put(Put(k, p, Append(k[p], a)), a, <<>>)

CutKids(k, n) == [m \in DOMAIN k \ {n} |-> Without(k[m], n)]

\* A new block a is at the end of the list of p.
GrownBy(k, u, p, a) ==
  /\ DOMAIN u = DOMAIN k \cup {a}
  /\ u[a] = <<>> /\ u[p] = Append(k[p], a) /\ Last(u[p]) = a
  /\ \A n \in DOMAIN k \ {p} : u[n] = k[n]
  /\ \A n \in DOMAIN k : \A x : Contains(u[n], x) <=>
       Contains(k[n], x) \/ (n = p /\ x = a)
  /\ \A x : ~Contains(u[a], x)

\* Adding a block to the end of a list does that.
LEMMA GrownLists ==
  ASSUME NEW k, Rooted(k), NEW p \in DOMAIN k, NEW a \in Nat \ {0}, a \notin DOMAIN k,
         NEW u, u = GrownKids(k, p, a)
  PROVE  GrownBy(k, u, p, a)
<1>1. /\ DOMAIN u = DOMAIN k \cup {a}
      /\ u[a] = <<>> /\ u[p] = Append(k[p], a)
      /\ \A n \in DOMAIN k \ {p} : u[n] = k[n]
  BY DEF GrownKids, Put
<1>2. k[p] \in Seq(DOMAIN k \ {Root}) /\ Len(k[p]) \in Nat
  BY DEF Rooted
<1>3. Last(u[p]) = a
  BY <1>1, <1>2 DEF Last
<1>4. \A x : Contains(u[p], x) <=> Contains(k[p], x) \/ x = a
  <2>1. \A s \in Seq(DOMAIN k \ {Root}) : \A x :
          Contains(Append(s, a), x) <=> Contains(s, x) \/ x = a
    <3> TAKE s \in Seq(DOMAIN k \ {Root})
    <3> TAKE x
    <3>1. /\ Len(Append(s, a)) = Len(s) + 1 /\ Append(s, a)[Len(s) + 1] = a /\ Len(s) \in Nat
          /\ \A i \in 1 .. Len(s) : Append(s, a)[i] = s[i]
      OBVIOUS
    <3>2. \A i : i \in 1 .. Len(s) + 1 <=> i \in 1 .. Len(s) \/ i = Len(s) + 1
      BY <3>1
    <3> QED
      BY <3>1, <3>2 DEF Contains
  <2> QED
    BY <1>1, <1>2, <2>1
<1>5. \A x : ~Contains(u[a], x)
  BY <1>1 DEF Contains
<1>6. \A n \in DOMAIN k : \A x : Contains(u[n], x) <=> Contains(k[n], x) \/ (n = p /\ x = a)
  <2> TAKE n \in DOMAIN k
  <2>1. CASE n = p
    BY <1>4, <2>1, Zenon
  <2>2. CASE n # p
    BY <1>1, <2>2
  <2> QED
    BY <2>1, <2>2
<1> QED
  BY <1>1, <1>3, <1>5, <1>6 DEF GrownBy

\* They are a tree, with the parents it had, and the new block below p.
LEMMA GrownRooted ==
  ASSUME NEW k, Rooted(k), NEW p \in DOMAIN k, NEW a \in Nat \ {0}, a \notin DOMAIN k,
         NEW u, u = GrownKids(k, p, a)
  PROVE  /\ Rooted(u)
         /\ \A n \in DOMAIN k \ {Root} : Par(u, n) = Par(k, n)
         /\ Par(u, a) = p
<1>1. /\ DOMAIN u = DOMAIN k \cup {a}
      /\ u[a] = <<>> /\ u[p] = Append(k[p], a)
      /\ \A n \in DOMAIN k \ {p} : u[n] = k[n]
      /\ \A n \in DOMAIN k : \A x : Contains(u[n], x) <=> Contains(k[n], x) \/ (n = p /\ x = a)
      /\ \A x : ~Contains(u[a], x)
  <2>1. GrownBy(k, u, p, a)
    BY GrownLists
  <2> QED
    BY <2>1 DEF GrownBy
<1>2. a # Root /\ Root \in DOMAIN k
  BY DEF Rooted
<1>3. IsFiniteSet(DOMAIN u) /\ DOMAIN u \subseteq Nat \ {0} /\ Root \in DOMAIN u
  <2>1. IsFiniteSet(DOMAIN k) /\ DOMAIN k \subseteq Nat \ {0} /\ Root \in DOMAIN k
    BY DEF Rooted
  <2>2. IsFiniteSet(DOMAIN k \cup {a})
    BY <2>1, FS_AddElement
  <2> QED
    BY <1>1, <2>1, <2>2
<1>4. \A n \in DOMAIN u : u[n] \in Seq(DOMAIN u \ {Root})
  <2>1. \A n \in DOMAIN k : k[n] \in Seq(DOMAIN u \ {Root})
    <3>1. \A s \in Seq(DOMAIN k \ {Root}) : s \in Seq(DOMAIN u \ {Root})
      BY <1>1
    <3> QED
      BY <3>1 DEF Rooted
  <2>2. a \in DOMAIN u \ {Root}
    BY <1>1, <1>2
  <2>3. u[p] \in Seq(DOMAIN u \ {Root})
    BY <1>1, <2>1, <2>2
  <2>4. u[a] \in Seq(DOMAIN u \ {Root})
    BY <1>1
  <2>5. \A n \in DOMAIN u : n = p \/ n = a \/ n \in DOMAIN k \ {p}
    BY <1>1
  <2> QED
    BY <1>1, <2>1, <2>3, <2>4, <2>5, Zenon
<1>5. \A n \in DOMAIN u : \A i, j \in DOMAIN u[n] : u[n][i] = u[n][j] => i = j
  <2>1. ASSUME NEW i \in DOMAIN u[p], NEW j \in DOMAIN u[p], u[p][i] = u[p][j]
        PROVE  i = j
    <3>1. k[p] \in Seq(DOMAIN k \ {Root}) /\ Len(k[p]) \in Nat
      BY DEF Rooted
    <3>2. /\ DOMAIN u[p] = 1 .. Len(k[p]) + 1 /\ u[p][Len(k[p]) + 1] = a
          /\ \A x \in 1 .. Len(k[p]) : u[p][x] = k[p][x] /\ k[p][x] \in DOMAIN k
          /\ DOMAIN k[p] = 1 .. Len(k[p])
      BY <1>1, <3>1
    <3>3. \A x \in 1 .. Len(k[p]) + 1 : x \in 1 .. Len(k[p]) \/ x = Len(k[p]) + 1
      BY <3>1
    <3> QED
      <4>1. i \in 1 .. Len(k[p]) /\ j \in 1 .. Len(k[p]) => i = j
        <5>1. \A x, y \in DOMAIN k[p] : k[p][x] = k[p][y] => x = y
          BY DEF Rooted
        <5> QED
          BY <2>1, <3>2, <5>1
      <4>2. \A x \in 1 .. Len(k[p]) : k[p][x] # a
        BY <3>2
      <4> QED
        BY <2>1, <3>2, <3>3, <4>1, <4>2
  <2>2. \A i, j \in DOMAIN u[a] : u[a][i] = u[a][j] => i = j
    BY <1>1
  <2>3. \A n \in DOMAIN u : n = p \/ n = a \/ n \in DOMAIN k \ {p}
    BY <1>1
  <2>4. \A n \in DOMAIN k : \A i, j \in DOMAIN k[n] : k[n][i] = k[n][j] => i = j
    BY DEF Rooted
  <2>5. ASSUME NEW n \in DOMAIN u, NEW i \in DOMAIN u[n], NEW j \in DOMAIN u[n], u[n][i] = u[n][j]
        PROVE  i = j
    <3>1. CASE n = p
      BY <2>1, <2>5, <3>1
    <3>2. CASE n = a
      BY <2>2, <2>5, <3>2
    <3>3. CASE n \in DOMAIN k \ {p}
      BY <1>1, <2>4, <2>5, <3>3
    <3> QED
      BY <2>3, <3>1, <3>2, <3>3
  <2> QED
    BY <2>5
<1>6. \A q, r \in DOMAIN u : \A n : Contains(u[q], n) /\ Contains(u[r], n) => q = r
  <2>1. \A q \in DOMAIN k : ~Contains(k[q], a)
    BY OnList
  <2>2. \A q \in DOMAIN u : \A n : Contains(u[q], n) =>
          q \in DOMAIN k /\ (Contains(k[q], n) \/ (q = p /\ n = a))
    <3> SUFFICES ASSUME NEW q \in DOMAIN u, NEW n, Contains(u[q], n)
                 PROVE  q \in DOMAIN k /\ (Contains(k[q], n) \/ (q = p /\ n = a))
      BY Zenon
    <3>1. q # a
      BY <1>1, Zenon
    <3>2. q \in DOMAIN k
      BY <1>1, <3>1
    <3> QED
      BY <1>1, <3>2, Zenon
  <2>3. \A q, r \in DOMAIN k : \A n : Contains(k[q], n) /\ Contains(k[r], n) => q = r
    BY DEF Rooted
  <2> SUFFICES ASSUME NEW q \in DOMAIN u, NEW r \in DOMAIN u, NEW n,
                      Contains(u[q], n), Contains(u[r], n)
               PROVE  q = r
    BY Zenon
  <2>4. /\ q \in DOMAIN k /\ r \in DOMAIN k
        /\ Contains(k[q], n) \/ (q = p /\ n = a)
        /\ Contains(k[r], n) \/ (r = p /\ n = a)
    BY <2>2, Zenon
  <2> QED
    BY <2>1, <2>3, <2>4, Zenon
<1>7. \A n \in DOMAIN u \ {Root} : \E q \in DOMAIN u : Contains(u[q], n)
  <2>1. \A n \in DOMAIN k \ {Root} : \E q \in DOMAIN k : Contains(k[q], n)
    BY DEF Rooted
  <2>2. \A n \in DOMAIN u \ {Root} : n = a \/ n \in DOMAIN k \ {Root}
    BY <1>1
  <2>3. Contains(u[p], a) /\ p \in DOMAIN u
    BY <1>1, Zenon
  <2>4. ASSUME NEW n \in DOMAIN k \ {Root}
        PROVE  \E q \in DOMAIN u : Contains(u[q], n)
    <3>1. PICK q \in DOMAIN k : Contains(k[q], n)
      BY <2>1
    <3>2. q \in DOMAIN u /\ Contains(u[q], n)
      BY <1>1, <3>1
    <3> QED
      BY <3>2
  <2> QED
    BY <2>2, <2>3, <2>4, Zenon
<1>8. \A n \in DOMAIN k \ {Root} : Par(u, n) = Par(k, n)
  <2> TAKE n \in DOMAIN k \ {Root}
  <2>1. Par(k, n) \in DOMAIN u /\ Contains(u[Par(k, n)], n)
    <3>1. Par(k, n) \in DOMAIN k /\ Contains(k[Par(k, n)], n)
      BY ParOf
    <3> QED
      BY <1>1, <3>1, Zenon
  <2>2. Par(u, n) \in DOMAIN u /\ Contains(u[Par(u, n)], n)
    BY <2>1 DEF Par
  <2> QED
    BY <1>6, <2>1, <2>2
<1>9. Par(u, a) = p
  <2>1. p \in DOMAIN u /\ Contains(u[p], a)
    BY <1>1
  <2>2. Par(u, a) \in DOMAIN u /\ Contains(u[Par(u, a)], a)
    BY <2>1 DEF Par
  <2> QED
    BY <1>6, <2>1, <2>2
<1>10. ASSUME NEW S \in SUBSET (DOMAIN u \ {Root}), S # {}
       PROVE  \E n \in S : Par(u, n) \notin S
  <2>1. CASE S \ {a} = {}
    BY <1>9, <1>10, <2>1
  <2>2. CASE S \ {a} # {}
    <3>1. S \ {a} \in SUBSET (DOMAIN k \ {Root})
      BY <1>1
    <3>2. PICK n \in S \ {a} : Par(k, n) \notin S \ {a}
      BY <2>2, <3>1 DEF Rooted
    <3>3. Par(k, n) \in DOMAIN k /\ Par(u, n) = Par(k, n)
      BY <1>8, <3>1, ParOf
    <3> QED
      BY <3>2, <3>3
  <2> QED
    BY <2>1, <2>2
<1>11. Rooted(u)
  BY <1>3, <1>4, <1>5, <1>6, <1>7, <1>10 DEF Rooted
<1> QED
  BY <1>8, <1>9, <1>11

\* Old paths are as they were; that of the new block goes on with p's.
LEMMA GrownPaths ==
  ASSUME NEW k, Rooted(k), NEW p \in DOMAIN k, NEW a \in Nat \ {0}, a \notin DOMAIN k,
         NEW u, u = GrownKids(k, p, a)
  PROVE  /\ \A n \in DOMAIN k : Path(u, n) = Path(k, n)
         /\ Path(u, a) = {a} \cup Path(k, p)
<1>1. /\ Rooted(u) /\ \A n \in DOMAIN k \ {Root} : Par(u, n) = Par(k, n)
      /\ Par(u, a) = p /\ DOMAIN u = DOMAIN k \cup {a}
  <2>1. Rooted(u) /\ Par(u, a) = p /\ \A n \in DOMAIN k \ {Root} : Par(u, n) = Par(k, n)
    BY GrownRooted
  <2>2. GrownBy(k, u, p, a)
    BY GrownLists
  <2> QED
    BY <2>1, <2>2 DEF GrownBy
<1>2. \A n \in DOMAIN k : Path(u, n) = Path(k, n)
  <2> TAKE n \in DOMAIN k
  <2>1. Path(k, n) \in SUBSET DOMAIN k
    BY PathRises
  <2> QED
    BY <1>1, <2>1, PathSame
<1>3. Path(u, a) = {a} \cup Path(u, p)
  <2>1. a # Root
    BY DEF Rooted
  <2> QED
    BY <1>1, <2>1, PathStep
<1> QED
  BY <1>1, <1>2, <1>3

\* A list without one of its elements, which it has once.
LEMMA WithoutOne ==
  ASSUME NEW T, NEW s \in Seq(T), NEW n, Contains(s, n),
         \A i, j \in DOMAIN s : s[i] = s[j] => i = j
  PROVE  LET r == Without(s, n)
         IN  /\ r \in Seq(T)
             /\ \A i, j \in DOMAIN r : r[i] = r[j] => i = j
             /\ \A x : Contains(r, x) <=> Contains(s, x) /\ x # n
             /\ Last(s) # n => Last(r) = Last(s)
<1> DEFINE r == Without(s, n)
<1>1. PICK g \in DOMAIN s : g = CHOOSE i \in DOMAIN s : s[i] = n
  BY DEF Contains
<1>2. s[g] = n
  BY <1>1 DEF Contains
<1>3. r = SubSeq(s, 1, g - 1) \o SubSeq(s, g + 1, Len(s))
  BY <1>1 DEF Without, RemoveAt
<1>4. Len(s) \in Nat /\ g \in 1 .. Len(s) /\ DOMAIN s = 1 .. Len(s)
  OBVIOUS
<1>5. /\ r \in Seq(T) /\ Len(r) = Len(s) - 1
      /\ \A i \in 1 .. Len(s) - 1 : r[i] = IF i < g THEN s[i] ELSE s[i + 1]
  <2>1. LacksPlace(T, s, g, SubSeq(s, 1, g - 1) \o SubSeq(s, g + 1, Len(s)))
    BY <1>4, RemovedAt, Zenon
  <2>2. LacksPlace(T, s, g, r)
    BY <1>3, <2>1, Zenon
  <2> HIDE DEF r
  <2> QED
    BY <2>2 DEF LacksPlace
<1> HIDE DEF r
<1>6. DOMAIN r = 1 .. Len(s) - 1
  BY <1>5
<1>7. \A i, j \in DOMAIN r : r[i] = r[j] => i = j
  <2> TAKE i, j \in DOMAIN r
  <2> HAVE r[i] = r[j]
  <2> DEFINE at(x) == IF x < g THEN x ELSE x + 1
  <2>1. /\ i \in 1 .. Len(s) - 1 /\ at(i) \in DOMAIN s /\ r[i] = s[at(i)]
        /\ j \in 1 .. Len(s) - 1 /\ at(j) \in DOMAIN s /\ r[j] = s[at(j)]
    BY <1>4, <1>5, <1>6
  <2>2. at(i) = at(j)
    <3> HIDE DEF at
    <3> QED
      BY <2>1
  <2> QED
    BY <1>4, <2>1, <2>2
<1>8. \A x : Contains(r, x) <=> Contains(s, x) /\ x # n
  <2> TAKE x
  <2>1. ASSUME NEW i \in 1 .. Len(s) - 1, r[i] = x
        PROVE  \E j \in 1 .. Len(s) : s[j] = x /\ x # n
    <3>1. CASE i < g
      BY <1>2, <1>4, <1>5, <2>1, <3>1
    <3>2. CASE ~(i < g)
      BY <1>2, <1>4, <1>5, <2>1, <3>2
    <3> QED
      BY <3>1, <3>2
  <2>2. ASSUME NEW j \in 1 .. Len(s), s[j] = x, x # n
        PROVE  \E i \in 1 .. Len(s) - 1 : r[i] = x
    <3>1. CASE j < g
      BY <1>4, <1>5, <2>2, <3>1
    <3>2. CASE ~(j < g)
      <4>1. j - 1 \in 1 .. Len(s) - 1 /\ ~(j - 1 < g) /\ (j - 1) + 1 = j
        BY <1>2, <1>4, <2>2, <3>2
      <4> QED
        BY <1>5, <2>2, <4>1
    <3> QED
      BY <3>1, <3>2
  <2>3. Len(r) = Len(s) - 1
    BY <1>5
  <2> QED
    BY <2>1, <2>2, <2>3 DEF Contains
<1>9. ASSUME Last(s) # n PROVE Last(r) = Last(s)
  <2>1. g < Len(s)
    BY <1>2, <1>4, <1>9 DEF Last
  <2>2. Len(s) - 1 \in 1 .. Len(s) - 1 /\ ~(Len(s) - 1 < g) /\ (Len(s) - 1) + 1 = Len(s)
    BY <1>4, <2>1
  <2> QED
    BY <1>5, <2>2 DEF Last
<1> QED
  BY <1>5, <1>7, <1>8, <1>9 DEF r

\* The block n, which has no children, is no longer on any list.
CutBy(k, u, n) ==
  /\ DOMAIN u = DOMAIN k \ {n}
  /\ \A m \in DOMAIN u :
       /\ u[m] \in Seq(DOMAIN k \ {Root})
       /\ \A i, j \in DOMAIN u[m] : u[m][i] = u[m][j] => i = j
       /\ \A x : Contains(u[m], x) <=> Contains(k[m], x) /\ x # n
       /\ Last(k[m]) # n => Last(u[m]) = Last(k[m])

\* Taking it off its list does that.
LEMMA CutLists ==
  ASSUME NEW k, Rooted(k), NEW n \in DOMAIN k \ {Root}, NEW u, u = CutKids(k, n)
  PROVE  CutBy(k, u, n)
<1>1. DOMAIN u = DOMAIN k \ {n} /\ \A m \in DOMAIN u : u[m] = Without(k[m], n)
  BY DEF CutKids
<1>2. ASSUME NEW m \in DOMAIN u
      PROVE  /\ u[m] \in Seq(DOMAIN k \ {Root})
             /\ \A i, j \in DOMAIN u[m] : u[m][i] = u[m][j] => i = j
             /\ \A x : Contains(u[m], x) <=> Contains(k[m], x) /\ x # n
             /\ Last(k[m]) # n => Last(u[m]) = Last(k[m])
  <2>1. /\ m \in DOMAIN k /\ k[m] \in Seq(DOMAIN k \ {Root})
        /\ \A i, j \in DOMAIN k[m] : k[m][i] = k[m][j] => i = j
    BY <1>1 DEF Rooted
  <2>2. CASE Contains(k[m], n)
    <3> DEFINE s == k[m]
    <3>1. u[m] = Without(s, n) /\ Contains(s, n)
      BY <1>1, <2>2
    <3>2. s \in Seq(DOMAIN k \ {Root}) /\ \A i, j \in DOMAIN s : s[i] = s[j] => i = j
      BY <2>1
    <3> HIDE DEF s
    <3>3. /\ u[m] \in Seq(DOMAIN k \ {Root})
          /\ \A i, j \in DOMAIN u[m] : u[m][i] = u[m][j] => i = j
          /\ \A x : Contains(u[m], x) <=> Contains(s, x) /\ x # n
          /\ Last(s) # n => Last(u[m]) = Last(s)
      BY <3>1, <3>2, WithoutOne
    <3> QED
      BY <3>3 DEF s
  <2>3. CASE ~Contains(k[m], n)
    <3>1. u[m] = k[m]
      BY <1>1, <2>3 DEF Without
    <3>2. \A x : Contains(k[m], x) => x # n
      BY <2>3
    <3> QED
      BY <2>1, <3>1, <3>2
  <2> QED
    BY <2>2, <2>3
<1> QED
  BY <1>1, <1>2 DEF CutBy

\* They are a tree, with the parents and the paths it had.
LEMMA CutRooted ==
  ASSUME NEW k, Rooted(k), NEW n \in DOMAIN k \ {Root}, k[n] = <<>>,
         NEW u, u = CutKids(k, n)
  PROVE  /\ Rooted(u)
         /\ \A m \in DOMAIN u \ {Root} : Par(u, m) = Par(k, m)
<1>0. CutBy(k, u, n)
  BY CutLists
<1>1. /\ DOMAIN u = DOMAIN k \ {n}
      /\ \A m \in DOMAIN u : \A x : Contains(u[m], x) <=> Contains(k[m], x) /\ x # n
  BY <1>0 DEF CutBy
<1>2. IsFiniteSet(DOMAIN u) /\ DOMAIN u \subseteq Nat \ {0} /\ Root \in DOMAIN u
  BY <1>1, FS_Subset DEF Rooted
<1>3. \A m \in DOMAIN u : u[m] \in Seq(DOMAIN u \ {Root})
  <2> TAKE m \in DOMAIN u
  <2>1. u[m] \in Seq(DOMAIN k \ {Root})
    BY <1>0 DEF CutBy
  <2>2. \A i \in 1 .. Len(u[m]) : u[m][i] \in DOMAIN u \ {Root}
    <3> TAKE i \in 1 .. Len(u[m])
    <3>1. u[m][i] \in DOMAIN k \ {Root}
      BY <2>1
    <3>2. Contains(u[m], u[m][i])
      BY DEF Contains
    <3>3. u[m][i] # n
      BY <1>1, <3>2
    <3> QED
      BY <1>1, <3>1, <3>3
  <2>3. /\ DOMAIN u[m] = 1 .. Len(u[m]) /\ Len(u[m]) \in Nat
        /\ u[m] = [i \in 1 .. Len(u[m]) |-> u[m][i]]
    BY <2>1
  <2> QED
    BY <2>2, <2>3
<1>4. \A m \in DOMAIN u : \A i, j \in DOMAIN u[m] : u[m][i] = u[m][j] => i = j
  BY <1>0 DEF CutBy
<1>5. \A p, q \in DOMAIN u : \A m : Contains(u[p], m) /\ Contains(u[q], m) => p = q
  <2> SUFFICES ASSUME NEW p \in DOMAIN u, NEW q \in DOMAIN u, NEW m,
                      Contains(u[p], m), Contains(u[q], m)
               PROVE  p = q
    BY Zenon
  <2>1. p \in DOMAIN k /\ q \in DOMAIN k
    BY <1>1
  <2>2. Contains(k[p], m) /\ Contains(k[q], m)
    BY <1>1, Zenon
  <2> QED
    BY <2>1, <2>2 DEF Rooted
<1>6. ASSUME NEW m \in DOMAIN u \ {Root}
      PROVE  Par(k, m) \in DOMAIN u /\ Contains(u[Par(k, m)], m)
  <2>1. m \in DOMAIN k \ {Root} /\ m # n
    BY <1>1
  <2>2. Par(k, m) \in DOMAIN k /\ Contains(k[Par(k, m)], m)
    BY <2>1, ParOf
  <2>3. Par(k, m) # n
    BY <2>2, OnList
  <2>4. Par(k, m) \in DOMAIN u
    BY <1>1, <2>2, <2>3
  <2> QED
    BY <1>1, <2>1, <2>2, <2>4, Zenon
<1>7. \A m \in DOMAIN u \ {Root} : \E p \in DOMAIN u : Contains(u[p], m)
  BY <1>6
<1>8. \A m \in DOMAIN u \ {Root} : Par(u, m) = Par(k, m)
  <2> TAKE m \in DOMAIN u \ {Root}
  <2>1. Par(k, m) \in DOMAIN u /\ Contains(u[Par(k, m)], m)
    BY <1>6
  <2>2. Par(u, m) \in DOMAIN u /\ Contains(u[Par(u, m)], m)
    BY <2>1 DEF Par
  <2> QED
    BY <1>5, <2>1, <2>2
<1>9. ASSUME NEW S \in SUBSET (DOMAIN u \ {Root}), S # {}
      PROVE  \E m \in S : Par(u, m) \notin S
  <2>1. S \in SUBSET (DOMAIN k \ {Root})
    BY <1>1
  <2>2. PICK m \in S : Par(k, m) \notin S
    BY <1>9, <2>1 DEF Rooted
  <2> QED
    BY <1>8, <2>2
<1>10. Rooted(u)
  BY <1>2, <1>3, <1>4, <1>5, <1>7, <1>9 DEF Rooted
<1> QED
  BY <1>8, <1>10

\* The other paths are as they were.
LEMMA CutPaths ==
  ASSUME NEW k, Rooted(k), NEW n \in DOMAIN k \ {Root}, k[n] = <<>>,
         NEW u, u = CutKids(k, n)
  PROVE  \A m \in DOMAIN u : Path(u, m) = Path(k, m)
<1>1. Rooted(u) /\ \A m \in DOMAIN u \ {Root} : Par(u, m) = Par(k, m)
  BY CutRooted
<1>2. DOMAIN u = DOMAIN k \ {n}
  BY DEF CutKids
<1> TAKE m \in DOMAIN u
<1>3. n \notin Path(k, m)
  BY <1>2, LeafOnPath
<1>4. Path(k, m) \in SUBSET DOMAIN u
  BY <1>2, <1>3, PathRises
<1> QED
  BY <1>1, <1>2, <1>4, PathSame

-----------------------------------------------------------------------------
(***************************************************************************)
(* Trees of blocks.                                                        *)
(***************************************************************************)

BlockTypes ==
  AcceptsLines \cup {"document", "block_quote", "list", "item", "html_block",
                     "thematic_break", "footnote_definition"}

Fields ==
  {"type", "open", "last_line_blank", "checked", "tight", "start_line", "end_line",
   "content", "bullet", "marker_offset", "padding", "fenced", "setext", "html", "indent"}

IsBlock(r) ==
  r = [f \in Fields |-> r[f]] /\ r.type \in BlockTypes /\ r.open \in BOOLEAN

IsTree(t) ==
  /\ t = [block |-> t.block, kids |-> t.kids, refs |-> t.refs]
  /\ t.block = [n \in DOMAIN t.kids |-> t.block[n]]
  /\ \A n \in DOMAIN t.kids : IsBlock(t.block[n])

\* Every block may be where it is.
WellTree(t) ==
  /\ IsTree(t)
  /\ Rooted(t.kids)
  /\ t.block[Root].type = "document"
  /\ \A p, n \in DOMAIN t.kids :
       Contains(t.kids[p], n) => CanContain(t.block[p].type, t.block[n].type)

OpenIn(t) == {n \in DOMAIN t.kids : t.block[n].open}

\* The same tree, but for what is in the blocks; a paragraph may have become a
\* heading.
Alike(t, u) ==
  /\ IsTree(u)
  /\ u.kids = t.kids
  /\ \A n \in DOMAIN t.kids :
       \/ u.block[n].type = t.block[n].type
       \/ t.block[n].type = "paragraph" /\ u.block[n].type = "heading"

\* One field of one block is assigned to.
LEMMA BlockAssigned ==
  ASSUME NEW r, IsBlock(r), NEW f \in Fields \ {"type", "open"}, NEW v
  PROVE  /\ IsBlock([r EXCEPT ![f] = v])
         /\ [r EXCEPT ![f] = v].type = r.type /\ [r EXCEPT ![f] = v].open = r.open
  BY DEF IsBlock, Fields

\* Blocks replaced by blocks of their types.
LEMMA BlocksReplaced ==
  ASSUME NEW t, IsTree(t), NEW b, b = [n \in DOMAIN t.kids |-> b[n]],
         \A n \in DOMAIN t.kids : IsBlock(b[n]) /\ b[n].type = t.block[n].type,
         NEW u, u = [block |-> b, kids |-> t.kids, refs |-> u.refs]
  PROVE  Alike(t, u)
  BY DEF IsTree, Alike

\* Two such changes are one.
LEMMA AlikeTwice ==
  ASSUME NEW t, NEW u, NEW v, Alike(t, u), Alike(u, v)
  PROVE  Alike(t, v)
<1>1. \A n \in DOMAIN t.kids :
        \/ v.block[n].type = t.block[n].type
        \/ t.block[n].type = "paragraph" /\ v.block[n].type = "heading"
  BY DEF Alike
<1> QED
  BY <1>1 DEF Alike

\* Leaves have no children.
LEMMA LeavesEmpty ==
  ASSUME NEW t, WellTree(t), NEW n \in DOMAIN t.kids,
         t.block[n].type \notin {"document", "block_quote", "item", "footnote_definition", "list"}
  PROVE  t.kids[n] = <<>>
<1> SUFFICES ASSUME t.kids[n] # <<>> PROVE FALSE
  OBVIOUS
<1>1. PICK x \in DOMAIN t.kids : Contains(t.kids[n], x)
  BY LastOnList DEF WellTree
<1>2. CanContain(t.block[n].type, t.block[x].type)
  BY <1>1 DEF WellTree
<1> QED
  BY <1>2 DEF CanContain

\* After it every block still may be where it is.
LEMMA AlikeWell ==
  ASSUME NEW t, WellTree(t), NEW u, Alike(t, u)
  PROVE  WellTree(u)
<1>1. u.block[Root].type = "document"
  BY DEF WellTree, Alike, Rooted
<1>2. ASSUME NEW q \in DOMAIN u.kids, NEW n \in DOMAIN u.kids, Contains(u.kids[q], n)
      PROVE  CanContain(u.block[q].type, u.block[n].type)
  <2>1. q \in DOMAIN t.kids /\ n \in DOMAIN t.kids /\ Contains(t.kids[q], n)
    BY <1>2 DEF Alike
  <2>2. CanContain(t.block[q].type, t.block[n].type)
    BY <2>1 DEF WellTree
  <2>3. u.block[q].type = t.block[q].type
    BY <2>1, <2>2 DEF Alike, CanContain
  <2>4. \/ u.block[n].type = t.block[n].type
        \/ t.block[n].type = "paragraph" /\ u.block[n].type = "heading"
    BY <2>1 DEF Alike
  <2> QED
    BY <2>2, <2>3, <2>4 DEF CanContain
<1> QED
  BY <1>1, <1>2 DEF WellTree, Alike

-----------------------------------------------------------------------------
(***************************************************************************)
(* finalize.                                                               *)
(***************************************************************************)

\* One field of a block of a tree is assigned to.
LEMMA TreeAssigned ==
  ASSUME NEW t, IsTree(t), NEW n \in DOMAIN t.kids, NEW f \in Fields \ {"type", "open"}, NEW v,
         NEW u, u = [block |-> [t.block EXCEPT ![n] = [@ EXCEPT ![f] = v]],
                     kids |-> t.kids, refs |-> u.refs]
  PROVE  Alike(t, u) /\ OpenIn(u) = OpenIn(t)
<1> DEFINE b == [t.block EXCEPT ![n] = [@ EXCEPT ![f] = v]]
<1>1. /\ b = [m \in DOMAIN t.kids |-> b[m]]
      /\ \A m \in DOMAIN t.kids : b[m] = IF m = n THEN [t.block[n] EXCEPT ![f] = v] ELSE t.block[m]
  BY DEF IsTree
<1>2. \A m \in DOMAIN t.kids :
        IsBlock(b[m]) /\ b[m].type = t.block[m].type /\ b[m].open = t.block[m].open
  <2> TAKE m \in DOMAIN t.kids
  <2>1. IsBlock(t.block[m]) /\ IsBlock(t.block[n])
    BY DEF IsTree
  <2>2. CASE m = n
    <3> DEFINE r == t.block[n]
    <3>1. IsBlock(r) /\ b[m] = [r EXCEPT ![f] = v]
      BY <1>1, <2>1, <2>2
    <3> HIDE DEF r, b
    <3>2. IsBlock(b[m]) /\ b[m].type = r.type /\ b[m].open = r.open
      BY <3>1, BlockAssigned
    <3> QED
      BY <2>2, <3>2 DEF r
  <2>3. CASE m # n
    BY <1>1, <2>1, <2>3
  <2> QED
    BY <2>2, <2>3
<1>3. u.block = b /\ u.kids = t.kids
  OBVIOUS
<1> HIDE DEF b
<1>4. Alike(t, u)
  BY <1>1, <1>2, <1>3, BlocksReplaced
<1>5. OpenIn(u) = OpenIn(t)
  BY <1>2, <1>3 DEF OpenIn
<1> QED
  BY <1>4, <1>5

\* Link reference definitions taken off a paragraph.
LEMMA ResolvedAlike ==
  ASSUME NEW t, IsTree(t), NEW n \in DOMAIN t.kids
  PROVE  Alike(t, Resolved(t, n)) /\ OpenIn(Resolved(t, n)) = OpenIn(t)
<1> DEFINE c == t.block[n].content
           k == Definitions(c)
           left == SubSeq(c, k + 1, Len(c))
           taken == {c[i].line : i \in 1 .. k}
<1>1. Resolved(t, n) = [t EXCEPT !.block[n].content = left, !.refs = @ \cup taken]
  BY DEF Resolved
<1> HIDE DEF left, taken
<1>2. Resolved(t, n) = [block |-> [t.block EXCEPT ![n] = [@ EXCEPT !["content"] = left]],
                        kids |-> t.kids, refs |-> Resolved(t, n).refs]
  BY <1>1 DEF IsTree
<1>3. "content" \in Fields \ {"type", "open"}
  BY DEF Fields
<1> QED
  BY <1>2, <1>3, TreeAssigned

\* A list whose tightness is decided.
LEMMA JudgedAlike ==
  ASSUME NEW t, IsTree(t), NEW n \in DOMAIN t.kids
  PROVE  Alike(t, Judged(t, n)) /\ OpenIn(Judged(t, n)) = OpenIn(t)
<1> DEFINE v == FirstLoose(t, n) = 0
           b == [m \in DOMAIN t.kids |->
                  IF m = n THEN [t.block[n] EXCEPT !.tight = v]
                  ELSE IF m \in Checked(t, n) THEN [t.block[m] EXCEPT !.checked = TRUE]
                  ELSE t.block[m]]
<1>1. Judged(t, n) = [t EXCEPT !.block = [m \in DOMAIN t.block |->
          IF m = n THEN [t.block[n] EXCEPT !.tight = v]
          ELSE IF m \in Checked(t, n) THEN [t.block[m] EXCEPT !.checked = TRUE]
          ELSE t.block[m]]]
  BY DEF Judged
<1>2. DOMAIN t.block = DOMAIN t.kids
  BY DEF IsTree
<1>3. Judged(t, n) = [block |-> b, kids |-> t.kids, refs |-> t.refs]
  BY <1>1, <1>2 DEF IsTree
<1>4. \A m \in DOMAIN t.kids :
        IsBlock(b[m]) /\ b[m].type = t.block[m].type /\ b[m].open = t.block[m].open
  <2>1. "tight" \in Fields \ {"type", "open"} /\ "checked" \in Fields \ {"type", "open"}
    BY DEF Fields
  <2>2. \A m \in DOMAIN t.kids : IsBlock(t.block[m])
    BY DEF IsTree
  <2> TAKE m \in DOMAIN t.kids
  <2>3. \/ b[m] = t.block[m]
        \/ b[m] = [t.block[m] EXCEPT !["tight"] = v]
        \/ b[m] = [t.block[m] EXCEPT !["checked"] = TRUE]
    OBVIOUS
  <2> DEFINE r == t.block[m]
  <2>4. IsBlock(r)
    BY <2>2
  <2> HIDE DEF b, v, r
  <2>5. ASSUME NEW f \in Fields \ {"type", "open"}, NEW w, b[m] = [r EXCEPT ![f] = w]
        PROVE  IsBlock(b[m]) /\ b[m].type = r.type /\ b[m].open = r.open
    BY <2>4, <2>5, BlockAssigned
  <2>6. \/ b[m] = r
        \/ b[m] = [r EXCEPT !["tight"] = v]
        \/ b[m] = [r EXCEPT !["checked"] = TRUE]
    BY <2>3 DEF r
  <2>7. IsBlock(b[m]) /\ b[m].type = r.type /\ b[m].open = r.open
    BY <2>1, <2>4, <2>5, <2>6
  <2> QED
    BY <2>7 DEF r
<1>5. b = [m \in DOMAIN t.kids |-> b[m]]
  OBVIOUS
<1>6. Judged(t, n).block = b /\ Judged(t, n).kids = t.kids /\ Judged(t, n).refs = t.refs
  BY <1>3
<1> HIDE DEF b
<1>7. Alike(t, Judged(t, n))
  BY <1>3, <1>4, <1>5, <1>6, BlocksReplaced
<1>8. OpenIn(Judged(t, n)) = OpenIn(t)
  BY <1>4, <1>6 DEF OpenIn
<1> QED
  BY <1>7, <1>8

\* A tree without one of its leaves.
LEMMA RemovedTree ==
  ASSUME NEW t, WellTree(t), NEW n \in DOMAIN t.kids \ {Root}, t.kids[n] = <<>>,
         NEW v, v = Removed(t, n)
  PROVE  /\ WellTree(v) /\ v.kids = CutKids(t.kids, n)
         /\ \A m \in DOMAIN v.kids : v.block[m] = t.block[m]
         /\ OpenIn(v) = OpenIn(t) \ {n}
<1>1. /\ v.block = [m \in DOMAIN t.kids \ {n} |-> t.block[m]]
      /\ v.kids = CutKids(t.kids, n)
      /\ v = [block |-> v.block, kids |-> v.kids, refs |-> v.refs]
  BY DEF Removed, WellTree, IsTree, CutKids
<1>2. Rooted(t.kids) /\ Rooted(v.kids) /\ CutBy(t.kids, v.kids, n)
  BY <1>1, CutRooted, CutLists DEF WellTree
<1>3. DOMAIN v.kids = DOMAIN t.kids \ {n}
  BY <1>2 DEF CutBy
<1>4. \A m \in DOMAIN v.kids : v.block[m] = t.block[m]
  BY <1>1, <1>3
<1>5. IsTree(v)
  <2>1. \A m \in DOMAIN v.kids : IsBlock(v.block[m])
    BY <1>3, <1>4 DEF WellTree, IsTree
  <2>2. v.block = [m \in DOMAIN v.kids |-> v.block[m]]
    BY <1>1, <1>3
  <2> QED
    BY <1>1, <2>1, <2>2 DEF IsTree
<1>6. Root \in DOMAIN v.kids /\ v.block[Root].type = "document"
  BY <1>2, <1>4 DEF WellTree, Rooted
<1>7. ASSUME NEW p \in DOMAIN v.kids, NEW m \in DOMAIN v.kids, Contains(v.kids[p], m)
      PROVE  CanContain(v.block[p].type, v.block[m].type)
  <2>1. p \in DOMAIN t.kids /\ m \in DOMAIN t.kids
    BY <1>3
  <2>2. Contains(t.kids[p], m)
    BY <1>2, <1>7 DEF CutBy
  <2> QED
    BY <1>4, <2>1, <2>2 DEF WellTree
<1>8. OpenIn(v) = OpenIn(t) \ {n}
  BY <1>3, <1>4 DEF OpenIn
<1> QED
  BY <1>1, <1>2, <1>4, <1>5, <1>6, <1>7, <1>8 DEF WellTree

\* finalize closes a block, and removes it if it is a paragraph of nothing but
\* definitions.
LEMMA FinalizedKinds ==
  ASSUME NEW t, WellTree(t), NEW n \in DOMAIN t.kids
  PROVE  \E c : /\ Alike(t, c) /\ OpenIn(c) = OpenIn(t) \ {n}
                /\ \/ Finalized(t, n) = c
                   \/ t.block[n].type = "paragraph" /\ Finalized(t, n) = Removed(c, n)
<1> DEFINE r == t.block[n]
           last == IF phase = "finish" \/ EndsOnCurrentLine(r)
                   THEN line_number ELSE line_number - 1
           closed == [t EXCEPT !.block[n] = [r EXCEPT !.open = FALSE, !.end_line = last]]
           left == Resolved(closed, n)
<1>1. Alike(t, closed) /\ OpenIn(closed) = OpenIn(t) \ {n}
  <2> DEFINE s == [r EXCEPT !.open = FALSE, !.end_line = last]
             b == [t.block EXCEPT ![n] = s]
  <2>2. IsBlock(r)
    BY DEF WellTree, IsTree
  <2>3. closed = [block |-> b, kids |-> t.kids, refs |-> t.refs]
    BY DEF WellTree, IsTree
  <2> HIDE DEF r, last, closed
  <2>4. IsBlock(s) /\ s.type = r.type /\ s.open = FALSE
    BY <2>2 DEF IsBlock, Fields
  <2> HIDE DEF s
  <2>5. /\ b = [m \in DOMAIN t.kids |-> b[m]]
        /\ \A m \in DOMAIN t.kids : b[m] = IF m = n THEN s ELSE t.block[m]
    BY DEF WellTree, IsTree
  <2>6. \A m \in DOMAIN t.kids :
          IsBlock(b[m]) /\ b[m].type = t.block[m].type /\ b[m].open = (t.block[m].open /\ m # n)
    BY <2>4, <2>5 DEF WellTree, IsTree, IsBlock, r
  <2>7. closed.block = b /\ closed.kids = t.kids /\ closed.refs = t.refs
    BY <2>3
  <2> HIDE DEF b
  <2>8. Alike(t, closed)
    BY <2>3, <2>5, <2>6, <2>7, BlocksReplaced DEF WellTree
  <2>9. OpenIn(closed) = OpenIn(t) \ {n}
    BY <2>6, <2>7 DEF OpenIn
  <2> QED
    BY <2>8, <2>9
<1>2. Finalized(t, n) = CASE r.type = "paragraph" ->
                               IF left.block[n].content = <<>> THEN Removed(left, n) ELSE left
                          [] r.type = "list" -> Judged(closed, n)
                          [] OTHER -> closed
  BY DEF Finalized
<1> HIDE DEF last, closed, left
<1>3. IsTree(closed) /\ n \in DOMAIN closed.kids
  BY <1>1 DEF Alike
<1>4. CASE r.type = "paragraph"
  <2>1. Alike(closed, left) /\ OpenIn(left) = OpenIn(closed)
    BY <1>3, ResolvedAlike DEF left
  <2>2. Alike(t, left) /\ OpenIn(left) = OpenIn(t) \ {n}
    BY <1>1, <2>1, AlikeTwice
  <2>3. Finalized(t, n) \in {left, Removed(left, n)}
    BY <1>2, <1>4
  <2> QED
    BY <1>4, <2>2, <2>3
<1>5. CASE r.type = "list"
  <2>1. Alike(closed, Judged(closed, n)) /\ OpenIn(Judged(closed, n)) = OpenIn(closed)
    BY <1>3, JudgedAlike
  <2>2. Finalized(t, n) = Judged(closed, n)
    BY <1>2, <1>5
  <2>3. Alike(t, Finalized(t, n)) /\ OpenIn(Finalized(t, n)) = OpenIn(t) \ {n}
    BY <1>1, <2>1, <2>2, AlikeTwice
  <2> QED
    BY <2>3
<1>6. CASE r.type # "paragraph" /\ r.type # "list"
  <2>1. Finalized(t, n) = closed
    BY <1>2, <1>6
  <2> QED
    BY <1>1, <2>1
<1> QED
  BY <1>4, <1>5, <1>6

\* What is the same after n was finalized.
Shut(t, v, n) ==
  /\ WellTree(v)
  /\ DOMAIN v.kids \subseteq DOMAIN t.kids
  /\ \A m \in DOMAIN t.kids : m \notin DOMAIN v.kids => m = n /\ t.kids[m] = <<>>
  /\ \A m \in DOMAIN v.kids : Path(v.kids, m) = Path(t.kids, m)
  /\ \A m \in DOMAIN v.kids \ {Root} : Par(v.kids, m) = Par(t.kids, m)
  /\ \A m \in DOMAIN v.kids : Last(t.kids[m]) # n => Last(v.kids[m]) = Last(t.kids[m])
  /\ OpenIn(v) = OpenIn(t) \ {n}
  /\ \A m \in DOMAIN v.kids :
       t.block[m].type # "paragraph" => v.block[m].type = t.block[m].type

\* finalize changes no more than that.
LEMMA FinalizedShuts ==
  ASSUME NEW t, WellTree(t), NEW n \in DOMAIN t.kids
  PROVE  Shut(t, Finalized(t, n), n)
<1>1. PICK c : /\ Alike(t, c) /\ OpenIn(c) = OpenIn(t) \ {n}
               /\ \/ Finalized(t, n) = c
                  \/ t.block[n].type = "paragraph" /\ Finalized(t, n) = Removed(c, n)
  BY FinalizedKinds
<1>2. WellTree(c) /\ c.kids = t.kids
  BY <1>1, AlikeWell DEF Alike
<1>3. \A m \in DOMAIN t.kids : t.block[m].type # "paragraph" => c.block[m].type = t.block[m].type
  BY <1>1 DEF Alike
<1>4. CASE Finalized(t, n) = c
  BY <1>1, <1>2, <1>3, <1>4 DEF Shut
<1>5. CASE t.block[n].type = "paragraph" /\ Finalized(t, n) = Removed(c, n)
  <2>1. n # Root
    BY <1>5 DEF WellTree
  <2>2. t.kids[n] = <<>>
    BY <1>5, LeavesEmpty
  <2>3. PICK v : v = Removed(c, n)
    OBVIOUS
  <2>4. /\ WellTree(v) /\ v.kids = CutKids(c.kids, n)
        /\ \A m \in DOMAIN v.kids : v.block[m] = c.block[m]
        /\ OpenIn(v) = OpenIn(c) \ {n}
    BY <1>2, <2>1, <2>2, <2>3, RemovedTree
  <2>5. Rooted(t.kids) /\ n \in DOMAIN t.kids \ {Root} /\ v.kids = CutKids(t.kids, n)
    BY <1>2, <2>1, <2>4 DEF WellTree
  <2>6. CutBy(t.kids, v.kids, n)
    BY <2>5, CutLists
  <2>7. \A m \in DOMAIN v.kids : Path(v.kids, m) = Path(t.kids, m)
    BY <2>2, <2>5, CutPaths
  <2>8. \A m \in DOMAIN v.kids \ {Root} : Par(v.kids, m) = Par(t.kids, m)
    BY <2>2, <2>5, CutRooted
  <2>9. /\ DOMAIN v.kids = DOMAIN t.kids \ {n}
        /\ \A m \in DOMAIN v.kids : Last(t.kids[m]) # n => Last(v.kids[m]) = Last(t.kids[m])
    BY <2>6 DEF CutBy
  <2>10. OpenIn(v) = OpenIn(t) \ {n}
    BY <1>1, <2>4
  <2>11. \A m \in DOMAIN v.kids :
           t.block[m].type # "paragraph" => v.block[m].type = t.block[m].type
    BY <1>3, <2>4, <2>9
  <2>12. \A m \in DOMAIN t.kids : m \notin DOMAIN v.kids => m = n /\ t.kids[m] = <<>>
    BY <2>2, <2>9
  <2>13. DOMAIN v.kids \subseteq DOMAIN t.kids
    BY <2>9
  <2>14. Shut(t, v, n)
    BY <2>4, <2>7, <2>8, <2>9, <2>10, <2>11, <2>12, <2>13 DEF Shut
  <2> QED
    BY <1>5, <2>3, <2>14
<1> QED
  BY <1>1, <1>4, <1>5

-----------------------------------------------------------------------------
(***************************************************************************)
(* The open blocks.                                                        *)
(***************************************************************************)

\* Each is the last child of its parent.
Hangs(k, S) == \A n \in S \ {Root} : n = Last(k[Par(k, n)])

\* The blocks from q up to l, without l.
Between(k, q, l) == Path(k, q) \ Path(k, l)

\* The open blocks are those on the path to c, and those the line did not
\* continue: from q, the current block of the line before, up to the last l
\* that it did.
ShapeCore(t, c, q, l) ==
  /\ WellTree(t)
  /\ c \in DOMAIN t.kids
  /\ q # l => q \in DOMAIN t.kids /\ l \in Path(t.kids, q)
  /\ OpenIn(t) = Path(t.kids, c) \cup Between(t.kids, q, l)
  /\ Path(t.kids, c) \cap Between(t.kids, q, l) = {}
  /\ Hangs(t.kids, Path(t.kids, c))

\* As long as nothing was opened, the others are last children as well.
Shape(t, c, q, l) ==
  ShapeCore(t, c, q, l) /\ (c = l => Hangs(t.kids, Path(t.kids, q)))

\* Between two lines.
Rest(t, q) ==
  /\ WellTree(t)
  /\ q \in DOMAIN t.kids
  /\ OpenIn(t) = Path(t.kids, q)
  /\ Hangs(t.kids, Path(t.kids, q))

\* Without blocks between, the open ones are those of one path.
LEMMA ShapeRests ==
  ASSUME NEW t, NEW c, NEW q, ShapeCore(t, c, q, q)
  PROVE  Rest(t, c)
  BY DEF ShapeCore, Between, Rest

\* A block of the path that the line was found to continue.
LEMMA RestShapes ==
  ASSUME NEW t, NEW q, Rest(t, q), NEW c \in Path(t.kids, q)
  PROVE  Shape(t, c, q, c)
<1>1. /\ c \in DOMAIN t.kids /\ Path(t.kids, c) \subseteq Path(t.kids, q)
      /\ Hangs(t.kids, Path(t.kids, q))
  BY PathWithin DEF Rest, WellTree
<1>2. Hangs(t.kids, Path(t.kids, c))
  BY <1>1 DEF Hangs
<1> QED
  BY <1>1, <1>2 DEF Rest, Shape, ShapeCore, Between

\* What is in the blocks does not matter to which are open.
LEMMA AlikeShapes ==
  ASSUME NEW t, NEW c, NEW q, NEW l, Shape(t, c, q, l), NEW u, Alike(t, u), OpenIn(u) = OpenIn(t)
  PROVE  Shape(u, c, q, l)
<1>1. WellTree(u) /\ u.kids = t.kids
  BY AlikeWell DEF Shape, ShapeCore, Alike
<1> QED
  BY <1>1 DEF Shape, ShapeCore

\* Nor does it between two lines.
LEMMA AlikeRests ==
  ASSUME NEW t, NEW q, Rest(t, q), NEW u, Alike(t, u), OpenIn(u) = OpenIn(t)
  PROVE  Rest(u, q)
<1>1. WellTree(u) /\ u.kids = t.kids
  BY AlikeWell DEF Rest, Alike
<1> QED
  BY <1>1 DEF Rest
-----------------------------------------------------------------------------
(***************************************************************************)
(* add_child: the way up, and the address.                                 *)
(***************************************************************************)

\* The blocks on the way up from each block to the nearest of a set that has
\* the root.
Climbs(k, S, f) == f = [m \in DOMAIN k |-> IF m \in S THEN <<m>> ELSE <<m>> \o f[Par(k, m)]]

\* They are well defined, on more and more blocks.
LEMMA ClimbExists ==
  ASSUME NEW k, Rooted(k), NEW S, Root \in S
  PROVE  \E f : Climbs(k, S, f)
<1> DEFINE D == DOMAIN k
           Solves(X, f) == f = [m \in X |-> IF m \in S THEN <<m>> ELSE <<m>> \o f[Par(k, m)]]
           U == {D \ X : X \in {Y \in SUBSET D : /\ Root \in Y /\ Rises(k, Y)
                                                 /\ \E f : Solves(Y, f)}}
           R == StrictSubsetOrdering(D)
<1>1. Root \in D /\ IsFiniteSet(D)
  BY DEF Rooted
<1>2. U \subseteq FiniteSubsetsOf(D)
  <2>1. \A X \in SUBSET D : IsFiniteSet(D \ X)
    BY <1>1, FS_Subset
  <2> QED
    BY <2>1 DEF FiniteSubsetsOf
<1>3. U # {}
  <2> DEFINE f == [m \in {Root} |-> <<m>>]
  <2>1. Solves({Root}, f)
    OBVIOUS
  <2>2. {Root} \in SUBSET D /\ Root \in {Root} /\ Rises(k, {Root})
    BY <1>1 DEF Rises
  <2>3. D \ {Root} \in U
    <3> HIDE DEF f, D
    <3> QED
      BY <2>1, <2>2
  <2> HIDE DEF U
  <2> QED
    BY <2>3
<1>4. PICK w \in U : \A v \in U : ~(<<v, w>> \in R)
  <2>1. IsWellFoundedOn(R, FiniteSubsetsOf(D))
    BY <1>1, FS_StrictSubsetOrderingWellFounded
  <2> HIDE DEF U, R, D
  <2> QED
    BY <1>2, <1>3, <2>1, WFMin
<1>5. PICK X \in SUBSET D : w = D \ X /\ Root \in X /\ Rises(k, X) /\ \E f : Solves(X, f)
  OBVIOUS
<1>6. PICK f : Solves(X, f)
  BY <1>5
<1>7. CASE X = D
  BY <1>6, <1>7 DEF Climbs
<1>8. CASE X # D
  <2>1. D \ X \in SUBSET (DOMAIN k \ {Root}) /\ D \ X # {}
    BY <1>5, <1>8
  <2>2. PICK n \in D \ X : Par(k, n) \notin D \ X
    BY <2>1 DEF Rooted
  <2>3. n \in D \ {Root} /\ Par(k, n) \in X
    BY <1>5, <2>2, ParOf
  <2> DEFINE Y == X \cup {n}
             g == [m \in Y |-> IF m \in X THEN f[m]
                               ELSE IF n \in S THEN <<n>> ELSE <<n>> \o f[Par(k, n)]]
  <2>4. Solves(Y, g)
    <3>1. \A m \in X : g[m] = IF m \in S THEN <<m>> ELSE <<m>> \o g[Par(k, m)]
      <4> TAKE m \in X
      <4>1. g[m] = f[m] /\ f[m] = IF m \in S THEN <<m>> ELSE <<m>> \o f[Par(k, m)]
        BY <1>6
      <4>2. m \notin S => Par(k, m) \in X
        BY <1>5 DEF Rises
      <4>3. m \notin S => g[Par(k, m)] = f[Par(k, m)]
        BY <4>2
      <4> QED
        BY <4>1, <4>3
    <3>2. g[n] = IF n \in S THEN <<n>> ELSE <<n>> \o g[Par(k, n)]
      BY <2>2, <2>3
    <3>3. DOMAIN g = Y
      OBVIOUS
    <3>4. \A m \in Y : g[m] = IF m \in S THEN <<m>> ELSE <<m>> \o g[Par(k, m)]
      BY <3>1, <3>2
    <3>5. g = [m \in Y |-> g[m]]
      OBVIOUS
    <3> HIDE DEF g, Y
    <3> QED
      BY <3>4, <3>5
  <2>5. Y \in SUBSET D /\ Root \in Y /\ Rises(k, Y)
    BY <1>5, <2>3 DEF Rises
  <2>6. D \ Y \in U
    <3> HIDE DEF g, Y, D
    <3> QED
      BY <2>4, <2>5
  <2>7. <<D \ Y, w>> \in R
    BY <1>5, <2>2 DEF StrictSubsetOrdering
  <2> QED
    BY <1>4, <2>6, <2>7
<1> QED
  BY <1>7, <1>8

\* The parent.
LEMMA ParentIs ==
  ASSUME NEW t, NEW n, n # Root
  PROVE  ParentOf(t, n) = Par(t.kids, n)
  BY DEF ParentOf, Par

\* A block that can contain the new one takes it; else its parent does.
LEMMA AcceptorIs ==
  ASSUME NEW t, WellTree(t), NEW n \in DOMAIN t.kids, NEW ty,
         ty = "item" => t.block[n].type = "list"
  PROVE  IF CanContain(t.block[n].type, ty)
         THEN Acceptor(t, n, ty) = <<n>>
         ELSE /\ n # Root /\ CanContain(t.block[Par(t.kids, n)].type, ty)
              /\ Acceptor(t, n, ty) = <<n, Par(t.kids, n)>>
<1> DEFINE k == t.kids
           S == {m \in DOMAIN k : m = Root \/ CanContain(t.block[m].type, ty)}
           Up == CHOOSE f : f = [m \in DOMAIN t.block |->
                   IF m = Root \/ CanContain(t.block[m].type, ty) THEN <<m>>
                   ELSE <<m>> \o f[ParentOf(t, m)]]
<1>1. Acceptor(t, n, ty) = Up[n]
  BY DEF Acceptor
<1>2. Rooted(k) /\ Root \in DOMAIN k /\ DOMAIN t.block = DOMAIN k
  BY DEF WellTree, IsTree, Rooted
<1>3. Root \in S
  BY <1>2
<1>4. \A f : f = [m \in DOMAIN t.block |->
                   IF m = Root \/ CanContain(t.block[m].type, ty) THEN <<m>>
                   ELSE <<m>> \o f[ParentOf(t, m)]] <=> Climbs(k, S, f)
  <2> TAKE f
  <2>1. \A m \in DOMAIN k :
          (IF m = Root \/ CanContain(t.block[m].type, ty) THEN <<m>>
           ELSE <<m>> \o f[ParentOf(t, m)])
          = (IF m \in S THEN <<m>> ELSE <<m>> \o f[Par(k, m)])
    BY ParentIs
  <2> QED
    BY <1>2, <2>1 DEF Climbs
<1> HIDE DEF S, k
<1>5. \E f : Climbs(k, S, f)
  BY <1>2, <1>3, ClimbExists
<1>6. Climbs(k, S, Up)
  BY <1>4, <1>5
<1> HIDE DEF Up
<1>7. \A m \in DOMAIN k : Up[m] = IF m \in S THEN <<m>> ELSE <<m>> \o Up[Par(k, m)]
  BY <1>6 DEF Climbs
<1>8. CASE CanContain(t.block[n].type, ty)
  BY <1>1, <1>7, <1>8 DEF S, k
<1>9. CASE ~CanContain(t.block[n].type, ty)
  <2>1. /\ ty # "item"
        /\ t.block[n].type \notin {"document", "block_quote", "item", "footnote_definition"}
    BY <1>9 DEF CanContain
  <2>2. n # Root
    BY <2>1 DEF WellTree
  <2>3. Par(k, n) \in DOMAIN k /\ Contains(k[Par(k, n)], n)
    BY <1>2, <2>2, ParOf DEF k
  <2>4. CanContain(t.block[Par(k, n)].type, t.block[n].type)
    BY <2>3 DEF WellTree, k
  <2>5. CanContain(t.block[Par(k, n)].type, ty)
    BY <2>1, <2>4 DEF CanContain
  <2>6. Up[Par(k, n)] = <<Par(k, n)>>
    BY <1>7, <2>3, <2>5 DEF S
  <2>7. n \notin S
    BY <1>9, <2>2 DEF S
  <2>8. Up[n] = <<n>> \o <<Par(k, n)>>
    BY <1>7, <2>6, <2>7 DEF k
  <2>9. Up[n] = <<n, Par(k, n)>>
    <3>1. ASSUME NEW x, NEW y
          PROVE  <<x>> \o <<y>> = <<x, y>>
      <4>1. <<x>> \in Seq({x, y}) /\ <<y>> \in Seq({x, y}) /\ <<x, y>> \in Seq({x, y})
        OBVIOUS
      <4>2. /\ <<x>> \o <<y>> \in Seq({x, y}) /\ Len(<<x>> \o <<y>>) = 2
            /\ (<<x>> \o <<y>>)[1] = x /\ (<<x>> \o <<y>>)[2] = y
        BY <4>1
      <4>3. \A s \in Seq({x, y}) : Len(s) = 2 /\ s[1] = x /\ s[2] = y => s = <<x, y>>
        OBVIOUS
      <4> QED
        BY <4>2, <4>3
    <3> QED
      BY <2>8, <3>1, Zenon
  <2> QED
    BY <1>1, <1>9, <2>2, <2>5, <2>9 DEF k
<1> QED
  BY <1>8, <1>9

\* A free address there always is.
LEMMA FreeAddressIs ==
  ASSUME NEW t, IsFiniteSet(DOMAIN t.block)
  PROVE  FreeAddress(t) \in Nat \ {0} /\ FreeAddress(t) \notin DOMAIN t.block
<1> DEFINE D == DOMAIN t.block
           c == Cardinality(D)
           S == {a \in 1 .. c + 1 : a \notin D}
<1>1. c \in Nat
  BY FS_CardinalityType
<1>2. S # {}
  <2> SUFFICES ASSUME 1 .. c + 1 \subseteq D PROVE FALSE
    OBVIOUS
  <2>1. Cardinality(1 .. c + 1) = c + 1
    BY <1>1, FS_Interval
  <2>2. Cardinality(1 .. c + 1) <= c
    BY FS_Subset
  <2> QED
    BY <1>1, <2>1, <2>2
<1>3. PICK a \in S : \A b \in S : a <= b
  <2>1. S \in SUBSET Nat
    BY <1>1
  <2> HIDE DEF S
  <2> QED
    BY <1>2, <2>1, LeastNumber
<1>4. a \in 1 .. c + 1 /\ a \notin D /\ \A b \in 1 .. a - 1 : b \in D
  BY <1>1, <1>3
<1>5. FreeAddress(t) \in 1 .. c + 1 /\ FreeAddress(t) \notin D
  BY <1>4 DEF FreeAddress
<1> QED
  BY <1>1, <1>5
\* No block is finalized on the way, or one.
LEMMA FoldNone ==
  ASSUME NEW t
  PROVE  FoldLeft(Finalized, t, <<>>) = t
<1> DEFINE G(f) == [s \in SUBSET DOMAIN <<>> |->
                     IF s = {} THEN t ELSE Finalized(f[s \ {Max(s)}], <<>>[Max(s)])]
           g == CHOOSE f : f = G(f)
<1>1. FoldLeft(Finalized, t, <<>>) = g[DOMAIN <<>>]
  BY Zenon DEF FoldLeft, MapThenFoldSet
<1>2. DOMAIN <<>> = {}
  OBVIOUS
<1>3. \E f : f = G(f)
  <2> DEFINE h == [s \in SUBSET DOMAIN <<>> |-> t]
  <2>1. \A s \in SUBSET DOMAIN <<>> : s = {}
    BY <1>2
  <2>2. h = G(h)
    BY <2>1
  <2> QED
    BY <2>2
<1>4. g = G(g)
  BY <1>3
<1> HIDE DEF g
<1>5. g[{}] = t
  BY <1>2, <1>4
<1> QED
  BY <1>1, <1>2, <1>5

\* One block on the way is finalized.
LEMMA FoldOne ==
  ASSUME NEW t, NEW n
  PROVE  FoldLeft(Finalized, t, <<n>>) = Finalized(t, n)
<1> DEFINE q == <<n>>
           G(f) == [s \in SUBSET DOMAIN q |->
                     IF s = {} THEN t ELSE Finalized(f[s \ {Max(s)}], q[Max(s)])]
           g == CHOOSE f : f = G(f)
<1>1. FoldLeft(Finalized, t, q) = g[DOMAIN q]
  BY Zenon DEF FoldLeft, MapThenFoldSet
<1>2. DOMAIN q = {1} /\ q[1] = n
  OBVIOUS
<1>3. Max({1}) = 1
  BY DEF Max
<1>4. \A s \in SUBSET {1} : s = {} \/ s = {1}
  OBVIOUS
<1> HIDE DEF q
<1>5. \E f : f = G(f)
  <2> DEFINE h == [s \in SUBSET DOMAIN q |-> IF s = {} THEN t ELSE Finalized(t, n)]
  <2>1. h[{}] = t
    OBVIOUS
  <2>2. \A s \in SUBSET DOMAIN q :
          h[s] = IF s = {} THEN t ELSE Finalized(h[s \ {Max(s)}], q[Max(s)])
    <3> TAKE s \in SUBSET DOMAIN q
    <3>1. CASE s = {}
      BY <3>1
    <3>2. CASE s = {1}
      <4>1. s \ {Max(s)} = {} /\ q[Max(s)] = n
        BY <1>2, <1>3, <3>2
      <4>2. h[s] = Finalized(t, n)
        BY <1>2, <3>2
      <4> HIDE DEF h
      <4> QED
        BY <2>1, <3>2, <4>1, <4>2
    <3> QED
      BY <1>2, <1>4, <3>1, <3>2
  <2>3. h = [s \in SUBSET DOMAIN q |-> h[s]]
    OBVIOUS
  <2> HIDE DEF h
  <2>4. h = G(h)
    BY <2>2, <2>3
  <2> QED
    BY <2>4
<1>6. g = G(g)
  BY <1>5
<1> HIDE DEF g
<1>7. g[{}] = t
  BY <1>2, <1>6
<1>8. g[{1}] = Finalized(g[{}], n)
  <2>1. {1} \ {Max({1})} = {} /\ q[Max({1})] = n /\ {1} \in SUBSET DOMAIN q /\ {1} # {}
    BY <1>2, <1>3
  <2>2. g[{1}] = Finalized(g[{1} \ {Max({1})}], q[Max({1})])
    BY <1>6, <2>1
  <2> QED
    BY <2>1, <2>2
<1> QED
  BY <1>1, <1>2, <1>7, <1>8 DEF q
-----------------------------------------------------------------------------
(***************************************************************************)
(* What finalize and add_child do to the open blocks.                      *)
(***************************************************************************)

\* Last children other than the finalized block stay last children.
LEMMA HangsShut ==
  ASSUME NEW t, WellTree(t), NEW n, NEW v, Shut(t, v, n),
         NEW S \in SUBSET DOMAIN v.kids, n \notin S, Hangs(t.kids, S)
  PROVE  Hangs(v.kids, S)
<1> SUFFICES ASSUME NEW m \in S \ {Root} PROVE m = Last(v.kids[Par(v.kids, m)])
  BY DEF Hangs
<1>1. m \in DOMAIN v.kids \ {Root} /\ Rooted(v.kids)
  BY DEF Shut, WellTree
<1>2. Par(v.kids, m) \in DOMAIN v.kids /\ Par(v.kids, m) = Par(t.kids, m)
  BY <1>1, ParOf DEF Shut
<1>3. m = Last(t.kids[Par(t.kids, m)])
  BY DEF Hangs
<1> QED
  BY <1>2, <1>3 DEF Shut

\* A block that has children is not removed.
LEMMA ParentStays ==
  ASSUME NEW t, WellTree(t), NEW n, NEW v, Shut(t, v, n), NEW m \in DOMAIN t.kids \ {Root},
         NEW p, p = Par(t.kids, m)
  PROVE  p \in DOMAIN v.kids
<1>1. p \in DOMAIN t.kids /\ Contains(t.kids[p], m)
  BY ParOf DEF WellTree
<1>2. t.kids[p] # <<>>
  BY <1>1, OnList DEF WellTree
<1> QED
  BY <1>1, <1>2 DEF Shut

\* The deepest of the open blocks is finalized.
LEMMA TipShut ==
  ASSUME NEW t, NEW c, NEW q, NEW l, ShapeCore(t, c, q, l), c # Root,
         NEW v, v = Finalized(t, c), NEW p, p = Par(t.kids, c)
  PROVE  ShapeCore(v, p, q, l)
<1> DEFINE k == t.kids
<1>1. /\ WellTree(t) /\ Rooted(k) /\ c \in DOMAIN k
      /\ q # l => q \in DOMAIN k /\ l \in Path(k, q)
      /\ OpenIn(t) = Path(k, c) \cup Between(k, q, l)
      /\ Path(k, c) \cap Between(k, q, l) = {}
      /\ Hangs(k, Path(k, c))
  BY DEF ShapeCore, WellTree
<1>2. Shut(t, v, c)
  BY <1>1, FinalizedShuts
<1>3. p \in DOMAIN v.kids
  BY <1>1, <1>2, ParentStays
<1>4. WellTree(v) /\ Rooted(v.kids) /\ OpenIn(v) = OpenIn(t) \ {c}
  BY <1>2 DEF Shut, WellTree
<1>5. Path(v.kids, p) = Path(k, p) /\ Path(k, p) \in SUBSET DOMAIN v.kids
  BY <1>2, <1>3, <1>4, PathRises DEF Shut
<1>6. Path(k, c) = {c} \cup Path(k, p) /\ c \notin Path(k, p)
  BY <1>1, PathStep, NoReturn
<1>7. /\ q # l => q \in DOMAIN v.kids /\ l \in Path(v.kids, q)
      /\ Between(v.kids, q, l) = Between(k, q, l)
  <2>1. CASE q = l
    BY <2>1 DEF Between
  <2>2. CASE q # l
    <3>1. q \in DOMAIN v.kids
      <4> SUFFICES ASSUME q \notin DOMAIN v.kids PROVE FALSE
        OBVIOUS
      <4>1. q = c /\ k[c] = <<>>
        BY <1>1, <1>2, <2>2 DEF Shut
      <4>2. c \in Path(k, c) /\ c \in Path(k, l)
        BY <1>1, <1>6, <4>1 DEF Between
      <4>3. l \in DOMAIN k
        BY <1>1, <2>2, PathWithin
      <4> QED
        BY <1>1, <2>2, <4>1, <4>2, <4>3, LeafOnPath
    <3>2. Path(v.kids, q) = Path(k, q)
      BY <1>2, <3>1 DEF Shut
    <3>3. l \in DOMAIN v.kids
      BY <1>1, <1>4, <2>2, <3>1, <3>2, PathWithin
    <3>4. Path(v.kids, l) = Path(k, l)
      BY <1>2, <3>3 DEF Shut
    <3> QED
      BY <1>1, <2>2, <3>1, <3>2, <3>4 DEF Between
  <2> QED
    BY <2>1, <2>2
<1>8. OpenIn(v) = Path(v.kids, p) \cup Between(v.kids, q, l)
  BY <1>1, <1>4, <1>5, <1>6, <1>7
<1>9. Path(v.kids, p) \cap Between(v.kids, q, l) = {}
  BY <1>1, <1>5, <1>6, <1>7
<1>10. Hangs(k, Path(k, p))
  BY <1>1, <1>6 DEF Hangs
<1>11. Hangs(v.kids, Path(v.kids, p))
  BY <1>1, <1>2, <1>5, <1>6, <1>10, HangsShut
<1> QED
  BY <1>3, <1>4, <1>7, <1>8, <1>9, <1>11 DEF ShapeCore

\* The deepest of those that the line did not continue is finalized.
LEMMA UnmatchedShut ==
  ASSUME NEW t, NEW c, NEW q, NEW l, Shape(t, c, q, l), q # l,
         NEW v, v = Finalized(t, q), NEW p, p = Par(t.kids, q)
  PROVE  q # Root /\ Shape(v, c, p, l)
<1> DEFINE k == t.kids
<1>1. /\ WellTree(t) /\ Rooted(k) /\ c \in DOMAIN k
      /\ q \in DOMAIN k /\ l \in Path(k, q)
      /\ OpenIn(t) = Path(k, c) \cup Between(k, q, l)
      /\ Path(k, c) \cap Between(k, q, l) = {}
      /\ Hangs(k, Path(k, c))
      /\ c = l => Hangs(k, Path(k, q))
  BY DEF Shape, ShapeCore, WellTree
<1>2. q # Root
  BY <1>1, PathRoot
<1>3. Shut(t, v, q)
  BY <1>1, FinalizedShuts
<1>4. p \in DOMAIN v.kids
  BY <1>1, <1>2, <1>3, ParentStays
<1>5. WellTree(v) /\ Rooted(v.kids) /\ OpenIn(v) = OpenIn(t) \ {q}
  BY <1>3 DEF Shut, WellTree
<1>6. Path(v.kids, p) = Path(k, p) /\ Path(k, p) \in SUBSET DOMAIN v.kids
  BY <1>3, <1>4, <1>5, PathRises DEF Shut
<1>7. Path(k, q) = {q} \cup Path(k, p) /\ q \notin Path(k, p)
  BY <1>1, <1>2, PathStep, NoReturn
<1>8. l \in Path(k, p) /\ l \in DOMAIN v.kids
  BY <1>1, <1>6, <1>7
<1>9. Path(v.kids, l) = Path(k, l) /\ Path(k, l) \subseteq Path(k, p)
  <2>1. Path(v.kids, l) = Path(k, l)
    BY <1>3, <1>8 DEF Shut
  <2>2. Path(v.kids, l) \subseteq Path(v.kids, p)
    BY <1>4, <1>5, <1>6, <1>8, PathWithin
  <2> QED
    BY <1>6, <2>1, <2>2
<1>10. q \in Between(k, q, l) /\ Between(v.kids, p, l) = Between(k, q, l) \ {q}
  BY <1>6, <1>7, <1>9 DEF Between
<1>11. q \notin Path(k, c)
  BY <1>1, <1>10
<1>12. c \in DOMAIN v.kids
  <2>1. c \in Path(k, c)
    BY <1>1, PathRises
  <2> QED
    BY <1>1, <1>3, <1>11, <2>1 DEF Shut
<1>13. Path(v.kids, c) = Path(k, c) /\ Path(k, c) \in SUBSET DOMAIN v.kids
  BY <1>3, <1>5, <1>12, PathRises DEF Shut
<1>14. OpenIn(v) = Path(v.kids, c) \cup Between(v.kids, p, l)
  BY <1>1, <1>5, <1>10, <1>11, <1>13
<1>15. Path(v.kids, c) \cap Between(v.kids, p, l) = {}
  BY <1>1, <1>10, <1>13
<1>16. Hangs(v.kids, Path(v.kids, c))
  BY <1>1, <1>3, <1>11, <1>13, HangsShut
<1>17. ASSUME c = l PROVE Hangs(v.kids, Path(v.kids, p))
  <2>1. Hangs(k, Path(k, p))
    BY <1>1, <1>7, <1>17 DEF Hangs
  <2> QED
    BY <1>1, <1>3, <1>6, <1>7, <2>1, HangsShut
<1>18. ShapeCore(v, c, p, l)
  BY <1>4, <1>5, <1>6, <1>8, <1>12, <1>14, <1>15, <1>16 DEF ShapeCore
<1> QED
  BY <1>2, <1>17, <1>18 DEF Shape

\* A new block r at the address a, below p.
Grown(v, p, a, r) ==
  [v EXCEPT !.block = Put(v.block, a, r),
            !.kids = Put(Put(v.kids, p, Append(v.kids[p], a)), a, <<>>)]

\* A new block below the deepest of the open ones.
LEMMA Appended ==
  ASSUME NEW v, NEW p, NEW q, NEW l, ShapeCore(v, p, q, l), NEW r, IsBlock(r), r.open,
         CanContain(v.block[p].type, r.type), NEW a, a = FreeAddress(v),
         NEW u, u = Grown(v, p, a, r)
  PROVE  Shape(u, a, q, l) /\ u.block[a] = r
<1> DEFINE k == v.kids
           w == u.kids
<1>1. /\ WellTree(v) /\ IsTree(v) /\ Rooted(k) /\ p \in DOMAIN k
      /\ q # l => q \in DOMAIN k /\ l \in Path(k, q)
      /\ OpenIn(v) = Path(k, p) \cup Between(k, q, l)
      /\ Path(k, p) \cap Between(k, q, l) = {}
      /\ Hangs(k, Path(k, p))
  BY DEF ShapeCore, WellTree
<1>2. a \in Nat \ {0} /\ a \notin DOMAIN k
  <2>1. DOMAIN v.block = DOMAIN k /\ IsFiniteSet(DOMAIN k)
    BY <1>1 DEF IsTree, Rooted
  <2> QED
    BY <2>1, FreeAddressIs
<1>3. PICK b, g : b = Put(v.block, a, r) /\ g = GrownKids(k, p, a)
  OBVIOUS
<1>4. /\ w = GrownKids(k, p, a) /\ u.block = Put(v.block, a, r)
      /\ u = [block |-> u.block, kids |-> u.kids, refs |-> u.refs]
  <2>1. u = [block |-> b, kids |-> g, refs |-> v.refs]
    BY <1>1, <1>3 DEF IsTree, GrownKids, Grown
  <2>2. u.kids = g /\ u.block = b /\ u = [block |-> u.block, kids |-> u.kids, refs |-> u.refs]
    BY <2>1
  <2> HIDE DEF k
  <2> QED
    BY <1>3, <2>2
<1> HIDE DEF w, k
<1>5. GrownBy(k, w, p, a)
  BY <1>1, <1>2, <1>4, GrownLists
<1>6. Rooted(w) /\ Par(w, a) = p /\ \A n \in DOMAIN k \ {Root} : Par(w, n) = Par(k, n)
  BY <1>1, <1>2, <1>4, GrownRooted
<1>7. Path(w, a) = {a} \cup Path(k, p) /\ \A n \in DOMAIN k : Path(w, n) = Path(k, n)
  BY <1>1, <1>2, <1>4, GrownPaths
<1>8. DOMAIN w = DOMAIN k \cup {a}
  BY <1>5 DEF GrownBy
<1>9. /\ u.block = [n \in DOMAIN w |-> u.block[n]]
      /\ u.block[a] = r /\ \A n \in DOMAIN k : u.block[n] = v.block[n]
  BY <1>1, <1>2, <1>4, <1>8 DEF Put, IsTree, k
<1>10. WellTree(u)
  <2>1. \A n \in DOMAIN w : IsBlock(u.block[n])
    BY <1>1, <1>8, <1>9 DEF IsTree, k
  <2>2. IsTree(u)
    BY <1>4, <1>9, <2>1 DEF IsTree, w
  <2>3. u.block[Root].type = "document"
    BY <1>1, <1>9 DEF WellTree, Rooted, k
  <2>4. ASSUME NEW x \in DOMAIN w, NEW n \in DOMAIN w, Contains(w[x], n)
        PROVE  CanContain(u.block[x].type, u.block[n].type)
    <3>1. x # a
      BY <1>5, <2>4, Zenon DEF GrownBy
    <3>2. x \in DOMAIN k
      BY <1>8, <3>1
    <3>3. Contains(k[x], n) \/ (x = p /\ n = a)
      BY <1>5, <2>4, <3>2, Zenon DEF GrownBy
    <3>4. CASE Contains(k[x], n)
      <4>1. n \in DOMAIN k
        BY <1>1, <3>2, <3>4, OnList
      <4>2. CanContain(v.block[x].type, v.block[n].type)
        BY <1>1, <3>2, <3>4, <4>1 DEF WellTree, k
      <4> QED
        BY <1>9, <3>2, <4>1, <4>2
    <3>5. CASE x = p /\ n = a
      BY <1>9, <3>2, <3>5
    <3> QED
      BY <3>3, <3>4, <3>5, Zenon
  <2> QED
    BY <1>6, <2>2, <2>3, <2>4 DEF WellTree, w
<1>11. OpenIn(u) = OpenIn(v) \cup {a}
  <2>1. OpenIn(u) = {n \in DOMAIN w : u.block[n].open}
    BY DEF OpenIn, w
  <2>2. OpenIn(v) = {n \in DOMAIN k : v.block[n].open}
    BY DEF OpenIn, k
  <2> QED
    BY <1>8, <1>9, <2>1, <2>2
<1>12. /\ q # l => q \in DOMAIN w /\ l \in Path(w, q) /\ l \in DOMAIN k
       /\ Between(w, q, l) = Between(k, q, l)
       /\ a \notin Between(k, q, l)
  <2>1. CASE q = l
    BY <2>1 DEF Between
  <2>2. CASE q # l
    <3>1. q \in DOMAIN k /\ l \in DOMAIN k /\ Path(k, q) \in SUBSET DOMAIN k
      BY <1>1, <2>2, PathWithin, PathRises
    <3> QED
      BY <1>1, <1>2, <1>7, <1>8, <2>2, <3>1 DEF Between
  <2> QED
    BY <2>1, <2>2
<1>13. Path(k, p) \in SUBSET DOMAIN k
  BY <1>1, PathRises
<1>14. Hangs(w, Path(w, a))
  <2> SUFFICES ASSUME NEW n \in Path(w, a) \ {Root} PROVE n = Last(w[Par(w, n)])
    BY DEF Hangs
  <2>1. CASE n = a
    BY <1>5, <1>6, <2>1 DEF GrownBy
  <2>2. CASE n # a
    <3>1. n \in Path(k, p) /\ n \in DOMAIN k \ {Root}
      BY <1>7, <1>13, <2>2
    <3>2. Par(k, n) \in DOMAIN k /\ Par(k, n) # p
      BY <1>1, <3>1, ParOf, NoReturn
    <3>3. w[Par(w, n)] = k[Par(k, n)]
      BY <1>5, <1>6, <3>1, <3>2 DEF GrownBy
    <3> QED
      BY <1>1, <3>1, <3>3 DEF Hangs
  <2> QED
    BY <2>1, <2>2
<1>15. ASSUME a = l PROVE Hangs(w, Path(w, q))
  BY <1>2, <1>12, <1>14, <1>15
<1>16. ShapeCore(u, a, q, l)
  <2>1. OpenIn(u) = Path(w, a) \cup Between(w, q, l)
    BY <1>1, <1>7, <1>11, <1>12 DEF k
  <2>2. Path(w, a) \cap Between(w, q, l) = {}
    BY <1>1, <1>7, <1>12 DEF k
  <2> QED
    BY <1>8, <1>10, <1>12, <1>14, <2>1, <2>2 DEF ShapeCore, w
<1> QED
  BY <1>9, <1>15, <1>16 DEF Shape, w

\* The ends of the way up.
LEMMA EndsOfOne ==
  ASSUME NEW x
  PROVE  Last(<<x>>) = x /\ Front(<<x>>) = <<>>
<1>1. Len(<<x>>) = 1 /\ <<x>> \in Seq({x}) /\ 1 - 1 = 0
  OBVIOUS
<1>2. SubSeq(<<x>>, 1, 0) \in Seq({x}) /\ Len(SubSeq(<<x>>, 1, 0)) = 0
  BY <1>1
<1>3. SubSeq(<<x>>, 1, 0) = <<>>
  BY <1>2, EmptySeq
<1> QED
  BY <1>1, <1>3 DEF Last, Front

\* With two blocks the last takes the new one; the first is closed.
LEMMA EndsOfTwo ==
  ASSUME NEW x, NEW y
  PROVE  Last(<<x, y>>) = y /\ Front(<<x, y>>) = <<x>>
<1>1. Len(<<x, y>>) = 2 /\ <<x, y>> \in Seq({x, y}) /\ 2 - 1 = 1
  OBVIOUS
<1>2. /\ SubSeq(<<x, y>>, 1, 1) \in Seq({x, y}) /\ Len(SubSeq(<<x, y>>, 1, 1)) = 1
      /\ SubSeq(<<x, y>>, 1, 1)[1] = x
  BY <1>1
<1>3. \A s \in Seq({x, y}) : Len(s) = 1 /\ s[1] = x => s = <<x>>
  OBVIOUS
<1>4. SubSeq(<<x, y>>, 1, 1) = <<x>>
  BY <1>2, <1>3
<1> QED
  BY <1>1, <1>4 DEF Last, Front

\* add_child closes the deepest block if it cannot contain the new one; the new
\* one becomes the deepest.
LEMMA AddChildShapes ==
  ASSUME NEW t, NEW c, NEW q, NEW l, ShapeCore(t, c, q, l), NEW r, IsBlock(r), r.open,
         r.type = "item" => t.block[c].type = "list",
         NEW u, u = AddChild(t, c, r), NEW a, a = Added(t, c, r)
  PROVE  Shape(u, a, q, l) /\ u.block[a] = r
<1> DEFINE k == t.kids
           path == Acceptor(t, c, r.type)
           v == FoldLeft(Finalized, t, Front(path))
<1>1. u = Grown(v, Last(path), a, r) /\ a = FreeAddress(v)
  BY DEF AddChild, Added, Grown
<1>2. WellTree(t) /\ c \in DOMAIN k
  BY DEF ShapeCore
<1>3. IF CanContain(t.block[c].type, r.type) THEN path = <<c>>
      ELSE /\ c # Root /\ CanContain(t.block[Par(k, c)].type, r.type)
           /\ path = <<c, Par(k, c)>>
  BY <1>2, AcceptorIs
<1>4. ShapeCore(v, Last(path), q, l) /\ CanContain(v.block[Last(path)].type, r.type)
  <2>1. CASE CanContain(t.block[c].type, r.type)
    <3>1. Last(path) = c /\ Front(path) = <<>>
      BY <1>3, <2>1, EndsOfOne
    <3>2. v = t
      BY <3>1, FoldNone
    <3> HIDE DEF v, path
    <3> QED
      BY <2>1, <3>1, <3>2
  <2>2. CASE ~CanContain(t.block[c].type, r.type)
    <3> DEFINE p == Par(k, c)
    <3>1. c # Root /\ CanContain(t.block[p].type, r.type) /\ path = <<c, p>>
      BY <1>3, <2>2
    <3> HIDE DEF path
    <3>2. Last(path) = p /\ Front(path) = <<c>>
      BY <3>1, EndsOfTwo
    <3>3. v = Finalized(t, c)
      BY <3>2, FoldOne
    <3> HIDE DEF v
    <3>4. ShapeCore(v, p, q, l)
      BY <3>1, <3>3, TipShut
    <3>5. Shut(t, v, c) /\ p \in DOMAIN v.kids
      BY <1>2, <3>3, <3>4, FinalizedShuts DEF ShapeCore
    <3>6. v.block[p].type = t.block[p].type
      <4>1. t.block[p].type # "paragraph"
        BY <3>1 DEF CanContain
      <4> QED
        BY <3>5, <4>1 DEF Shut
    <3> QED
      BY <3>1, <3>2, <3>4, <3>6
  <2> QED
    BY <2>1, <2>2
<1> HIDE DEF v, path
<1> QED
  BY <1>1, <1>4, Appended
-----------------------------------------------------------------------------
(***************************************************************************)
(* The invariant.                                                          *)
(***************************************************************************)

\* Between two lines and after the last, and while the prefixes of a line are
\* matched, the open blocks are a path; while the line opens blocks, they are
\* the path to the container and those that the line did not continue.
Sound(t, ph, c, q, l) ==
  /\ ph \in {"idle", "match", "open", "text", "lazy", "close", "finish", "done"}
  /\ WellTree(t)
  /\ ph \in {"idle", "match", "lazy", "finish"} => Rest(t, q)
  /\ ph = "match" => c \in Path(t.kids, q)
  /\ ph \in {"open", "text", "close"} => Shape(t, c, q, l)

IInv == Sound(Tree, phase, container, current, last_matched)

\* The blocks that are made.
LEMMA MadeIsBlock ==
  ASSUME NEW ty \in BlockTypes, NEW n
  PROVE  IsBlock(Made(ty, n)) /\ Made(ty, n).open /\ Made(ty, n).type = ty
  BY DEF Made, IsBlock, Fields

\* A record that is a tree is what the variables become.
LEMMA TreeIs ==
  ASSUME NEW t, IsTree(t), Becomes(t)
  PROVE  Tree' = t
  BY DEF Becomes, Tree, IsTree

\* In the beginning there is the open document.
LEMMA InitSound == Init => IInv
<1> SUFFICES ASSUME Init PROVE IInv
  OBVIOUS
<1> DEFINE t == Tree
           k == [n \in {Root} |-> <<>>]
           r == Made("document", 1)
<1>1. t = [block |-> [n \in {Root} |-> r], kids |-> k, refs |-> {}]
  BY DEF Init, Tree
<1>2. /\ t.kids = k /\ t.block = [n \in {Root} |-> r]
      /\ t = [block |-> t.block, kids |-> t.kids, refs |-> t.refs]
  BY <1>1
<1>3. IsBlock(r) /\ r.open /\ r.type = "document"
  BY MadeIsBlock DEF BlockTypes
<1> HIDE DEF t, r
<1>4. DOMAIN k = {Root} /\ k[Root] = <<>>
  OBVIOUS
<1> HIDE DEF k
<1>5. \A n : ~Contains(k[Root], n)
  BY <1>4 DEF Contains
<1>6. Rooted(k)
  <2>1. IsFiniteSet({Root}) /\ {Root} \subseteq Nat \ {0}
    <3>1. \A x : IsFiniteSet({x})
      BY FS_Singleton
    <3>2. {Root} \subseteq Nat \ {0}
      BY DEF Root
    <3> QED
      BY <3>1, <3>2, Zenon
  <2>2. k[Root] \in Seq(DOMAIN k \ {Root})
    BY <1>4
  <2> QED
    BY <1>4, <1>5, <2>1, <2>2 DEF Rooted
<1>7. IsTree(t)
  BY <1>2, <1>3, <1>4 DEF IsTree
<1>8. t.block[Root] = r /\ \A p \in DOMAIN k : ~\E n : Contains(k[p], n)
  BY <1>2, <1>4, <1>5
<1>9. WellTree(t)
  BY <1>2, <1>3, <1>6, <1>7, <1>8 DEF WellTree
<1>10. Path(k, Root) = {Root}
  BY <1>6, PathRoot
<1>11. OpenIn(t) = {Root}
  BY <1>2, <1>3, <1>4, <1>8 DEF OpenIn
<1>12. Rest(t, Root)
  BY <1>2, <1>4, <1>9, <1>10, <1>11 DEF Rest, Hangs
<1> QED
  BY <1>9, <1>12 DEF IInv, Sound, Init, t

\* The document is at the top of every path.
LEMMA ReadLineSound ==
  ASSUME IInv, NEW l \in Lines, ReadLine(l)
  PROVE  IInv'
<1>1. Rest(Tree, current) /\ Tree' = Tree
  BY DEF IInv, Sound, ReadLine, Tree
<1>2. Tree.kids = kids /\ WellTree(Tree)
  BY <1>1 DEF Tree, Rest
<1>3. Root \in Path(Tree.kids, current)
  BY <1>1, <1>2, RootOnPath DEF Rest, WellTree
<1> QED
  BY <1>1, <1>2, <1>3 DEF IInv, Sound, ReadLine

\* An open block below the container is the next one of the path.
LEMMA DescendSound ==
  ASSUME IInv, Descend
  PROVE  IInv'
<1> DEFINE n == Last(kids[container])
           x == IF block[n].type = "html_block" THEN HtmlIndent(block[n]) ELSE block[n].indent
<1>1. PICK t : t = Tree
  OBVIOUS
<1>2. /\ WellTree(t) /\ Rest(t, current) /\ container \in Path(t.kids, current)
      /\ kids[container] # <<>> /\ block[n].open /\ kids = t.kids /\ block = t.block
  BY <1>1 DEF IInv, Sound, Descend, HasOpenChild, Below, Tree
<1>3. IsTree(t) /\ Rooted(t.kids) /\ n \in DOMAIN t.kids
  BY <1>2, PathWithin, LastOnList DEF WellTree, Rest
<1>4. n \in Path(t.kids, current)
  BY <1>2, <1>3 DEF Rest, OpenIn
<1>5. PICK u : u = Tree'
  OBVIOUS
<1>6. u = [block |-> [t.block EXCEPT ![n] = [@ EXCEPT !["indent"] = x]],
           kids |-> t.kids, refs |-> u.refs]
  BY <1>1, <1>5 DEF Descend, Tree, Below
<1>7. "indent" \in Fields \ {"type", "open"}
  BY DEF Fields
<1> HIDE DEF x
<1>8. Alike(t, u) /\ OpenIn(u) = OpenIn(t)
  BY <1>3, <1>6, <1>7, TreeAssigned
<1>9. Rest(u, current) /\ u.kids = t.kids
  BY <1>2, <1>8, AlikeRests DEF Alike
<1>10. phase' = "match" /\ container' = n /\ current' = current
  BY DEF Descend, Below
<1> QED
  BY <1>4, <1>5, <1>9, <1>10 DEF IInv, Sound, Rest

\* The deepest block is finalized.
LEMMA TipRests ==
  ASSUME NEW t, NEW q, Rest(t, q), q # Root, NEW v, v = Finalized(t, q), NEW p, p = Par(t.kids, q)
  PROVE  Rest(v, p)
<1>1. q \in Path(t.kids, q)
  BY PathRises DEF Rest, WellTree
<1>2. ShapeCore(t, q, q, q)
  BY <1>1, RestShapes DEF Shape
<1>3. ShapeCore(v, p, q, q)
  BY <1>2, TipShut
<1> QED
  BY <1>3, ShapeRests

\* The fenced code is the current block, since it has no children.
LEMMA CloseFenceSound ==
  ASSUME IInv, CloseFence
  PROVE  IInv'
<1> DEFINE n == Last(kids[container])
<1>1. PICK t : t = Tree
  OBVIOUS
<1>2. /\ WellTree(t) /\ Rest(t, current) /\ container \in Path(t.kids, current)
      /\ kids[container] # <<>> /\ block[n].open /\ kids = t.kids /\ block = t.block
      /\ t.block[n].type = "code_block"
  BY <1>1 DEF IInv, Sound, CloseFence, HasOpenChild, ClosesFence, Below, Tree
<1>3. /\ Rooted(t.kids) /\ n \in DOMAIN t.kids \ {Root} /\ current \in DOMAIN t.kids
      /\ Par(t.kids, n) = container
  BY <1>2, PathWithin, LastOnList DEF WellTree, Rest
<1>4. n \in Path(t.kids, current)
  BY <1>2, <1>3 DEF Rest, OpenIn
<1>5. t.kids[n] = <<>>
  BY <1>2, <1>3, LeavesEmpty
<1>6. n = current
  BY <1>3, <1>4, <1>5, LeafOnPath
<1>7. PICK v : v = Finalized(t, n)
  OBVIOUS
<1>8. Rest(v, container)
  BY <1>2, <1>3, <1>6, <1>7, TipRests
<1>9. Tree' = v
  <2>1. Becomes(v)
    BY <1>1, <1>7 DEF CloseFence, Below
  <2> QED
    BY <1>8, <2>1, TreeIs DEF Rest, WellTree
<1>10. phase' = "idle" /\ current' = container
  BY DEF CloseFence
<1> QED
  BY <1>8, <1>9, <1>10 DEF IInv, Sound, Rest

\* The container is where the line left the path.
LEMMA MatchedSound ==
  ASSUME IInv, Matched
  PROVE  IInv'
<1>1. /\ Rest(Tree, current) /\ container \in Path(Tree.kids, current) /\ Tree' = Tree
      /\ phase' = "open" /\ container' = container /\ current' = current
      /\ last_matched' = container
  BY DEF IInv, Sound, Matched, Tree
<1>2. Shape(Tree, container, current, container)
  BY <1>1, RestShapes
<1> QED
  BY <1>1, <1>2 DEF IInv, Sound, Rest

\* The new block is the deepest.
LEMMA OpenSound ==
  ASSUME NEW t, NEW n, NEW r, NEW x, Open(t, n, r, x), IsBlock(r), r.open,
         r.type = "item" => t.block[n].type = "list",
         ShapeCore(t, n, current, last_matched)
  PROVE  IInv'
<1>1. PICK u, a : u = AddChild(t, n, r) /\ a = Added(t, n, r)
  OBVIOUS
<1>2. Shape(u, a, current, last_matched)
  BY <1>1, AddChildShapes
<1>3. /\ Becomes(u) /\ container' = a /\ phase' \in {"open", "text"}
      /\ current' = current /\ last_matched' = last_matched
  BY <1>1 DEF Open
<1>4. WellTree(u)
  BY <1>2 DEF Shape, ShapeCore
<1>5. Tree' = u
  BY <1>3, <1>4, TreeIs DEF WellTree
<1> QED
  BY <1>2, <1>3, <1>4, <1>5 DEF IInv, Sound

\* What the turns of the loop of open_new_blocks start from.
LEMMA OpensFrom ==
  ASSUME IInv, phase = "open"
  PROVE  /\ WellTree(Tree) /\ Shape(Tree, container, current, last_matched)
         /\ ShapeCore(Tree, container, current, last_matched)
         /\ Tree.block = block /\ Tree.kids = kids /\ container \in DOMAIN kids
  BY DEF IInv, Sound, Shape, ShapeCore, Tree

\* A block other than a list item is opened.
LEMMA OpenOneSound ==
  ASSUME IInv, phase = "open",
         \/ OpenQuote \/ OpenHeading \/ OpenFence \/ OpenHtml \/ OpenRule
         \/ OpenFootnote \/ OpenCode
  PROVE  IInv'
<1> DEFINE opens(r) == \E l : Open(Tree, container, r, l)
<1>1. ASSUME NEW r, opens(r), IsBlock(r), r.open, r.type # "item"
      PROVE  IInv'
  <2>1. PICK l : Open(Tree, container, r, l)
    BY <1>1
  <2>2. ShapeCore(Tree, container, current, last_matched)
    BY OpensFrom
  <2> QED
    BY <1>1, <2>1, <2>2, OpenSound
<1>2. ASSUME NEW ty \in BlockTypes \ {"item"}, opens(Made(ty, line_number))
      PROVE  IInv'
  <2> HIDE DEF opens
  <2> QED
    BY <1>1, <1>2, MadeIsBlock
<1>3. CASE OpenQuote
  BY <1>2, <1>3 DEF OpenQuote, BlockTypes
<1>4. CASE OpenHeading
  BY <1>2, <1>4 DEF OpenHeading, BlockTypes, AcceptsLines
<1>5. CASE OpenRule
  BY <1>2, <1>5 DEF OpenRule, BlockTypes
<1>6. CASE OpenFootnote
  BY <1>2, <1>6 DEF OpenFootnote, BlockTypes
<1>7. CASE OpenCode
  BY <1>2, <1>7 DEF OpenCode, BlockTypes, AcceptsLines
<1>8. CASE OpenFence
  <2> DEFINE m == Made("code_block", line_number)
             r == [m EXCEPT !.fenced = TRUE, !.indent = indent]
  <2>1. IsBlock(m) /\ m.open /\ m.type = "code_block"
    BY MadeIsBlock DEF BlockTypes, AcceptsLines
  <2>2. opens(r)
    BY <1>8 DEF OpenFence
  <2> HIDE DEF m, opens
  <2>3. IsBlock(r) /\ r.open /\ r.type # "item"
    BY <2>1 DEF IsBlock, Fields
  <2> QED
    BY <1>1, <2>2, <2>3
<1>9. CASE OpenHtml
  <2> DEFINE m == Made("html_block", line_number)
             r == [m EXCEPT !.html = IF IsKind("comment") THEN 2 ELSE 6]
  <2>1. IsBlock(m) /\ m.open /\ m.type = "html_block"
    BY MadeIsBlock DEF BlockTypes
  <2>2. opens(r)
    BY <1>9 DEF OpenHtml
  <2> HIDE DEF m, opens
  <2>3. IsBlock(r) /\ r.open /\ r.type # "item"
    BY <2>1 DEF IsBlock, Fields
  <2> QED
    BY <1>1, <2>2, <2>3
<1> QED
  BY <1>3, <1>4, <1>5, <1>6, <1>7, <1>8, <1>9

\* An item goes into the list, or into a list made for it.
LEMMA OpenItemSound ==
  ASSUME IInv, OpenItem
  PROVE  IInv'
<1> DEFINE after == Skip(FromNonspace(rest), 1)
           wide == Indentation(after) = 1 /\ ~IsBlank(after)
           bullet == FromNonspace(rest).prefix[1]
           m == Made("item", line_number)
           r == [m EXCEPT !.bullet = bullet, !.marker_offset = indent,
                          !.padding = IF wide THEN 2 ELSE 1]
           list == [r EXCEPT !.type = "list"]
           l == IF wide THEN Skip(after, 1) ELSE after
<1>1. /\ phase = "open"
      /\ IF type = "list" /\ block[container].bullet = bullet
         THEN Open(Tree, container, r, l)
         ELSE Open(AddChild(Tree, container, list), Added(Tree, container, list), r, l)
  BY DEF OpenItem, MayOpen
<1>2. IsBlock(m) /\ m.open /\ m.type = "item"
  BY MadeIsBlock DEF BlockTypes
<1> HIDE DEF m, l, wide, bullet
<1>3. IsBlock(r) /\ r.open /\ r.type = "item"
  BY <1>2 DEF IsBlock, Fields
<1> HIDE DEF r
<1>4. IsBlock(list) /\ list.open /\ list.type = "list"
  BY <1>3 DEF IsBlock, Fields, BlockTypes
<1> HIDE DEF list
<1>5. ShapeCore(Tree, container, current, last_matched) /\ Tree.block = block
  BY <1>1, OpensFrom
<1>6. CASE type = "list" /\ block[container].bullet = bullet
  <2>1. Open(Tree, container, r, l) /\ Tree.block[container].type = "list"
    BY <1>1, <1>5, <1>6 DEF type
  <2> QED
    BY <1>3, <1>5, <2>1, OpenSound
<1>7. CASE ~(type = "list" /\ block[container].bullet = bullet)
  <2>1. PICK u, a : u = AddChild(Tree, container, list) /\ a = Added(Tree, container, list)
    OBVIOUS
  <2>2. Shape(u, a, current, last_matched) /\ u.block[a] = list
    <3>1. list.type = "item" => Tree.block[container].type = "list"
      BY <1>4
    <3> QED
      BY <1>4, <1>5, <2>1, <3>1, AddChildShapes
  <2>3. Open(u, a, r, l)
    BY <1>1, <1>7, <2>1
  <2>4. ShapeCore(u, a, current, last_matched) /\ u.block[a].type = "list"
    BY <1>4, <2>2 DEF Shape
  <2> QED
    BY <1>3, <2>3, <2>4, OpenSound
<1> QED
  BY <1>6, <1>7

\* The paragraph stays where it is.
LEMMA SetextHeadingSound ==
  ASSUME IInv, SetextHeading
  PROVE  IInv'
<1> DEFINE left == Resolved(Tree, container).block[container].content # <<>>
<1>1. PICK t, n : t = Resolved(Tree, container) /\ n = container
  OBVIOUS
<1>2. /\ phase = "open" /\ block[container].type = "paragraph"
      /\ Becomes(IF left THEN [t EXCEPT !.block[n] = [@ EXCEPT !.type = "heading", !.setext = TRUE]]
                 ELSE t)
      /\ phase' = "text" /\ container' = container /\ current' = current
      /\ last_matched' = last_matched
  <2>1. phase = "open" /\ Start = "setext"
    BY DEF SetextHeading, MayOpen
  <2>2. block[container].type = "paragraph"
    BY <2>1 DEF Start, type
  <2> QED
    BY <1>1, <2>1, <2>2 DEF SetextHeading
<1> HIDE DEF left
<1>3. PICK s : s = Tree
  OBVIOUS
<1>4. /\ WellTree(s) /\ Shape(s, n, current, last_matched) /\ n \in DOMAIN s.kids
      /\ s.block[n].type = "paragraph"
  BY <1>1, <1>2, <1>3, OpensFrom
<1>5. Alike(s, t) /\ OpenIn(t) = OpenIn(s)
  BY <1>1, <1>3, <1>4, ResolvedAlike DEF WellTree
<1>6. IsTree(t) /\ n \in DOMAIN t.kids
  BY <1>4, <1>5 DEF Alike
<1> DEFINE g == [t.block[n] EXCEPT !.type = "heading", !.setext = TRUE]
           b == [t.block EXCEPT ![n] = g]
           u == [block |-> b, kids |-> t.kids, refs |-> t.refs]
<1>7. [t EXCEPT !.block[n] = [@ EXCEPT !.type = "heading", !.setext = TRUE]] = u
  BY <1>6 DEF IsTree
<1>8. IsBlock(g) /\ g.type = "heading" /\ g.open = t.block[n].open
  <2>1. IsBlock(t.block[n])
    BY <1>6 DEF IsTree
  <2> QED
    BY <2>1 DEF IsBlock, Fields, BlockTypes, AcceptsLines
<1> HIDE DEF g
<1>9. /\ b = [m \in DOMAIN t.kids |-> b[m]]
      /\ \A m \in DOMAIN t.kids : b[m] = IF m = n THEN g ELSE t.block[m]
  BY <1>6 DEF IsTree
<1> HIDE DEF b
<1>10. IsTree(u) /\ u.kids = t.kids /\ u.block = b
  <2>1. \A m \in DOMAIN t.kids : IsBlock(b[m])
    BY <1>6, <1>8, <1>9 DEF IsTree
  <2> QED
    BY <1>9, <2>1 DEF IsTree
<1>11. Alike(s, u) /\ OpenIn(u) = OpenIn(s)
  <2>1. \A m \in DOMAIN s.kids : \/ u.block[m].type = s.block[m].type
                                 \/ s.block[m].type = "paragraph" /\ u.block[m].type = "heading"
    BY <1>4, <1>5, <1>8, <1>9, <1>10 DEF Alike
  <2>2. Alike(s, u)
    BY <1>5, <1>10, <2>1 DEF Alike
  <2>3. OpenIn(u) = OpenIn(t)
    BY <1>8, <1>9, <1>10 DEF OpenIn
  <2> QED
    BY <1>5, <2>2, <2>3
<1> HIDE DEF u
<1>12. PICK v : v = IF left THEN u ELSE t
  OBVIOUS
<1>13. Becomes(v) /\ Alike(s, v) /\ OpenIn(v) = OpenIn(s)
  BY <1>2, <1>5, <1>7, <1>11, <1>12
<1>14. Shape(v, n, current, last_matched)
  BY <1>4, <1>13, AlikeShapes
<1>15. Tree' = v
  BY <1>13, TreeIs DEF Alike
<1> QED
  BY <1>1, <1>2, <1>14, <1>15 DEF IInv, Sound, Shape, ShapeCore

\* A turn that opens nothing ends the loop.
LEMMA OpenNothingSound ==
  ASSUME IInv, OpenNothing
  PROVE  IInv'
<1>1. Tree' = Tree
  BY DEF OpenNothing, Tree
<1> QED
  BY <1>1 DEF IInv, Sound, OpenNothing, reading

\* A lazy line leaves the path of the line before open.
LEMMA LazyRests ==
  ASSUME NEW t, NEW c, NEW q, NEW l, Shape(t, c, q, l), q # l, c = l
  PROVE  Rest(t, q)
<1>1. /\ WellTree(t) /\ q \in DOMAIN t.kids /\ l \in Path(t.kids, q)
      /\ OpenIn(t) = Path(t.kids, l) \cup Between(t.kids, q, l)
      /\ Hangs(t.kids, Path(t.kids, q))
  BY DEF Shape, ShapeCore
<1>2. Path(t.kids, l) \subseteq Path(t.kids, q)
  BY <1>1, PathWithin DEF WellTree
<1>3. OpenIn(t) = Path(t.kids, q)
  BY <1>1, <1>2 DEF Between
<1> QED
  BY <1>1, <1>3 DEF Rest

\* Only blank line flags change.
LEMMA MarkBlankSound ==
  ASSUME IInv, MarkBlank
  PROVE  IInv'
<1> DEFINE f(n) ==
       IF n = container THEN [block[n] EXCEPT !.last_line_blank = LastLineBlank(n)]
       ELSE IF n \in Ancestors(container) THEN [block[n] EXCEPT !.last_line_blank = FALSE]
       ELSE IF blank /\ kids[container] # <<>> /\ n = Last(kids[container])
       THEN [block[n] EXCEPT !.last_line_blank = TRUE]
       ELSE block[n]
<1>1. PICK t, u : t = Tree /\ u = Tree'
  OBVIOUS
<1>2. /\ phase = "text" /\ phase' = (IF IsLazy THEN "lazy" ELSE "close")
      /\ block' = [n \in DOMAIN block |-> f(n)]
      /\ kids' = kids /\ container' = container /\ current' = current
      /\ last_matched' = last_matched
  BY DEF MarkBlank, reading
<1>3. WellTree(t) /\ Shape(t, container, current, last_matched) /\ t.block = block /\ t.kids = kids
  BY <1>1, <1>2 DEF IInv, Sound, Tree
<1>4. IsTree(t) /\ DOMAIN block = DOMAIN t.kids
  BY <1>3 DEF WellTree, IsTree
<1>5. \A n \in DOMAIN t.kids :
        \/ f(n) = block[n]
        \/ \E v : f(n) = [block[n] EXCEPT !["last_line_blank"] = v]
  OBVIOUS
<1>6. u = [block |-> [n \in DOMAIN t.kids |-> f(n)], kids |-> t.kids, refs |-> u.refs]
  BY <1>1, <1>2, <1>3, <1>4 DEF Tree
<1> HIDE DEF f
<1>7. \A n \in DOMAIN t.kids :
        IsBlock(f(n)) /\ f(n).type = t.block[n].type /\ f(n).open = t.block[n].open
  <2> TAKE n \in DOMAIN t.kids
  <2> DEFINE r == block[n]
             g == f(n)
  <2>1. IsBlock(r) /\ r = t.block[n]
    BY <1>3, <1>4 DEF IsTree
  <2>2. g = r \/ \E v : g = [r EXCEPT !["last_line_blank"] = v]
    BY <1>5
  <2>3. "last_line_blank" \in Fields \ {"type", "open"}
    BY DEF Fields
  <2> HIDE DEF r, g
  <2>4. ASSUME NEW v, g = [r EXCEPT !["last_line_blank"] = v]
        PROVE  IsBlock(g) /\ g.type = r.type /\ g.open = r.open
    BY <2>1, <2>3, <2>4, BlockAssigned
  <2>5. IsBlock(g) /\ g.type = r.type /\ g.open = r.open
    BY <2>1, <2>2, <2>4
  <2> QED
    BY <2>1, <2>5 DEF g
<1> DEFINE b == [n \in DOMAIN t.kids |-> f(n)]
<1>8. /\ b = [n \in DOMAIN t.kids |-> b[n]]
      /\ \A n \in DOMAIN t.kids :
           IsBlock(b[n]) /\ b[n].type = t.block[n].type /\ b[n].open = t.block[n].open
      /\ u = [block |-> b, kids |-> t.kids, refs |-> u.refs]
  BY <1>6, <1>7
<1> HIDE DEF b
<1>9. Alike(t, u)
  BY <1>4, <1>8, BlocksReplaced
<1>10. u.block = b /\ u.kids = t.kids
  BY <1>8
<1>11. OpenIn(u) = OpenIn(t)
  BY <1>8, <1>10 DEF OpenIn
<1>12. Shape(u, container, current, last_matched) /\ WellTree(u)
  <2>1. PICK c, q, l : c = container /\ q = current /\ l = last_matched
    OBVIOUS
  <2>2. Shape(t, c, q, l)
    BY <1>3, <2>1
  <2>3. Shape(u, c, q, l)
    BY <1>9, <1>11, <2>2, AlikeShapes
  <2> QED
    BY <2>1, <2>3 DEF Shape, ShapeCore
<1>13. IsLazy => Rest(u, current)
  BY <1>12, LazyRests DEF IsLazy
<1> QED
  BY <1>1, <1>2, <1>12, <1>13 DEF IInv, Sound

\* A line added to a block.
LEMMA WithLineAlike ==
  ASSUME NEW t, IsTree(t), NEW n \in DOMAIN t.kids, NEW x, NEW u, u = WithLine(t, n, x)
  PROVE  Alike(t, u) /\ OpenIn(u) = OpenIn(t)
<1> DEFINE c == Append(t.block[n].content, Line(x))
<1>1. u = [block |-> [t.block EXCEPT ![n] = [@ EXCEPT !["content"] = c]],
           kids |-> t.kids, refs |-> u.refs]
  BY DEF WithLine, IsTree
<1>2. "content" \in Fields \ {"type", "open"}
  BY DEF Fields
<1> HIDE DEF c
<1> QED
  BY <1>1, <1>2, TreeAssigned

\* Between two lines.
LEMMA WithLineRests ==
  ASSUME NEW t, NEW n, Rest(t, n), NEW x, NEW u, u = WithLine(t, n, x)
  PROVE  Rest(u, n) /\ Alike(t, u)
<1>1. IsTree(t) /\ n \in DOMAIN t.kids
  BY DEF Rest, WellTree
<1>2. Alike(t, u) /\ OpenIn(u) = OpenIn(t)
  BY <1>1, WithLineAlike
<1> QED
  BY <1>2, AlikeRests

\* A line is done with, and leaves a path of open blocks.
LEMMA Idles ==
  ASSUME NEW u, NEW n, Rest(u, n), Becomes(u), current' = n, phase' \in {"idle", "finish"}
  PROVE  IInv'
<1>1. WellTree(u) /\ IsTree(u)
  BY DEF Rest, WellTree
<1>2. Tree' = u
  BY <1>1, TreeIs
<1> QED
  BY <1>1, <1>2 DEF IInv, Sound

\* The lazy line goes into the block that the line before left off in.
LEMMA LazyContinuationSound ==
  ASSUME IInv, LazyContinuation
  PROVE  IInv'
<1>1. PICK t, u, n : t = Tree /\ n = current /\ u = WithLine(t, n, rest)
  OBVIOUS
<1>2. Rest(t, n) /\ Becomes(u) /\ current' = n /\ phase' = "idle"
  BY <1>1 DEF IInv, Sound, LazyContinuation
<1>3. Rest(u, n)
  BY <1>1, <1>2, WithLineRests
<1> QED
  BY <1>2, <1>3, Idles

\* One block less that the line did not continue.
LEMMA CloseUnmatchedSound ==
  ASSUME IInv, CloseUnmatched
  PROVE  IInv'
<1>1. PICK t, v, c, q, l, p :
        /\ t = Tree /\ c = container /\ q = current /\ l = last_matched
        /\ v = Finalized(t, q) /\ p = Par(t.kids, q)
  OBVIOUS
<1>2. Shape(t, c, q, l) /\ q # l
  BY <1>1 DEF IInv, Sound, CloseUnmatched
<1>3. q # Root /\ Shape(v, c, p, l)
  BY <1>1, <1>2, UnmatchedShut
<1>4. /\ Becomes(v) /\ current' = ParentOf(t, q) /\ phase' = "close"
      /\ container' = c /\ last_matched' = l
  BY <1>1 DEF CloseUnmatched, reading
<1>5. current' = p
  BY <1>1, <1>3, <1>4, ParentIs
<1>6. WellTree(v)
  BY <1>3 DEF Shape, ShapeCore
<1>7. Tree' = v
  BY <1>4, <1>6, TreeIs DEF WellTree
<1> QED
  BY <1>3, <1>4, <1>5, <1>6, <1>7 DEF IInv, Sound

\* The text goes into the container, or into a paragraph in it.
LEMMA AddTextSound ==
  ASSUME IInv, AddText
  PROVE  IInv'
<1> DEFINE line == WithLine(Tree, container, rest)
           text == WithLine(Tree, container, FromNonspace(rest))
           para == [Made("paragraph", line_number) EXCEPT !.content = <<Line(FromNonspace(rest))>>]
           done(u, m) == Becomes(u) /\ current' = m
<1>1. PICK t, n : t = Tree /\ n = container
  OBVIOUS
<1>2. /\ phase = "close" /\ current = last_matched /\ phase' = "idle"
      /\ CASE type = "code_block" -> done(line, n)
           [] type = "html_block" ->
                IF block[n].html = 2 /\ rest.kind = "comment end"
                THEN done(Finalized(line, n), ParentOf(Tree, n))
                ELSE done(line, n)
           [] type \notin {"code_block", "html_block"} /\ blank -> done(Tree, n)
           [] type \in {"paragraph", "heading"} /\ ~blank -> done(text, n)
           [] OTHER -> done(AddChild(Tree, n, para), Added(Tree, n, para))
  BY <1>1 DEF AddText
<1>3. \/ done(line, n)
      \/ type = "html_block" /\ done(Finalized(line, n), ParentOf(Tree, n))
      \/ done(Tree, n)
      \/ done(text, n)
      \/ done(AddChild(Tree, n, para), Added(Tree, n, para))
  <2> HIDE DEF done, line, text, para
  <2> QED
    BY <1>2, Zenon
<1>4. Shape(t, n, last_matched, last_matched) /\ t.block = block /\ t.kids = kids
  BY <1>1, <1>2 DEF IInv, Sound, Tree
<1>5. Rest(t, n)
  BY <1>4, ShapeRests DEF Shape
<1>6. CASE done(line, n)
  <2>1. PICK u : u = line
    OBVIOUS
  <2>2. Rest(u, n)
    BY <1>1, <1>5, <2>1, WithLineRests
  <2> QED
    BY <1>2, <1>6, <2>1, <2>2, Idles
<1>7. CASE type = "html_block" /\ done(Finalized(line, n), ParentOf(Tree, n))
  <2>1. PICK u, v, p : u = line /\ v = Finalized(u, n) /\ p = Par(t.kids, n)
    OBVIOUS
  <2>2. Rest(u, n) /\ Alike(t, u)
    BY <1>1, <1>5, <2>1, WithLineRests
  <2>3. n # Root
    BY <1>1, <1>4, <1>5, <1>7 DEF type, Rest, WellTree
  <2>4. u.kids = t.kids
    BY <2>2 DEF Alike
  <2>5. Rest(v, p)
    BY <2>1, <2>2, <2>3, <2>4, TipRests
  <2>6. Becomes(v) /\ current' = p
    BY <1>1, <1>7, <2>1, <2>3, ParentIs
  <2> QED
    BY <1>2, <2>5, <2>6, Idles
<1>8. CASE done(Tree, n)
  <2>1. Becomes(t) /\ current' = n
    BY <1>1, <1>8
  <2> QED
    BY <1>2, <1>5, <2>1, Idles
<1>9. CASE done(text, n)
  <2>1. PICK u : u = text
    OBVIOUS
  <2>2. Rest(u, n)
    BY <1>1, <1>5, <2>1, WithLineRests
  <2> QED
    BY <1>2, <1>9, <2>1, <2>2, Idles
<1>10. CASE done(AddChild(Tree, n, para), Added(Tree, n, para))
  <2>1. PICK u, a : u = AddChild(t, n, para) /\ a = Added(t, n, para)
    OBVIOUS
  <2>2. IsBlock(para) /\ para.open /\ para.type # "item"
    <3> DEFINE m == Made("paragraph", line_number)
    <3>1. IsBlock(m) /\ m.open /\ m.type = "paragraph"
      BY MadeIsBlock DEF BlockTypes, AcceptsLines
    <3>2. PICK x : para = [m EXCEPT !.content = x]
      OBVIOUS
    <3> HIDE DEF m, para
    <3> QED
      BY <3>1, <3>2 DEF IsBlock, Fields
  <2>3. Becomes(u) /\ current' = a
    BY <1>1, <1>10, <2>1
  <2> HIDE DEF para
  <2>4. PICK l : l = last_matched
    OBVIOUS
  <2>5. ShapeCore(t, n, l, l)
    BY <1>4, <2>4 DEF Shape
  <2>6. Shape(u, a, l, l)
    BY <2>1, <2>2, <2>5, AddChildShapes
  <2>7. Rest(u, a)
    BY <2>6, ShapeRests DEF Shape
  <2> QED
    BY <1>2, <2>3, <2>7, Idles
<1> QED
  BY <1>3, <1>6, <1>7, <1>8, <1>9, <1>10

\* The end of the text.
LEMMA FinishSound ==
  ASSUME IInv, Finish
  PROVE  IInv'
<1>1. Tree' = Tree
  BY DEF Finish, Tree
<1> QED
  BY <1>1 DEF IInv, Sound, Finish

\* The path is closed from below, up to the document.
LEMMA FinalizeDocumentSound ==
  ASSUME IInv, FinalizeDocument
  PROVE  IInv'
<1>1. PICK t, v, q, p : t = Tree /\ q = current /\ v = Finalized(t, q) /\ p = Par(t.kids, q)
  OBVIOUS
<1>2. /\ Rest(t, q) /\ Becomes(v)
      /\ current' = (IF q = Root THEN Root ELSE ParentOf(t, q))
      /\ phase' = (IF q = Root THEN "done" ELSE "finish")
  BY <1>1 DEF IInv, Sound, FinalizeDocument
<1>3. CASE q # Root
  <2>1. Rest(v, p)
    BY <1>1, <1>2, <1>3, TipRests
  <2>2. current' = p /\ phase' = "finish"
    BY <1>1, <1>2, <1>3, ParentIs
  <2> QED
    BY <1>2, <2>1, <2>2, Idles
<1>4. CASE q = Root
  <2>1. Shut(t, v, q)
    BY <1>1, <1>2, FinalizedShuts DEF Rest
  <2>2. WellTree(v) /\ IsTree(v)
    BY <2>1 DEF Shut, WellTree
  <2>3. Tree' = v
    BY <1>2, <2>2, TreeIs
  <2> QED
    BY <1>2, <1>4, <2>2, <2>3 DEF IInv, Sound
<1> QED
  BY <1>3, <1>4

\* Every step keeps the invariant.
LEMMA NextSound == IInv /\ [Next]_vars => IInv'
<1> SUFFICES ASSUME IInv, [Next]_vars PROVE IInv'
  OBVIOUS
<1>1. CASE Next
  <2>1. ASSUME NEW l \in Lines, ReadLine(l) PROVE IInv'
    BY <2>1, ReadLineSound
  <2>2. ASSUME \/ OpenQuote \/ OpenHeading \/ OpenFence \/ OpenHtml \/ OpenRule
               \/ OpenFootnote \/ OpenCode
        PROVE  IInv'
    <3>1. phase = "open"
      BY <2>2 DEF OpenQuote, OpenHeading, OpenFence, OpenHtml, OpenRule, OpenFootnote,
                  OpenCode, MayOpen
    <3> QED
      BY <2>2, <3>1, OpenOneSound
  <2> QED
    BY <1>1, <2>1, <2>2, DescendSound, CloseFenceSound, MatchedSound, OpenItemSound,
       SetextHeadingSound, OpenNothingSound, MarkBlankSound, LazyContinuationSound,
       CloseUnmatchedSound, AddTextSound, FinishSound, FinalizeDocumentSound, Zenon
       DEF Next
<1>2. CASE UNCHANGED vars
  <2>1. /\ Tree' = Tree /\ phase' = phase /\ container' = container
        /\ current' = current /\ last_matched' = last_matched
    BY <1>2 DEF vars, reading, Tree
  <2> QED
    BY <2>1 DEF IInv
<1> QED
  BY <1>1, <1>2

-----------------------------------------------------------------------------
(***************************************************************************)
(* Theorems.                                                               *)
(***************************************************************************)

\* What check_open_blocks, open_new_blocks and add_text_to_container rely on:
\* at every point of S_process_line and of finalize_document, for every
\* document, the open blocks are the path to where the parser is, and the blocks
\* that the line did not continue.
THEOREM OpenBlocksKnown == Spec => []IInv
<1> QED
  BY InitSound, NextSound, PTL DEF Spec

\* The ancestors of a block are its path.
LEMMA AncestorsPath ==
  ASSUME WellTree(Tree), NEW n \in DOMAIN kids
  PROVE  {n} \cup Ancestors(n) = Path(kids, n)
<1> DEFINE G(f) == [m \in DOMAIN block |->
                     IF m = Root THEN {} ELSE {ParentOf(Tree, m)} \cup f[ParentOf(Tree, m)]]
           g == CHOOSE f : f = G(f)
<1>1. Ancestors(n) = g[n]
  BY DEF Ancestors
<1>2. PICK k, D : k = kids /\ D = DOMAIN kids
  OBVIOUS
<1>3. Rooted(k) /\ Root \in D /\ D = DOMAIN k /\ D = DOMAIN block /\ Tree.kids = k
  <2>1. Tree.kids = k /\ Tree.block = block
    BY <1>2 DEF Tree
  <2>2. Rooted(k) /\ DOMAIN block = DOMAIN k
    BY <2>1 DEF WellTree, IsTree
  <2> QED
    BY <1>2, <2>1, <2>2 DEF Rooted
<1>4. \A m \in D \ {Root} : /\ ParentOf(Tree, m) = Par(k, m) /\ Par(k, m) \in D
                            /\ Path(k, m) = {m} \cup Path(k, Par(k, m))
                            /\ m \notin Path(k, Par(k, m)) /\ Par(k, m) \in Path(k, Par(k, m))
  BY <1>3, ParentIs, ParOf, PathStep, NoReturn, PathRises
<1>5. \E f : f = G(f)
  <2> DEFINE h == [m \in D |-> Path(k, m) \ {m}]
  <2>1. \A m \in D : h[m] = IF m = Root THEN {}
                            ELSE {ParentOf(Tree, m)} \cup h[ParentOf(Tree, m)]
    <3> TAKE m \in D
    <3>1. CASE m = Root
      BY <1>3, <3>1, PathRoot
    <3>2. CASE m # Root
      BY <1>4, <3>2
    <3> QED
      BY <3>1, <3>2
  <2>2. h = [m \in D |-> h[m]]
    OBVIOUS
  <2> HIDE DEF h
  <2>3. h = G(h)
    BY <1>3, <2>1, <2>2
  <2> QED
    BY <2>3
<1>6. g = G(g)
  BY <1>5
<1> HIDE DEF g
<1>7. \A m \in D : g[m] = IF m = Root THEN {} ELSE {Par(k, m)} \cup g[Par(k, m)]
  <2> TAKE m \in D
  <2>1. g[m] = IF m = Root THEN {} ELSE {ParentOf(Tree, m)} \cup g[ParentOf(Tree, m)]
    BY <1>3, <1>6
  <2> QED
    BY <1>4, <2>1
<1> DEFINE W == {m \in D : {m} \cup g[m] # Path(k, m)}
<1>8. Root \notin W
  BY <1>3, <1>7, PathRoot
<1>9. \A m \in W : Par(k, m) \in W
  BY <1>4, <1>7, <1>8
<1>10. W = {}
  <2>1. W \in SUBSET (DOMAIN k \ {Root})
    BY <1>3, <1>8
  <2> HIDE DEF W
  <2> QED
    BY <1>3, <1>9, <2>1 DEF Rooted
<1> QED
  BY <1>1, <1>2, <1>10

\* OpenPath: between two lines check_open_blocks finds the open blocks, and no
\* others, by following last_child.
THEOREM OpenBlocksAreThePath == Spec => []OpenPath
<1>1. IInv => OpenPath
  <2> SUFFICES ASSUME IInv, phase = "idle"
               PROVE  /\ {n \in DOMAIN block : block[n].open} = {current} \cup Ancestors(current)
                      /\ \A n \in ({current} \cup Ancestors(current)) \ {Root} :
                           n = Last(kids[ParentOf(Tree, n)])
    BY DEF OpenPath
  <2>1. /\ Rest(Tree, current) /\ WellTree(Tree) /\ Tree.kids = kids /\ Tree.block = block
        /\ current \in DOMAIN kids /\ DOMAIN block = DOMAIN kids
    BY DEF IInv, Sound, Rest, Tree, WellTree, IsTree
  <2>2. {current} \cup Ancestors(current) = Path(kids, current)
    BY <2>1, AncestorsPath
  <2>3. {n \in DOMAIN block : block[n].open} = Path(kids, current)
    BY <2>1 DEF Rest, OpenIn
  <2>4. \A n \in Path(kids, current) \ {Root} : n = Last(kids[ParentOf(Tree, n)])
    BY <2>1, ParentIs DEF Rest, Hangs
  <2> QED
    BY <2>2, <2>3, <2>4
<1> QED
  BY <1>1, OpenBlocksKnown, PTL

\* AssertionsHold: finalize and add_line never see a block that is closed or was
\* freed.
THEOREM OnlyOpenBlocksAreWritten == Spec => []AssertionsHold
<1>1. IInv => AssertionsHold
  <2> SUFFICES ASSUME IInv PROVE AssertionsHold
    OBVIOUS
  <2>1. PICK t, c, q, l : t = Tree /\ c = container /\ q = current /\ l = last_matched
    OBVIOUS
  <2>2. WellTree(t) /\ t.block = block /\ t.kids = kids /\ DOMAIN block = DOMAIN t.kids
    BY <2>1 DEF IInv, Sound, Tree, WellTree, IsTree
  <2>3. ASSUME phase \in {"open", "text", "close"}
        PROVE  /\ c \in DOMAIN block /\ block[c].open
               /\ q # l => q \in DOMAIN block /\ block[q].open
    <3>1. Shape(t, c, q, l)
      BY <2>1, <2>3 DEF IInv, Sound
    <3>2. /\ c \in DOMAIN t.kids /\ OpenIn(t) = Path(t.kids, c) \cup Between(t.kids, q, l)
          /\ q # l => q \in DOMAIN t.kids /\ l \in Path(t.kids, q)
      BY <3>1 DEF Shape, ShapeCore
    <3>3. c \in OpenIn(t)
      BY <2>2, <3>2, PathRises DEF WellTree
    <3>4. ASSUME q # l PROVE q \in OpenIn(t)
      <4>1. /\ q \in DOMAIN t.kids /\ l \in Path(t.kids, q) /\ l \in DOMAIN t.kids
            /\ Rooted(t.kids)
        BY <2>2, <3>2, <3>4, PathWithin DEF WellTree
      <4>2. q # Root
        BY <3>4, <4>1, PathRoot
      <4>3. l \in Path(t.kids, Par(t.kids, q)) /\ Par(t.kids, q) \in DOMAIN t.kids
        BY <3>4, <4>1, <4>2, PathStep, ParOf
      <4>4. q \notin Path(t.kids, l)
        BY <4>1, <4>2, <4>3, PathWithin, NoReturn
      <4> QED
        BY <3>2, <4>1, <4>4, PathRises DEF Between
    <3> QED
      BY <2>2, <3>3, <3>4 DEF OpenIn
  <2>4. ASSUME phase \in {"lazy", "finish"}
        PROVE  q \in DOMAIN block /\ block[q].open
    <3>1. Rest(t, q)
      BY <2>1, <2>4 DEF IInv, Sound
    <3>2. q \in OpenIn(t)
      BY <3>1, PathRises DEF Rest, WellTree
    <3> QED
      BY <2>2, <3>2 DEF OpenIn
  <2> QED
    BY <2>1, <2>3, <2>4 DEF AssertionsHold
<1> QED
  BY <1>1, OpenBlocksKnown, PTL

-----------------------------------------------------------------------------
(***************************************************************************)
(* The text in the blocks.                                                 *)
(***************************************************************************)

\* What add_line files.
Entry == [line : Nat, reference : BOOLEAN]

\* The blocks that hold text.
Holders == AcceptsLines \cup {"html_block"}

LinesIn(c) == {c[i].line : i \in DOMAIN c}

LinesAt(t, n) == LinesIn(t.block[n].content)

\* The lines that are in the blocks or among the definitions.
Found(t) == t.refs \cup UNION {LinesAt(t, n) : n \in DOMAIN t.kids}

\* Text from the first b lines, in order.
IsText(c, b) ==
  /\ c \in Seq(Entry)
  /\ LinesIn(c) \subseteq 1 .. b
  /\ \A i, j \in DOMAIN c : i < j => c[i].line < c[j].line

\* m stands before n.
Precedes(k, m, n) ==
  \E p \in Path(k, m) \cap Path(k, n) : \E x \in Path(k, m), y \in Path(k, n) : Ahead(k[p], x, y)

\* The text of the first b lines, each line in one place, in the order of the
\* blocks.
Filed(t, b) ==
  /\ \A n \in DOMAIN t.kids : IsText(t.block[n].content, b)
  /\ \A n \in DOMAIN t.kids : t.block[n].content # <<>> => t.block[n].type \in Holders
  /\ t.refs \subseteq 1 .. b
  /\ \A n \in DOMAIN t.kids : LinesAt(t, n) \cap t.refs = {}
  /\ \A m, n \in DOMAIN t.kids : m # n => LinesAt(t, m) \cap LinesAt(t, n) = {}
  /\ \A m, n \in DOMAIN t.kids :
       Precedes(t.kids, m, n) => \A x \in LinesAt(t, m), y \in LinesAt(t, n) : x < y

\* As many definitions start a paragraph as there are before its first line
\* that is none.
LEMMA DefinitionsAre ==
  ASSUME NEW c \in Seq(Entry)
  PROVE  Definitions(c) \in 0 .. Len(c)
<1> DEFINE S == {i \in 0 .. Len(c) : \A j \in 1 .. i : c[j].reference}
<1>1. Len(c) \in Nat /\ 0 \in S
  OBVIOUS
<1>2. S \in SUBSET (0 .. Len(c)) /\ S # {}
  BY <1>1
<1> HIDE DEF S
<1>3. PICK m \in S : \A i \in S : i <= m
  BY <1>1, <1>2, GreatestNumber
<1>4. m \in 0 .. Len(c) /\ \A j \in 1 .. m : c[j].reference
  BY DEF S
<1>5. m < Len(c) => ~c[m + 1].reference
  <2> SUFFICES ASSUME m < Len(c), c[m + 1].reference PROVE FALSE
    OBVIOUS
  <2>1. m + 1 \in 0 .. Len(c)
    BY <1>1, <1>4
  <2>2. \A j \in 1 .. m + 1 : c[j].reference
    <3> TAKE j \in 1 .. m + 1
    <3>1. j \in 1 .. m \/ j = m + 1
      BY <1>4
    <3> QED
      BY <1>4, <3>1
  <2>3. m + 1 \in S
    BY <2>1, <2>2 DEF S
  <2> QED
    BY <1>3, <1>4, <2>3
<1> QED
  BY <1>4, <1>5 DEF Definitions

\* Text from more lines.
LEMMA TextOfMore ==
  ASSUME NEW c, NEW b \in Nat, NEW d \in Nat, b <= d, IsText(c, b)
  PROVE  IsText(c, d)
  BY DEF IsText

\* The text without its first k lines, and those.
TextLeft(c, k) == SubSeq(c, k + 1, Len(c))

TextTaken(c, k) == {c[i].line : i \in 1 .. k}

\* The definitions taken off a paragraph, and what is left of it.
LEMMA TextResolved ==
  ASSUME NEW c, NEW b \in Nat, IsText(c, b)
  PROVE  LET k == Definitions(c)
         IN  /\ IsText(TextLeft(c, k), b)
             /\ LinesIn(TextLeft(c, k)) \cup TextTaken(c, k) = LinesIn(c)
             /\ LinesIn(TextLeft(c, k)) \cap TextTaken(c, k) = {}
             /\ TextLeft(c, k) # <<>> => c # <<>>
<1>1. c \in Seq(Entry) /\ Len(c) \in Nat
  BY DEF IsText
<1>2. PICK k \in Nat : k = Definitions(c) /\ k <= Len(c)
  BY <1>1, DefinitionsAre
<1>3. PICK l \in Nat : k + l = Len(c)
  <2>1. Len(c) - k \in Nat /\ k + (Len(c) - k) = Len(c)
    BY <1>1, <1>2
  <2> QED
    BY <2>1
<1>4. k + l <= Len(c)
  BY <1>1, <1>3
<1>5. /\ SubSeq(c, k + 1, k + l) \in Seq(Entry) /\ Len(SubSeq(c, k + 1, k + l)) = l
      /\ \A i \in 1 .. l : SubSeq(c, k + 1, k + l)[i] = c[k + i]
  BY <1>1, <1>4, PieceAt
<1>6. PICK d : d = TextLeft(c, k)
  OBVIOUS
<1>7. d \in Seq(Entry) /\ Len(d) = l /\ \A i \in 1 .. l : d[i] = c[k + i]
  BY <1>3, <1>5, <1>6 DEF TextLeft
<1>8. c \in Seq(Entry) /\ Len(c) \in Nat /\ DOMAIN c = 1 .. Len(c)
  BY DEF IsText
<1>9. DOMAIN d = 1 .. l /\ Len(c) = k + l /\ 1 .. k \subseteq DOMAIN c
  BY <1>3, <1>7, <1>8
<1>10. \A i \in DOMAIN d : k + i \in DOMAIN c /\ d[i] = c[k + i] /\ k + i \notin 1 .. k
  BY <1>7, <1>8, <1>9
<1>11. \A i \in DOMAIN c : i \in 1 .. k \/ (i - k \in DOMAIN d /\ d[i - k] = c[i])
  BY <1>7, <1>8, <1>9
<1>12. LinesIn(d) \subseteq LinesIn(c) /\ TextTaken(c, k) \subseteq LinesIn(c)
  BY <1>8, <1>9, <1>10 DEF LinesIn, TextTaken
<1>13. LinesIn(c) \subseteq LinesIn(d) \cup TextTaken(c, k)
  BY <1>11 DEF LinesIn, TextTaken
<1>14. \A i, j \in DOMAIN d : i < j => d[i].line < d[j].line
  <2> TAKE i, j \in DOMAIN d
  <2>1. k + i \in DOMAIN c /\ k + j \in DOMAIN c /\ (i < j => k + i < k + j)
    BY <1>8, <1>9, <1>10
  <2> QED
    BY <1>10, <2>1 DEF IsText
<1>15. LinesIn(d) \cap TextTaken(c, k) = {}
  <2> SUFFICES ASSUME NEW i \in DOMAIN d, NEW j \in 1 .. k, d[i].line = c[j].line PROVE FALSE
    BY DEF LinesIn, TextTaken
  <2>1. k + i \in DOMAIN c /\ j \in DOMAIN c /\ j < k + i
    BY <1>8, <1>9, <1>10
  <2>2. PICK h : h = k + i
    OBVIOUS
  <2>3. h \in DOMAIN c /\ j \in DOMAIN c /\ j < h /\ d[i] = c[h]
    BY <1>10, <2>1, <2>2
  <2>4. c[j].line < c[h].line
    BY <2>3 DEF IsText
  <2>5. c[j].line \in Nat
    <3>1. c[j] \in Entry
      BY <1>8, <2>3
    <3> QED
      BY <3>1 DEF Entry
  <2> QED
    BY <2>3, <2>4, <2>5
<1>16. d # <<>> => c # <<>>
  BY <1>7, <1>8, <1>9, EmptySeq
<1>17. IsText(d, b)
  BY <1>7, <1>12, <1>14 DEF IsText
<1> QED
  BY <1>2, <1>6, <1>12, <1>13, <1>15, <1>16, <1>17

\* A line added to text from before it.
LEMMA TextGrown ==
  ASSUME NEW c, NEW b \in Nat, IsText(c, b), NEW e \in Entry, e.line = b + 1,
         NEW d, d = Append(c, e)
  PROVE  IsText(d, b + 1) /\ LinesIn(d) = LinesIn(c) \cup {b + 1}
<1>1. c \in Seq(Entry) /\ Len(c) \in Nat /\ DOMAIN c = 1 .. Len(c)
  BY DEF IsText
<1>2. /\ d \in Seq(Entry) /\ DOMAIN d = 1 .. Len(c) + 1
      /\ d[Len(c) + 1] = e /\ \A i \in 1 .. Len(c) : d[i] = c[i]
  BY <1>1
<1>3. \A i \in DOMAIN d : i \in DOMAIN c \/ i = Len(c) + 1
  BY <1>1, <1>2
<1>4. LinesIn(d) = LinesIn(c) \cup {b + 1}
  <2>1. \A i \in DOMAIN c : i \in DOMAIN d
    BY <1>1, <1>2
  <2>2. Len(c) + 1 \in DOMAIN d
    BY <1>1, <1>2
  <2> QED
    BY <1>1, <1>2, <1>3, <2>1, <2>2 DEF LinesIn
<1>5. LinesIn(d) \subseteq 1 .. b + 1
  <2>1. LinesIn(c) \subseteq 1 .. b
    BY DEF IsText
  <2> QED
    BY <1>4, <2>1
<1>6. \A i, j \in DOMAIN d : i < j => d[i].line < d[j].line
  <2> TAKE i, j \in DOMAIN d
  <2> HAVE i < j
  <2>1. i \in DOMAIN c
    BY <1>1, <1>2, <1>3
  <2>2. d[i] = c[i] /\ c[i].line \in LinesIn(c)
    BY <1>1, <1>2, <2>1 DEF LinesIn
  <2>3. d[i].line \in 1 .. b
    BY <2>2 DEF IsText
  <2>4. CASE j \in DOMAIN c
    BY <1>1, <1>2, <2>1, <2>4 DEF IsText
  <2>5. CASE j = Len(c) + 1
    BY <1>2, <2>3, <2>5
  <2> QED
    BY <1>3, <2>4, <2>5
<1> QED
  BY <1>2, <1>4, <1>5, <1>6 DEF IsText

\* Blocks that hold no more than they did, in the order in which they were.
LEMMA Refiled ==
  ASSUME NEW t, NEW b \in Nat, Filed(t, b), NEW u, DOMAIN u.kids \subseteq DOMAIN t.kids,
         \A n \in DOMAIN u.kids :
           /\ IsText(u.block[n].content, b) /\ LinesAt(u, n) \subseteq LinesAt(t, n)
           /\ u.block[n].content # <<>> => u.block[n].type \in Holders
         , \A m, n \in DOMAIN u.kids : Precedes(u.kids, m, n) => Precedes(t.kids, m, n),
         u.refs \subseteq 1 .. b, \A n \in DOMAIN u.kids : LinesAt(u, n) \cap u.refs = {}
  PROVE  Filed(u, b)
<1>1. \A n \in DOMAIN u.kids : n \in DOMAIN t.kids /\ LinesAt(u, n) \subseteq LinesAt(t, n)
  OBVIOUS
<1>2. \A m, n \in DOMAIN u.kids : m # n => LinesAt(u, m) \cap LinesAt(u, n) = {}
  <2> TAKE m, n \in DOMAIN u.kids
  <2> HAVE m # n
  <2>1. LinesAt(t, m) \cap LinesAt(t, n) = {}
    BY <1>1 DEF Filed
  <2> QED
    BY <1>1, <2>1
<1>3. \A m, n \in DOMAIN u.kids :
        Precedes(u.kids, m, n) => \A x \in LinesAt(u, m), y \in LinesAt(u, n) : x < y
  <2> TAKE m, n \in DOMAIN u.kids
  <2> HAVE Precedes(u.kids, m, n)
  <2>1. \A x \in LinesAt(t, m), y \in LinesAt(t, n) : x < y
    BY <1>1 DEF Filed
  <2> QED
    BY <1>1, <2>1
<1> QED
  BY <1>2, <1>3 DEF Filed

\* Blocks whose text stays as it is.
LEMMA SameText ==
  ASSUME NEW t, NEW b \in Nat, Filed(t, b), NEW u, u.kids = t.kids, u.refs = t.refs,
         \A n \in DOMAIN t.kids :
           /\ u.block[n].content = t.block[n].content
           /\ t.block[n].type \in Holders => u.block[n].type \in Holders
  PROVE  Filed(u, b) /\ Found(u) = Found(t)
<1>1. \A n \in DOMAIN t.kids : LinesAt(u, n) = LinesAt(t, n)
  BY DEF LinesAt
<1>2. Filed(u, b)
  BY <1>1 DEF Filed
<1>3. Found(u) = Found(t)
  BY <1>1 DEF Found
<1> QED
  BY <1>2, <1>3

\* Link reference definitions taken off a paragraph.
LEMMA ResolvedFiled ==
  ASSUME NEW t, IsTree(t), NEW b \in Nat, Filed(t, b), NEW n \in DOMAIN t.kids,
         NEW u, u = Resolved(t, n)
  PROVE  Filed(u, b) /\ Found(u) = Found(t)
<1> DEFINE c == t.block[n].content
           k == Definitions(c)
           left == TextLeft(c, k)
           taken == TextTaken(c, k)
<1>1. u = [t EXCEPT !.block[n].content = left, !.refs = @ \cup taken]
  BY DEF Resolved, TextLeft, TextTaken
<1>2. IsText(c, b)
  BY DEF Filed
<1>3. /\ IsText(left, b) /\ LinesIn(left) \cup taken = LinesIn(c)
      /\ LinesIn(left) \cap taken = {} /\ (left # <<>> => c # <<>>)
  BY <1>2, TextResolved
<1> HIDE DEF left, taken, k
<1>4. /\ u.kids = t.kids /\ u.refs = t.refs \cup taken
      /\ u.block[n].content = left /\ u.block[n].type = t.block[n].type
      /\ \A m \in DOMAIN t.kids \ {n} : u.block[m] = t.block[m]
  <2>1. n \in DOMAIN t.block /\ IsBlock(t.block[n])
    BY DEF IsTree
  <2>2. /\ u.kids = t.kids /\ u.refs = t.refs \cup taken
        /\ u.block = [t.block EXCEPT ![n].content = left]
    BY <1>1 DEF IsTree
  <2>3. "content" \in DOMAIN t.block[n]
    BY <2>1 DEF IsBlock, Fields
  <2>4. u.block[n] = [t.block[n] EXCEPT !.content = left]
    BY <2>1, <2>2
  <2>5. /\ [t.block[n] EXCEPT !.content = left].content = left
        /\ [t.block[n] EXCEPT !.content = left].type = t.block[n].type
    BY <2>1 DEF IsBlock, Fields
  <2>6. \A m \in DOMAIN t.kids \ {n} : u.block[m] = t.block[m]
    BY <2>2 DEF IsTree
  <2> QED
    BY <2>2, <2>4, <2>5, <2>6
<1>5. /\ LinesAt(u, n) = LinesIn(left) /\ LinesAt(t, n) = LinesIn(c)
      /\ \A m \in DOMAIN t.kids \ {n} : LinesAt(u, m) = LinesAt(t, m)
  BY <1>4 DEF LinesAt
<1>6. /\ \A m \in DOMAIN t.kids : IsText(t.block[m].content, b)
      /\ \A m \in DOMAIN t.kids : t.block[m].content # <<>> => t.block[m].type \in Holders
      /\ t.refs \subseteq 1 .. b
      /\ \A m \in DOMAIN t.kids : LinesAt(t, m) \cap t.refs = {}
      /\ \A m, x \in DOMAIN t.kids : m # x => LinesAt(t, m) \cap LinesAt(t, x) = {}
  BY DEF Filed
<1> HIDE DEF c
<1>7. taken \subseteq LinesAt(t, n) /\ LinesAt(t, n) \subseteq 1 .. b
  BY <1>2, <1>3, <1>5 DEF IsText
<1>8. \A m \in DOMAIN u.kids : LinesAt(u, m) \cap u.refs = {}
  <2> SUFFICES ASSUME NEW m \in DOMAIN t.kids PROVE LinesAt(u, m) \cap u.refs = {}
    BY <1>4
  <2>1. LinesAt(u, m) \subseteq LinesAt(t, m) /\ LinesAt(t, m) \cap t.refs = {}
    BY <1>3, <1>5, <1>6
  <2>2. LinesAt(u, m) \cap taken = {}
    <3>1. CASE m = n
      BY <1>3, <1>5, <3>1
    <3>2. CASE m # n
      BY <1>6, <1>7, <2>1, <3>2
    <3> QED
      BY <3>1, <3>2
  <2> QED
    BY <1>4, <2>1, <2>2
<1>9. \A m \in DOMAIN u.kids :
        /\ IsText(u.block[m].content, b) /\ LinesAt(u, m) \subseteq LinesAt(t, m)
        /\ u.block[m].content # <<>> => u.block[m].type \in Holders
  <2> SUFFICES ASSUME NEW m \in DOMAIN t.kids
               PROVE  /\ IsText(u.block[m].content, b) /\ LinesAt(u, m) \subseteq LinesAt(t, m)
                      /\ u.block[m].content # <<>> => u.block[m].type \in Holders
    BY <1>4
  <2>1. CASE m = n
    BY <1>3, <1>4, <1>5, <1>6, <2>1 DEF c
  <2>2. CASE m # n
    BY <1>4, <1>5, <1>6, <2>2
  <2> QED
    BY <2>1, <2>2
<1>10. u.refs \subseteq 1 .. b
  BY <1>4, <1>6, <1>7
<1>11. Filed(u, b)
  BY <1>4, <1>8, <1>9, <1>10, Refiled
<1>12. Found(u) = Found(t)
  <2>1. LinesAt(u, n) \cup taken = LinesAt(t, n)
    BY <1>3, <1>5
  <2> QED
    BY <1>4, <1>5, <2>1 DEF Found
<1> QED
  BY <1>11, <1>12

\* The order of blocks on a list that one was taken off.
LEMMA CutOrder ==
  ASSUME NEW k, Rooted(k), NEW n \in DOMAIN k \ {Root}, NEW u, u = CutKids(k, n),
         NEW m \in DOMAIN u, NEW x, NEW y, Ahead(u[m], x, y)
  PROVE  Ahead(k[m], x, y)
<1>1. m \in DOMAIN k /\ u[m] = Without(k[m], n)
  BY DEF CutKids
<1>2. CASE ~Contains(k[m], n)
  BY <1>1, <1>2 DEF Without
<1>3. CASE Contains(k[m], n)
  <2>1. PICK s \in Seq(DOMAIN k \ {Root}) : s = k[m]
    BY <1>1 DEF Rooted
  <2>2. PICK g \in 1 .. Len(s) : g = CHOOSE i \in DOMAIN s : s[i] = n
    <3>1. \E i \in DOMAIN s : s[i] = n
      BY <1>3, <2>1 DEF Contains
    <3> QED
      BY <2>1, <3>1
  <2>3. PICK r : r = SubSeq(s, 1, g - 1) \o SubSeq(s, g + 1, Len(s))
    OBVIOUS
  <2>4. LacksPlace(DOMAIN k \ {Root}, s, g, r)
    BY <2>3, RemovedAt
  <2>5. u[m] = r
    BY <1>1, <1>3, <2>1, <2>2, <2>3 DEF Without, RemoveAt
  <2>6. PICK i, j \in DOMAIN r : i < j /\ r[i] = x /\ r[j] = y
    BY <2>5 DEF Ahead
  <2> DEFINE at(z) == IF z < g THEN z ELSE z + 1
  <2>7. /\ Len(s) \in Nat /\ DOMAIN s = 1 .. Len(s) /\ DOMAIN r = 1 .. Len(s) - 1
        /\ \A z \in 1 .. Len(s) - 1 : r[z] = IF z < g THEN s[z] ELSE s[z + 1]
    <3>1. /\ r \in Seq(DOMAIN k \ {Root}) /\ Len(r) = Len(s) - 1
          /\ \A z \in 1 .. Len(s) - 1 : r[z] = IF z < g THEN s[z] ELSE s[z + 1]
      BY <2>4 DEF LacksPlace
    <3>2. Len(s) \in Nat /\ DOMAIN s = 1 .. Len(s) /\ DOMAIN r = 1 .. Len(r)
      BY <3>1
    <3> QED
      BY <3>1, <3>2
  <2>8. at(i) \in DOMAIN s /\ s[at(i)] = x
    BY <2>6, <2>7
  <2>9. at(j) \in DOMAIN s /\ s[at(j)] = y
    BY <2>6, <2>7
  <2>10. at(i) < at(j)
    BY <2>6, <2>7
  <2> QED
    BY <2>1, <2>8, <2>9, <2>10 DEF Ahead
<1> QED
  BY <1>2, <1>3

\* A block without text that is removed.
LEMMA RemovedFiled ==
  ASSUME NEW t, WellTree(t), NEW b \in Nat, Filed(t, b), NEW n \in DOMAIN t.kids \ {Root},
         t.kids[n] = <<>>, t.block[n].content = <<>>, NEW u, u = Removed(t, n)
  PROVE  Filed(u, b) /\ Found(u) = Found(t)
<1>1. /\ u.kids = CutKids(t.kids, n)
      /\ \A m \in DOMAIN u.kids : u.block[m] = t.block[m]
  BY RemovedTree
<1>2. u.refs = t.refs
  BY DEF Removed, WellTree, IsTree
<1>3. Rooted(t.kids)
  BY DEF WellTree
<1>4. DOMAIN u.kids = DOMAIN t.kids \ {n}
  BY <1>1 DEF CutKids
<1>5. \A m \in DOMAIN u.kids : LinesAt(u, m) = LinesAt(t, m)
  BY <1>1 DEF LinesAt
<1>6. \A m \in DOMAIN u.kids : Path(u.kids, m) = Path(t.kids, m)
  BY <1>1, <1>3, CutPaths
<1>7. ASSUME NEW m \in DOMAIN u.kids, NEW x \in DOMAIN u.kids, Precedes(u.kids, m, x)
      PROVE  Precedes(t.kids, m, x)
  <2>1. PICK p \in Path(u.kids, m) \cap Path(u.kids, x) :
          \E y \in Path(u.kids, m), z \in Path(u.kids, x) : Ahead(u.kids[p], y, z)
    BY <1>7 DEF Precedes
  <2>2. PICK y \in Path(u.kids, m), z \in Path(u.kids, x) : Ahead(u.kids[p], y, z)
    BY <2>1
  <2>3. p \in DOMAIN u.kids
    BY <2>1 DEF Path
  <2>4. Ahead(t.kids[p], y, z)
    BY <1>1, <1>3, <2>2, <2>3, CutOrder
  <2> QED
    BY <1>6, <2>1, <2>2, <2>4 DEF Precedes
<1>8. Filed(u, b)
  <2>1. \A m \in DOMAIN u.kids :
          /\ IsText(u.block[m].content, b) /\ LinesAt(u, m) \subseteq LinesAt(t, m)
          /\ u.block[m].content # <<>> => u.block[m].type \in Holders
    BY <1>1, <1>4, <1>5 DEF Filed
  <2>2. u.refs \subseteq 1 .. b /\ \A m \in DOMAIN u.kids : LinesAt(u, m) \cap u.refs = {}
    BY <1>2, <1>4, <1>5 DEF Filed
  <2>3. DOMAIN u.kids \subseteq DOMAIN t.kids
    BY <1>4
  <2> QED
    BY <1>7, <2>1, <2>2, <2>3, Refiled
<1>9. Found(u) = Found(t)
  <2>1. LinesAt(t, n) = {}
    <3>1. DOMAIN <<>> = {}
      OBVIOUS
    <3> QED
      BY <3>1 DEF LinesAt, LinesIn
  <2> QED
    BY <1>2, <1>4, <1>5, <2>1 DEF Found
<1> QED
  BY <1>8, <1>9

\* finalize closes a block; the text stays, or becomes definitions.
LEMMA FinalizedFiled ==
  ASSUME NEW t, WellTree(t), NEW b \in Nat, Filed(t, b), NEW n \in DOMAIN t.kids,
         NEW u, u = Finalized(t, n)
  PROVE  Filed(u, b) /\ Found(u) = Found(t)
<1> DEFINE r == t.block[n]
           last == IF phase = "finish" \/ EndsOnCurrentLine(r)
                   THEN line_number ELSE line_number - 1
           closed == [t EXCEPT !.block[n] = [r EXCEPT !.open = FALSE, !.end_line = last]]
           left == Resolved(closed, n)
<1>1. u = CASE r.type = "paragraph" ->
                 IF left.block[n].content = <<>> THEN Removed(left, n) ELSE left
            [] r.type = "list" -> Judged(closed, n)
            [] OTHER -> closed
  BY DEF Finalized
<1>2. /\ Alike(t, closed) /\ closed.refs = t.refs
      /\ \A m \in DOMAIN t.kids : closed.block[m].content = t.block[m].content
                                  /\ closed.block[m].type = t.block[m].type
  <2> DEFINE s == [r EXCEPT !.open = FALSE, !.end_line = last]
  <2>1. IsBlock(r)
    BY DEF WellTree, IsTree
  <2>2. /\ closed.kids = t.kids /\ closed.refs = t.refs
        /\ closed = [block |-> closed.block, kids |-> closed.kids, refs |-> closed.refs]
        /\ closed.block = [m \in DOMAIN t.kids |-> closed.block[m]]
        /\ closed.block[n] = s /\ \A m \in DOMAIN t.kids \ {n} : closed.block[m] = t.block[m]
    <3>1. closed = [block |-> [t.block EXCEPT ![n] = s], kids |-> t.kids, refs |-> t.refs]
      BY DEF WellTree, IsTree
    <3> HIDE DEF closed, s
    <3>2. closed.block = [t.block EXCEPT ![n] = s] /\ closed.kids = t.kids /\ closed.refs = t.refs
      BY <3>1
    <3> QED
      BY <3>1, <3>2 DEF WellTree, IsTree
  <2> HIDE DEF r, last, closed
  <2>3. IsBlock(s) /\ s.type = r.type /\ s.content = r.content
    BY <2>1 DEF IsBlock, Fields
  <2> HIDE DEF s
  <2>4. \A m \in DOMAIN t.kids :
          /\ IsBlock(closed.block[m]) /\ closed.block[m].type = t.block[m].type
          /\ closed.block[m].content = t.block[m].content
    BY <2>2, <2>3 DEF r, WellTree, IsTree
  <2>5. Alike(t, closed)
    BY <2>2, <2>4 DEF Alike, IsTree
  <2> QED
    BY <2>2, <2>4, <2>5
<1> HIDE DEF last, closed, left
<1>3. closed.kids = t.kids /\ WellTree(closed) /\ IsTree(closed)
  BY <1>2, AlikeWell DEF Alike
<1>4. Filed(closed, b) /\ Found(closed) = Found(t)
  BY <1>2, <1>3, SameText
<1>5. CASE r.type = "paragraph"
  <2>1. Filed(left, b) /\ Found(left) = Found(t)
    BY <1>3, <1>4, ResolvedFiled DEF left
  <2>2. CASE left.block[n].content # <<>>
    BY <1>1, <1>5, <2>1, <2>2
  <2>3. CASE left.block[n].content = <<>>
    <3>1. Alike(closed, left)
      BY <1>3, ResolvedAlike DEF left
    <3>2. WellTree(left) /\ left.kids = t.kids
      BY <1>3, <3>1, AlikeWell DEF Alike
    <3>3. n # Root /\ t.kids[n] = <<>>
      BY <1>5, LeavesEmpty DEF WellTree
    <3>4. u = Removed(left, n)
      BY <1>1, <1>5, <2>3
    <3> QED
      BY <2>1, <2>3, <3>2, <3>3, <3>4, RemovedFiled
  <2> QED
    BY <2>2, <2>3
<1>6. CASE r.type = "list"
  <2>1. u = Judged(closed, n)
    BY <1>1, <1>6
  <2>2. PICK v \in BOOLEAN : v = (FirstLoose(closed, n) = 0)
    OBVIOUS
  <2>3. /\ u.kids = closed.kids /\ u.refs = closed.refs
        /\ u.block = [m \in DOMAIN closed.block |->
             IF m = n THEN [closed.block[n] EXCEPT !.tight = v]
             ELSE IF m \in Checked(closed, n) THEN [closed.block[m] EXCEPT !.checked = TRUE]
             ELSE closed.block[m]]
    BY <1>3, <2>1, <2>2 DEF Judged, IsTree
  <2>4. ASSUME NEW m \in DOMAIN closed.kids
        PROVE  /\ u.block[m].content = closed.block[m].content
               /\ u.block[m].type = closed.block[m].type
    <3>1. PICK x, y : x = closed.block[m] /\ y = u.block[m]
      OBVIOUS
    <3>2. y = x \/ y = [x EXCEPT !.tight = v] \/ y = [x EXCEPT !.checked = TRUE]
      BY <1>3, <2>3, <3>1 DEF IsTree
    <3>3. IsBlock(x)
      BY <1>3, <3>1 DEF IsTree
    <3>4. y = [x EXCEPT !.tight = v] => y.content = x.content /\ y.type = x.type
      BY <3>3 DEF IsBlock, Fields
    <3>5. y = [x EXCEPT !.checked = TRUE] => y.content = x.content /\ y.type = x.type
      BY <3>3 DEF IsBlock, Fields
    <3> QED
      BY <3>1, <3>2, <3>4, <3>5
  <2>5. u.kids = closed.kids /\ u.refs = closed.refs
    BY <2>3
  <2>6. \A m \in DOMAIN closed.kids :
          /\ u.block[m].content = closed.block[m].content
          /\ closed.block[m].type \in Holders => u.block[m].type \in Holders
    BY <2>4
  <2>7. Filed(u, b) /\ Found(u) = Found(closed)
    BY <1>4, <2>5, <2>6, SameText
  <2> QED
    BY <1>4, <2>7
<1>7. CASE r.type # "paragraph" /\ r.type # "list"
  BY <1>1, <1>4, <1>7
<1> QED
  BY <1>5, <1>6, <1>7

\* Nothing stands after a block that is the last child of a last child, up to
\* the document.
LEMMA NothingAfter ==
  ASSUME NEW k, Rooted(k), NEW n \in DOMAIN k, Hangs(k, Path(k, n)), NEW m
  PROVE  ~Precedes(k, n, m)
<1> SUFFICES ASSUME Precedes(k, n, m) PROVE FALSE
  OBVIOUS
<1>1. PICK p \in Path(k, n), x \in Path(k, n), y \in Path(k, m) : Ahead(k[p], x, y)
  BY DEF Precedes
<1>2. PICK i, j \in DOMAIN k[p] : i < j /\ k[p][i] = x /\ k[p][j] = y
  BY <1>1 DEF Ahead
<1>3. p \in DOMAIN k
  BY <1>1, PathRises
<1>4. k[p] \in Seq(DOMAIN k \ {Root}) /\ Len(k[p]) \in Nat /\ DOMAIN k[p] = 1 .. Len(k[p])
  <2>1. k[p] \in Seq(DOMAIN k \ {Root})
    BY <1>3 DEF Rooted
  <2> QED
    BY <2>1
<1>5. Contains(k[p], x)
  BY <1>2, <1>4 DEF Contains
<1>6. x \in Path(k, n) \ {Root} /\ Par(k, x) = p
  BY <1>1, <1>3, <1>5, OnList
<1>7. x = Last(k[p])
  BY <1>6 DEF Hangs
<1>8. k[p][Len(k[p])] = x /\ Len(k[p]) \in DOMAIN k[p]
  BY <1>2, <1>4, <1>7 DEF Last
<1>9. i = Len(k[p])
  BY <1>2, <1>3, <1>8 DEF Rooted
<1> QED
  BY <1>2, <1>4, <1>9

\* The blocks that there were stand as they stood.
LEMMA GrownOrder ==
  ASSUME NEW k, Rooted(k), NEW p \in DOMAIN k, NEW a \in Nat \ {0}, a \notin DOMAIN k,
         NEW u, u = GrownKids(k, p, a), NEW m \in DOMAIN k, NEW n \in DOMAIN k,
         Precedes(u, m, n)
  PROVE  Precedes(k, m, n)
<1>1. Path(u, m) = Path(k, m) /\ Path(u, n) = Path(k, n)
  BY GrownPaths
<1>2. PICK q \in Path(k, m) \cap Path(k, n), x \in Path(k, m), y \in Path(k, n) : Ahead(u[q], x, y)
  BY <1>1 DEF Precedes
<1>3. q \in DOMAIN k /\ x \in DOMAIN k /\ y \in DOMAIN k
  BY <1>2 DEF Path
<1>4. GrownBy(k, u, p, a)
  BY GrownLists
<1>5. CASE q # p
  <2>1. u[q] = k[q]
    BY <1>3, <1>4, <1>5 DEF GrownBy
  <2> QED
    BY <1>2, <2>1 DEF Precedes
<1>6. CASE q = p
  <2>1. u[q] = Append(k[q], a)
    BY <1>4, <1>6 DEF GrownBy
  <2>2. k[q] \in Seq(DOMAIN k \ {Root}) /\ Len(k[q]) \in Nat /\ DOMAIN k[q] = 1 .. Len(k[q])
    BY <1>3 DEF Rooted
  <2>3. /\ DOMAIN u[q] = 1 .. Len(k[q]) + 1 /\ u[q][Len(k[q]) + 1] = a
        /\ \A i \in 1 .. Len(k[q]) : u[q][i] = k[q][i]
    BY <2>1, <2>2
  <2>4. PICK i, j \in DOMAIN u[q] : i < j /\ u[q][i] = x /\ u[q][j] = y
    BY <1>2 DEF Ahead
  <2>5. i # Len(k[q]) + 1 /\ j # Len(k[q]) + 1
    BY <1>3, <2>3, <2>4
  <2>6. i \in DOMAIN k[q] /\ j \in DOMAIN k[q] /\ k[q][i] = x /\ k[q][j] = y
    BY <2>2, <2>3, <2>4, <2>5
  <2>7. Ahead(k[q], x, y)
    BY <2>4, <2>6 DEF Ahead
  <2> QED
    BY <1>2, <2>7 DEF Precedes
<1> QED
  BY <1>5, <1>6

\* A new block with the last of the text, or with none.
LEMMA AppendedFiled ==
  ASSUME NEW v, NEW p, NEW q, NEW l, ShapeCore(v, p, q, l), NEW r, IsBlock(r), r.open,
         CanContain(v.block[p].type, r.type), NEW a, a = FreeAddress(v),
         NEW u, u = Grown(v, p, a, r),
         NEW b \in Nat, Filed(v, b), NEW d \in Nat, b <= d, IsText(r.content, d),
         \A x \in LinesIn(r.content) : b < x,
         r.content # <<>> => r.type \in Holders
  PROVE  Filed(u, d) /\ Found(u) = Found(v) \cup LinesIn(r.content)
<1> DEFINE k == v.kids
           w == u.kids
<1>1. WellTree(v) /\ IsTree(v) /\ Rooted(k) /\ p \in DOMAIN k
  BY DEF ShapeCore, WellTree
<1>2. a \in Nat \ {0} /\ a \notin DOMAIN k
  <2>1. DOMAIN v.block = DOMAIN k /\ IsFiniteSet(DOMAIN k)
    BY <1>1 DEF IsTree, Rooted
  <2> QED
    BY <2>1, FreeAddressIs
<1>3. PICK bl, g : bl = Put(v.block, a, r) /\ g = GrownKids(k, p, a)
  OBVIOUS
<1>4. w = GrownKids(k, p, a) /\ u.block = Put(v.block, a, r) /\ u.refs = v.refs
  <2>1. u = [block |-> bl, kids |-> g, refs |-> v.refs]
    BY <1>1, <1>3 DEF IsTree, GrownKids, Grown
  <2>2. u.kids = g /\ u.block = bl /\ u.refs = v.refs
    BY <2>1
  <2> HIDE DEF k
  <2> QED
    BY <1>3, <2>2
<1>5. Shape(u, a, q, l) /\ u.block[a] = r
  BY Appended
<1>6. Rooted(w) /\ a \in DOMAIN w /\ Hangs(w, Path(w, a))
  BY <1>5 DEF Shape, ShapeCore, WellTree
<1> HIDE DEF w, k
<1>7. DOMAIN w = DOMAIN k \cup {a}
  <2>1. GrownBy(k, w, p, a)
    BY <1>1, <1>2, <1>4, GrownLists
  <2> QED
    BY <2>1 DEF GrownBy
<1>8. \A n \in DOMAIN k : u.block[n] = v.block[n]
  BY <1>1, <1>2, <1>4 DEF Put, IsTree, k
<1>9. LinesAt(u, a) = LinesIn(r.content) /\ \A n \in DOMAIN k : LinesAt(u, n) = LinesAt(v, n)
  BY <1>5, <1>8 DEF LinesAt
<1>10. /\ \A n \in DOMAIN k : IsText(v.block[n].content, b)
       /\ \A n \in DOMAIN k : v.block[n].content # <<>> => v.block[n].type \in Holders
       /\ v.refs \subseteq 1 .. b
       /\ \A n \in DOMAIN k : LinesAt(v, n) \cap v.refs = {}
       /\ \A m, n \in DOMAIN k : m # n => LinesAt(v, m) \cap LinesAt(v, n) = {}
       /\ \A m, n \in DOMAIN k :
            Precedes(k, m, n) => \A y \in LinesAt(v, m), z \in LinesAt(v, n) : y < z
  BY DEF Filed, k
<1>11. \A n \in DOMAIN k : LinesAt(v, n) \subseteq 1 .. b
  BY <1>10 DEF IsText, LinesAt
<1>12. \A y \in LinesIn(r.content) : y \in Nat /\ y \notin 1 .. b /\ \A z \in 1 .. b : z < y
  <2> TAKE y \in LinesIn(r.content)
  <2>1. y \in 1 .. d /\ b < y
    BY DEF IsText
  <2> QED
    BY <2>1
<1>13. \A n \in DOMAIN w : IsText(u.block[n].content, d)
                           /\ (u.block[n].content # <<>> => u.block[n].type \in Holders)
  <2> TAKE n \in DOMAIN w
  <2>1. CASE n = a
    BY <1>5, <2>1
  <2>2. CASE n # a
    <3>1. n \in DOMAIN k
      BY <1>7, <2>2
    <3>2. IsText(v.block[n].content, d)
      BY <1>10, <3>1, TextOfMore
    <3> QED
      BY <1>8, <1>10, <3>1, <3>2
  <2> QED
    BY <2>1, <2>2
<1>14. \A n \in DOMAIN w : LinesAt(u, n) \cap u.refs = {}
  <2> TAKE n \in DOMAIN w
  <2>1. CASE n = a
    BY <1>4, <1>9, <1>10, <1>12, <2>1
  <2>2. CASE n # a
    BY <1>4, <1>7, <1>9, <1>10, <2>2
  <2> QED
    BY <2>1, <2>2
<1>15. \A n \in DOMAIN k : LinesAt(u, n) \cap LinesAt(u, a) = {}
  BY <1>9, <1>11, <1>12
<1>16. \A m, n \in DOMAIN w : m # n => LinesAt(u, m) \cap LinesAt(u, n) = {}
  <2> TAKE m, n \in DOMAIN w
  <2> HAVE m # n
  <2>1. CASE m = a
    <3>1. n \in DOMAIN k
      BY <1>7, <2>1
    <3> QED
      BY <1>15, <2>1, <3>1
  <2>2. CASE n = a
    <3>1. m \in DOMAIN k
      BY <1>7, <2>2
    <3> QED
      BY <1>15, <2>2, <3>1
  <2>3. CASE m # a /\ n # a
    <3>1. m \in DOMAIN k /\ n \in DOMAIN k
      BY <1>7, <2>3
    <3> QED
      BY <1>9, <1>10, <3>1
  <2> QED
    BY <2>1, <2>2, <2>3
<1>17. \A m, n \in DOMAIN w :
         Precedes(w, m, n) => \A y \in LinesAt(u, m), z \in LinesAt(u, n) : y < z
  <2> TAKE m, n \in DOMAIN w
  <2> HAVE Precedes(w, m, n)
  <2>1. m # a
    BY <1>6, NothingAfter
  <2>2. m \in DOMAIN k
    BY <1>7, <2>1
  <2>3. CASE n = a
    BY <1>9, <1>11, <1>12, <2>2, <2>3
  <2>4. CASE n # a
    <3>1. n \in DOMAIN k
      BY <1>7, <2>4
    <3>2. Precedes(k, m, n)
      BY <1>1, <1>2, <1>4, <2>2, <3>1, GrownOrder
    <3> QED
      BY <1>9, <1>10, <2>2, <3>1, <3>2
  <2> QED
    BY <2>3, <2>4
<1>18. u.refs \subseteq 1 .. d
  <2>1. 1 .. b \subseteq 1 .. d
    OBVIOUS
  <2> QED
    BY <1>4, <1>10, <2>1
<1>19. Filed(u, d)
  BY <1>13, <1>14, <1>16, <1>17, <1>18 DEF Filed, w
<1>20. Found(u) = Found(v) \cup LinesIn(r.content)
  <2>1. u.refs = v.refs
    BY <1>4
  <2>2. ASSUME NEW x, x \in Found(u) PROVE x \in Found(v) \cup LinesIn(r.content)
    <3>1. CASE x \in u.refs
      BY <2>1, <3>1 DEF Found
    <3>2. CASE \E n \in DOMAIN w : x \in LinesAt(u, n)
      <4>1. PICK n \in DOMAIN w : x \in LinesAt(u, n)
        BY <3>2
      <4>2. n = a \/ n \in DOMAIN k
        BY <1>7
      <4> QED
        BY <1>9, <4>1, <4>2 DEF Found, k
    <3> QED
      BY <2>2, <3>1, <3>2 DEF Found, w
  <2>3. ASSUME NEW x, x \in Found(v) \cup LinesIn(r.content) PROVE x \in Found(u)
    <3>1. CASE x \in LinesIn(r.content)
      BY <1>6, <1>9, <3>1 DEF Found, w
    <3>2. CASE x \in v.refs
      BY <2>1, <3>2 DEF Found
    <3>3. CASE \E n \in DOMAIN k : x \in LinesAt(v, n)
      <4>1. PICK n \in DOMAIN k : x \in LinesAt(v, n)
        BY <3>3
      <4>2. n \in DOMAIN w /\ x \in LinesAt(u, n)
        BY <1>7, <1>9, <4>1
      <4> QED
        BY <4>2 DEF Found, w
    <3> QED
      BY <2>3, <3>1, <3>2, <3>3 DEF Found, k
  <2> QED
    BY <2>2, <2>3
<1> QED
  BY <1>19, <1>20

\* The line that is read, added to the last block.
LEMMA WithLineFiled ==
  ASSUME NEW t, WellTree(t), NEW n \in DOMAIN t.kids, Hangs(t.kids, Path(t.kids, n)),
         t.block[n].type \in Holders, NEW b \in Nat, Filed(t, b), line_number = b + 1,
         NEW y, NEW u, u = WithLine(t, n, y)
  PROVE  Filed(u, b + 1) /\ Found(u) = Found(t) \cup {b + 1}
<1> DEFINE c == t.block[n].content
           e == Line(y)
           d == Append(c, e)
<1>1. e \in Entry /\ e.line = b + 1
  BY DEF Line, Entry
<1>2. IsText(c, b)
  BY DEF Filed
<1> HIDE DEF e
<1>3. IsText(d, b + 1) /\ LinesIn(d) = LinesIn(c) \cup {b + 1}
  <2> HIDE DEF c
  <2>1. PICK x : x = Append(c, e)
    OBVIOUS
  <2>2. IsText(x, b + 1) /\ LinesIn(x) = LinesIn(c) \cup {b + 1}
    BY <1>1, <1>2, <2>1, TextGrown
  <2> QED
    BY <2>1, <2>2
<1>4. u = [t EXCEPT !.block[n].content = d]
  BY DEF WithLine, e
<1> HIDE DEF d
<1>5. /\ u.kids = t.kids /\ u.refs = t.refs
      /\ u.block[n].content = d /\ u.block[n].type = t.block[n].type
      /\ \A m \in DOMAIN t.kids \ {n} : u.block[m] = t.block[m]
  <2>1. n \in DOMAIN t.block /\ IsBlock(t.block[n])
    BY DEF WellTree, IsTree
  <2>2. /\ u.kids = t.kids /\ u.refs = t.refs
        /\ u.block = [t.block EXCEPT ![n].content = d]
    BY <1>4 DEF WellTree, IsTree
  <2>3. u.block[n] = [t.block[n] EXCEPT !.content = d]
    BY <2>1, <2>2
  <2>4. /\ [t.block[n] EXCEPT !.content = d].content = d
        /\ [t.block[n] EXCEPT !.content = d].type = t.block[n].type
    BY <2>1 DEF IsBlock, Fields
  <2>5. \A m \in DOMAIN t.kids \ {n} : u.block[m] = t.block[m]
    BY <2>2 DEF WellTree, IsTree
  <2> QED
    BY <2>2, <2>3, <2>4, <2>5
<1>6. /\ LinesAt(u, n) = LinesAt(t, n) \cup {b + 1}
      /\ \A m \in DOMAIN t.kids \ {n} : LinesAt(u, m) = LinesAt(t, m)
  BY <1>3, <1>5 DEF LinesAt
<1>7. /\ \A m \in DOMAIN t.kids : IsText(t.block[m].content, b)
      /\ \A m \in DOMAIN t.kids : t.block[m].content # <<>> => t.block[m].type \in Holders
      /\ t.refs \subseteq 1 .. b
      /\ \A m \in DOMAIN t.kids : LinesAt(t, m) \cap t.refs = {}
      /\ \A m, x \in DOMAIN t.kids : m # x => LinesAt(t, m) \cap LinesAt(t, x) = {}
      /\ \A m, x \in DOMAIN t.kids :
           Precedes(t.kids, m, x) => \A i \in LinesAt(t, m), j \in LinesAt(t, x) : i < j
  BY DEF Filed
<1>8. \A m \in DOMAIN t.kids : LinesAt(t, m) \subseteq 1 .. b
  BY <1>7 DEF IsText, LinesAt
<1>9. b + 1 \notin 1 .. b /\ \A x \in 1 .. b : x < b + 1
  OBVIOUS
<1>10. \A m \in DOMAIN t.kids : IsText(u.block[m].content, b + 1)
                                /\ (u.block[m].content # <<>> => u.block[m].type \in Holders)
  <2> TAKE m \in DOMAIN t.kids
  <2>1. CASE m = n
    BY <1>3, <1>5, <2>1
  <2>2. CASE m # n
    <3>1. b + 1 \in Nat /\ b <= b + 1
      OBVIOUS
    <3>2. IsText(t.block[m].content, b + 1)
      BY <1>7, <3>1, TextOfMore
    <3> QED
      BY <1>5, <1>7, <2>2, <3>2
  <2> QED
    BY <2>1, <2>2
<1>11. \A m \in DOMAIN t.kids : LinesAt(u, m) \cap u.refs = {}
  <2> TAKE m \in DOMAIN t.kids
  <2>1. LinesAt(u, m) \subseteq LinesAt(t, m) \cup {b + 1}
    BY <1>6
  <2> QED
    BY <1>5, <1>7, <1>9, <2>1
<1>12. \A m, x \in DOMAIN t.kids : m # x => LinesAt(u, m) \cap LinesAt(u, x) = {}
  <2> TAKE m, x \in DOMAIN t.kids
  <2> HAVE m # x
  <2>1. LinesAt(t, m) \cap LinesAt(t, x) = {} /\ b + 1 \notin LinesAt(t, m)
        /\ b + 1 \notin LinesAt(t, x)
    BY <1>7, <1>8, <1>9
  <2>2. CASE m = n
    BY <1>6, <2>1, <2>2
  <2>3. CASE x = n
    BY <1>6, <2>1, <2>3
  <2>4. CASE m # n /\ x # n
    BY <1>6, <2>1, <2>4
  <2> QED
    BY <2>2, <2>3, <2>4
<1>13. \A m, x \in DOMAIN t.kids :
         Precedes(t.kids, m, x) => \A i \in LinesAt(u, m), j \in LinesAt(u, x) : i < j
  <2> TAKE m, x \in DOMAIN t.kids
  <2> HAVE Precedes(t.kids, m, x)
  <2>1. m # n
    BY NothingAfter DEF WellTree
  <2>2. LinesAt(u, m) = LinesAt(t, m) /\ LinesAt(u, x) \subseteq LinesAt(t, x) \cup {b + 1}
    BY <1>6, <2>1
  <2>3. \A i \in LinesAt(t, m), j \in LinesAt(t, x) : i < j
    BY <1>7
  <2>4. \A i \in LinesAt(t, m) : i < b + 1
    BY <1>8, <1>9
  <2> QED
    BY <2>2, <2>3, <2>4
<1>14. u.refs \subseteq 1 .. b + 1
  <2>1. 1 .. b \subseteq 1 .. b + 1
    OBVIOUS
  <2> QED
    BY <1>5, <1>7, <2>1
<1>15. Filed(u, b + 1)
  BY <1>5, <1>10, <1>11, <1>12, <1>13, <1>14 DEF Filed
<1>16. Found(u) = Found(t) \cup {b + 1}
  BY <1>5, <1>6 DEF Found
<1> QED
  BY <1>15, <1>16

\* add_child closes the deepest block if it cannot contain the new one; that
\* moves no text.
LEMMA AddChildFiled ==
  ASSUME NEW t, NEW c, NEW q, NEW l, ShapeCore(t, c, q, l), NEW r, IsBlock(r), r.open,
         r.type = "item" => t.block[c].type = "list",
         NEW u, u = AddChild(t, c, r),
         NEW b \in Nat, Filed(t, b), NEW d \in Nat, b <= d, IsText(r.content, d),
         \A x \in LinesIn(r.content) : b < x,
         r.content # <<>> => r.type \in Holders
  PROVE  Filed(u, d) /\ Found(u) = Found(t) \cup LinesIn(r.content)
<1> DEFINE k == t.kids
           path == Acceptor(t, c, r.type)
           v == FoldLeft(Finalized, t, Front(path))
           a == FreeAddress(v)
<1>1. u = Grown(v, Last(path), a, r) /\ a = FreeAddress(v)
  BY DEF AddChild, Grown
<1>2. WellTree(t) /\ c \in DOMAIN k
  BY DEF ShapeCore
<1>3. IF CanContain(t.block[c].type, r.type) THEN path = <<c>>
      ELSE /\ c # Root /\ CanContain(t.block[Par(k, c)].type, r.type)
           /\ path = <<c, Par(k, c)>>
  BY <1>2, AcceptorIs
<1>4. /\ ShapeCore(v, Last(path), q, l) /\ CanContain(v.block[Last(path)].type, r.type)
      /\ Filed(v, b) /\ Found(v) = Found(t)
  <2>1. CASE CanContain(t.block[c].type, r.type)
    <3>1. Last(path) = c /\ Front(path) = <<>>
      BY <1>3, <2>1, EndsOfOne
    <3>2. v = t
      BY <3>1, FoldNone
    <3> HIDE DEF v, path, a
    <3> QED
      BY <2>1, <3>1, <3>2
  <2>2. CASE ~CanContain(t.block[c].type, r.type)
    <3> DEFINE p == Par(k, c)
    <3>1. c # Root /\ CanContain(t.block[p].type, r.type) /\ path = <<c, p>>
      BY <1>3, <2>2
    <3> HIDE DEF path
    <3>2. Last(path) = p /\ Front(path) = <<c>>
      BY <3>1, EndsOfTwo
    <3>3. v = Finalized(t, c)
      BY <3>2, FoldOne
    <3> HIDE DEF v, a
    <3>4. ShapeCore(v, p, q, l)
      BY <3>1, <3>3, TipShut
    <3>5. Shut(t, v, c) /\ p \in DOMAIN v.kids
      BY <1>2, <3>3, <3>4, FinalizedShuts DEF ShapeCore
    <3>6. v.block[p].type = t.block[p].type
      <4>1. t.block[p].type # "paragraph"
        BY <3>1 DEF CanContain
      <4> QED
        BY <3>5, <4>1 DEF Shut
    <3>7. Filed(v, b) /\ Found(v) = Found(t)
      BY <1>2, <3>3, FinalizedFiled
    <3> QED
      BY <3>1, <3>2, <3>4, <3>6, <3>7
  <2> QED
    BY <2>1, <2>2
<1> HIDE DEF v, path, a
<1>5. Filed(u, d) /\ Found(u) = Found(v) \cup LinesIn(r.content)
  BY <1>1, <1>4, AppendedFiled
<1> QED
  BY <1>4, <1>5

-----------------------------------------------------------------------------
(***************************************************************************)
(* The text at every point of S_process_line.                              *)
(***************************************************************************)

Texts == {"text", "reference"}

\* A line is being read.
Busy == {"match", "open", "text", "lazy", "close"}

\* How many lines have been read to their ends.
Through(ph, l) == IF ph \in Busy THEN l - 1 ELSE l

\* The tree has the text of the first b lines.
Holds(t, b, lines) ==
  Filed(t, b) /\ \A i \in 1 .. b : lines[i].kind \in Texts => i \in Found(t)

\* Of a line of text, what was not read yet still has the text.
Reads(ph, l, lines, x) ==
  /\ lines \in Seq(Lines) /\ l = Len(lines)
  /\ x = [prefix |-> x.prefix, kind |-> x.kind]
  /\ ph \in Busy => l # 0 /\ (lines[l].kind \in Texts => x.kind = lines[l].kind)

TextInv ==
  /\ phase \in Busy \cup {"idle", "finish", "done"}
  /\ Holds(Tree, Through(phase, line_number), read)
  /\ Reads(phase, line_number, read, rest)
  /\ phase = "lazy" => block[current].type = "paragraph"

\* What is skipped of a line is not its text.
LEMMA SkipIs ==
  ASSUME NEW x, x = [prefix |-> x.prefix, kind |-> x.kind], NEW k
  PROVE  Skip(x, k) = [prefix |-> Skip(x, k).prefix, kind |-> x.kind]
<1>1. PICK p, y : p = x.prefix /\ y = x.kind
  OBVIOUS
<1>2. PICK s : s = SubSeq(p, k + 1, Len(p))
  OBVIOUS
<1>3. x = [prefix |-> p, kind |-> y]
  BY <1>1
<1>4. Skip(x, k) = [x EXCEPT !.prefix = s]
  BY <1>1, <1>2 DEF Skip
<1>5. Skip(x, k) = [prefix |-> s, kind |-> y]
  BY <1>3, <1>4
<1> QED
  BY <1>1, <1>5

\* Nor is its indentation.
LEMMA FromNonspaceIs ==
  ASSUME NEW x, x = [prefix |-> x.prefix, kind |-> x.kind]
  PROVE  FromNonspace(x) = [prefix |-> FromNonspace(x).prefix, kind |-> x.kind]
  BY SkipIs DEF FromNonspace

\* A line of which nothing but a kind is left.
LEMMA KindIs ==
  ASSUME TextInv, NEW k, IsKind(k)
  PROVE  rest.kind = k
<1>1. rest = [prefix |-> rest.prefix, kind |-> rest.kind]
  BY DEF TextInv, Reads
<1>2. FromNonspace(rest).kind = rest.kind
  BY <1>1, FromNonspaceIs
<1> QED
  BY <1>2 DEF IsKind

\* The text of more lines, if those have none.
LEMMA FiledOfMore ==
  ASSUME NEW t, NEW b \in Nat, NEW d \in Nat, b <= d, Filed(t, b)
  PROVE  Filed(t, d)
<1>1. 1 .. b \subseteq 1 .. d
  OBVIOUS
<1>2. \A n \in DOMAIN t.kids : IsText(t.block[n].content, d)
  <2> TAKE n \in DOMAIN t.kids
  <2>1. IsText(t.block[n].content, b)
    BY DEF Filed
  <2> QED
    BY <2>1, TextOfMore
<1> QED
  BY <1>1, <1>2 DEF Filed

\* While a line is read.
LEMMA BusyFacts ==
  ASSUME TextInv, phase \in Busy
  PROVE  \E b \in Nat :
           /\ line_number = b + 1 /\ line_number - 1 = b
           /\ Filed(Tree, b) /\ Through(phase, line_number) = b
           /\ \A i \in 1 .. b : read[i].kind \in Texts => i \in Found(Tree)
<1>1. line_number \in Nat \ {0}
  BY DEF TextInv, Reads
<1>2. PICK b \in Nat : b = line_number - 1
  BY <1>1
<1>3. Through(phase, line_number) = b
  BY <1>2 DEF Through
<1> QED
  BY <1>1, <1>2, <1>3 DEF TextInv, Holds

\* Reading goes on, no text was added.
LEMMA StaysBusy ==
  ASSUME TextInv, phase \in Busy, phase' \in Busy,
         phase' = "lazy" => block'[current'].type = "paragraph",
         line_number' = line_number, read' = read,
         NEW b \in Nat, line_number = b + 1, Filed(Tree', b), Found(Tree) \subseteq Found(Tree'),
         NEW x, rest' = x, x = [prefix |-> x.prefix, kind |-> x.kind],
         rest.kind \in Texts => x.kind = rest.kind
  PROVE  TextInv'
<1>1. PICK u : u = Tree'
  OBVIOUS
<1>2. Filed(u, b) /\ Found(Tree) \subseteq Found(u)
  BY <1>1
<1>3. Through(phase', line_number') = b
  BY DEF Through
<1>4. \A i \in 1 .. b : read[i].kind \in Texts => i \in Found(u)
  <2>1. \A i \in 1 .. b : read[i].kind \in Texts => i \in Found(Tree)
    BY BusyFacts
  <2> QED
    BY <1>2, <2>1
<1>5. Holds(Tree', Through(phase', line_number'), read')
  BY <1>1, <1>2, <1>3, <1>4 DEF Holds
<1>6. Reads(phase', line_number', read', rest')
  <2>1. /\ read \in Seq(Lines) /\ line_number = Len(read) /\ line_number # 0
        /\ read[line_number].kind \in Texts => rest.kind = read[line_number].kind
    BY DEF TextInv, Reads
  <2>2. read[line_number].kind \in Texts => x.kind = read[line_number].kind
    BY <2>1
  <2> QED
    BY <2>1, <2>2 DEF Reads
<1> QED
  BY <1>5, <1>6 DEF TextInv

\* The line is done with.
LEMMA LineFiled ==
  ASSUME TextInv, phase \in Busy, phase' = "idle",
         line_number' = line_number, read' = read, rest' = rest,
         NEW b \in Nat, line_number = b + 1, Filed(Tree', b + 1),
         Found(Tree) \subseteq Found(Tree'), rest.kind \in Texts => b + 1 \in Found(Tree')
  PROVE  TextInv'
<1>1. PICK u : u = Tree'
  OBVIOUS
<1>2. /\ Filed(u, b + 1) /\ Found(Tree) \subseteq Found(u)
      /\ rest.kind \in Texts => b + 1 \in Found(u)
  BY <1>1
<1>3. Through(phase', line_number') = b + 1
  BY DEF Through, Busy
<1>4. /\ read \in Seq(Lines) /\ line_number = Len(read)
      /\ rest = [prefix |-> rest.prefix, kind |-> rest.kind]
      /\ read[line_number].kind \in Texts => rest.kind = read[line_number].kind
  BY DEF TextInv, Reads
<1>5. \A i \in 1 .. b + 1 : read[i].kind \in Texts => i \in Found(u)
  <2> TAKE i \in 1 .. b + 1
  <2>1. i \in 1 .. b \/ i = b + 1
    OBVIOUS
  <2>2. i \in 1 .. b => (read[i].kind \in Texts => i \in Found(Tree))
    BY BusyFacts
  <2> QED
    BY <1>2, <1>4, <2>1, <2>2
<1>6. Holds(Tree', Through(phase', line_number'), read')
  BY <1>1, <1>2, <1>3, <1>5 DEF Holds
<1>7. Reads(phase', line_number', read', rest')
  BY <1>4 DEF Reads, Busy
<1> QED
  BY <1>6, <1>7 DEF TextInv

\* In the beginning there is no text.
LEMMA InitFiled == Init => TextInv
<1> SUFFICES ASSUME Init PROVE TextInv
  OBVIOUS
<1> DEFINE t == Tree
<1>1. t.kids = [n \in {Root} |-> <<>>] /\ t.refs = {} /\ t.block[Root].content = <<>>
  BY DEF Init, Tree, Made
<1>2. DOMAIN t.kids = {Root}
  BY <1>1
<1> HIDE DEF t
<1>3. \A n \in DOMAIN t.kids : t.block[n].content = <<>> /\ LinesAt(t, n) = {}
  <2>1. DOMAIN <<>> = {}
    OBVIOUS
  <2>2. LinesIn(<<>>) = {}
    BY <2>1 DEF LinesIn
  <2> QED
    BY <1>1, <1>2, <2>2 DEF LinesAt
<1>4. IsText(<<>>, 0)
  <2>1. <<>> \in Seq(Entry) /\ DOMAIN <<>> = {}
    OBVIOUS
  <2> QED
    BY <2>1 DEF IsText, LinesIn
<1>5. Filed(t, 0)
  BY <1>1, <1>3, <1>4 DEF Filed
<1>6. Holds(t, 0, read)
  BY <1>5 DEF Holds
<1>7. Through(phase, line_number) = 0 /\ phase = "idle" /\ phase \notin Busy
  BY DEF Init, Through, Busy
<1>8. Reads(phase, line_number, read, rest)
  BY <1>7 DEF Reads, Init
<1> QED
  BY <1>6, <1>7, <1>8 DEF TextInv, t

\* The line that is read has its text before it.
LEMMA ReadLineFiled ==
  ASSUME TextInv, NEW l \in Lines, ReadLine(l)
  PROVE  TextInv'
<1>1. /\ phase = "idle" /\ phase' = "match" /\ line_number' = line_number + 1
      /\ read' = Append(read, l) /\ rest' = l /\ Tree' = Tree
  BY DEF ReadLine, Tree
<1>2. /\ read \in Seq(Lines) /\ line_number = Len(read) /\ line_number \in Nat
      /\ Holds(Tree, line_number, read)
  BY <1>1 DEF TextInv, Reads, Through, Busy
<1>3. /\ read' \in Seq(Lines) /\ line_number' = Len(read') /\ line_number' # 0
      /\ read'[line_number'] = l /\ \A i \in 1 .. line_number : read'[i] = read[i]
  BY <1>1, <1>2
<1>4. Through(phase', line_number') = line_number
  BY <1>1, <1>2 DEF Through, Busy
<1>5. Holds(Tree', line_number, read')
  BY <1>1, <1>2, <1>3 DEF Holds
<1>6. l = [prefix |-> l.prefix, kind |-> l.kind]
  BY LinesAssumption
<1>7. Reads(phase', line_number', read', rest')
  BY <1>1, <1>3, <1>6 DEF Reads
<1> QED
  BY <1>1, <1>4, <1>5, <1>7 DEF TextInv, Busy

\* Matching a block leaves the text.
LEMMA DescendFiled ==
  ASSUME IInv, TextInv, Descend
  PROVE  TextInv'
<1> DEFINE n == Last(kids[container])
           x == IF block[n].type = "html_block" THEN HtmlIndent(block[n]) ELSE block[n].indent
<1>1. PICK t : t = Tree
  OBVIOUS
<1>2. /\ WellTree(t) /\ container \in Path(t.kids, current) /\ current \in DOMAIN t.kids
      /\ kids[container] # <<>> /\ kids = t.kids /\ block = t.block
  BY <1>1 DEF IInv, Sound, Rest, Descend, HasOpenChild, Below, Tree
<1>3. IsTree(t) /\ n \in DOMAIN t.kids
  BY <1>2, PathWithin, LastOnList DEF WellTree
<1>4. PICK u : u = Tree'
  OBVIOUS
<1>5. /\ u.kids = t.kids /\ u.refs = t.refs
      /\ u.block = [t.block EXCEPT ![n] = [@ EXCEPT !.indent = x]]
  BY <1>1, <1>4 DEF Descend, Tree, Below
<1> HIDE DEF x
<1>6. \A m \in DOMAIN t.kids : /\ u.block[m].content = t.block[m].content
                               /\ u.block[m].type = t.block[m].type
  <2> TAKE m \in DOMAIN t.kids
  <2>1. IsBlock(t.block[m]) /\ m \in DOMAIN t.block
    BY <1>3 DEF IsTree
  <2>2. u.block[m] = t.block[m] \/ u.block[m] = [t.block[m] EXCEPT !.indent = x]
    BY <1>5, <2>1
  <2> QED
    BY <2>1, <2>2 DEF IsBlock, Fields
<1>7. PICK b \in Nat : line_number = b + 1 /\ Filed(t, b)
  BY <1>1, BusyFacts DEF Descend, Busy
<1>8. Filed(u, b) /\ Found(u) = Found(t)
  BY <1>5, <1>6, <1>7, SameText
<1>9. rest' = After(Below) /\ rest = [prefix |-> rest.prefix, kind |-> rest.kind]
  BY DEF Descend, TextInv, Reads
<1>10. \/ After(Below) = rest \/ After(Below) = FromNonspace(rest)
       \/ \E k : After(Below) = Skip(rest, k)
  BY DEF After
<1>11. After(Below) = [prefix |-> After(Below).prefix, kind |-> rest.kind]
  BY <1>9, <1>10, SkipIs, FromNonspaceIs
<1>12. PICK y : y = After(Below)
  OBVIOUS
<1>13. rest' = y /\ y = [prefix |-> y.prefix, kind |-> y.kind] /\ y.kind = rest.kind
  BY <1>9, <1>11, <1>12
<1>14. /\ phase = "match" /\ phase' = "match" /\ line_number' = line_number /\ read' = read
  BY DEF Descend
<1> QED
  BY <1>1, <1>4, <1>7, <1>8, <1>13, <1>14, StaysBusy DEF Busy

\* The end of fenced code is no text.
LEMMA CloseFenceFiled ==
  ASSUME IInv, TextInv, CloseFence
  PROVE  TextInv'
<1> DEFINE n == Last(kids[container])
<1>1. PICK t, v : t = Tree /\ v = Finalized(t, n)
  OBVIOUS
<1>2. /\ WellTree(t) /\ container \in Path(t.kids, current) /\ current \in DOMAIN t.kids
      /\ kids[container] # <<>> /\ kids = t.kids
  BY <1>1 DEF IInv, Sound, Rest, CloseFence, HasOpenChild, Below, Tree
<1>3. n \in DOMAIN t.kids
  BY <1>2, PathWithin, LastOnList DEF WellTree
<1>4. PICK b \in Nat : line_number = b + 1 /\ Filed(t, b)
  BY <1>1, BusyFacts DEF CloseFence, Busy
<1>5. Filed(v, b) /\ Found(v) = Found(t)
  BY <1>1, <1>2, <1>3, <1>4, FinalizedFiled
<1>6. Filed(v, b + 1)
  <2>1. b + 1 \in Nat /\ b <= b + 1
    OBVIOUS
  <2> QED
    BY <1>5, <2>1, FiledOfMore
<1>7. Tree' = v
  <2>1. Becomes(v)
    BY <1>1 DEF CloseFence, Below
  <2>2. Shut(t, v, n)
    BY <1>1, <1>2, <1>3, FinalizedShuts
  <2> QED
    BY <2>1, <2>2, TreeIs DEF Shut, WellTree
<1>8. rest.kind = "fence"
  BY KindIs DEF CloseFence, ClosesFence
<1>9. rest.kind \notin Texts
  BY <1>8 DEF Texts
<1>10. /\ phase = "match" /\ phase' = "idle" /\ line_number' = line_number /\ read' = read
       /\ rest' = rest
  BY DEF CloseFence, reading
<1> QED
  BY <1>1, <1>4, <1>5, <1>6, <1>7, <1>9, <1>10, LineFiled DEF Busy

\* The tree and the line are left alone.
LEMMA TurnFiled ==
  ASSUME TextInv, phase \in Busy, phase' \in Busy \ {"lazy"}, Tree' = Tree,
         line_number' = line_number, read' = read, rest' = rest
  PROVE  TextInv'
<1>1. PICK b \in Nat : line_number = b + 1 /\ Filed(Tree, b)
  BY BusyFacts
<1>2. rest = [prefix |-> rest.prefix, kind |-> rest.kind]
  BY DEF TextInv, Reads
<1>3. Filed(Tree', b) /\ Found(Tree) \subseteq Found(Tree') /\ phase' # "lazy"
  BY <1>1
<1> QED
  BY <1>1, <1>2, <1>3, StaysBusy

\* Before the line is opened any further.
LEMMA MatchedFiled ==
  ASSUME TextInv, Matched \/ OpenNothing
  PROVE  TextInv'
<1>1. /\ phase \in Busy /\ phase' \in Busy \ {"lazy"} /\ Tree' = Tree
      /\ line_number' = line_number /\ read' = read /\ rest' = rest
  BY DEF Matched, OpenNothing, Busy, Tree, reading
<1> QED
  BY <1>1, TurnFiled

\* No text.
LEMMA NoText ==
  ASSUME NEW b
  PROVE  IsText(<<>>, b) /\ LinesIn(<<>>) = {}
<1>1. <<>> \in Seq(Entry) /\ DOMAIN <<>> = {}
  OBVIOUS
<1> QED
  BY <1>1 DEF IsText, LinesIn

\* A block is opened, without text.
LEMMA OpenFiled ==
  ASSUME TextInv, phase = "open",
         NEW t, NEW n, NEW r, NEW x, Open(t, n, r, x), IsBlock(r), r.open, r.content = <<>>,
         r.type = "item" => t.block[n].type = "list",
         ShapeCore(t, n, current, last_matched),
         NEW b \in Nat, line_number = b + 1, Filed(t, b), Found(Tree) \subseteq Found(t),
         x = [prefix |-> x.prefix, kind |-> x.kind], rest.kind \in Texts => x.kind = rest.kind
  PROVE  TextInv'
<1>1. PICK u, a : u = AddChild(t, n, r) /\ a = Added(t, n, r)
  OBVIOUS
<1>2. Shape(u, a, current, last_matched)
  BY <1>1, AddChildShapes
<1>3. /\ Becomes(u) /\ phase' \in {"open", "text"} /\ rest' = x
      /\ line_number' = line_number /\ read' = read
  BY <1>1 DEF Open
<1>4. WellTree(u)
  BY <1>2 DEF Shape, ShapeCore
<1>5. Tree' = u
  BY <1>3, <1>4, TreeIs DEF WellTree
<1>6. IsText(r.content, b) /\ LinesIn(r.content) = {} /\ b <= b
  BY NoText
<1>7. Filed(u, b) /\ Found(u) = Found(t)
  <2>1. Filed(u, b) /\ Found(u) = Found(t) \cup LinesIn(r.content)
    BY <1>1, <1>6, AddChildFiled
  <2> QED
    BY <1>6, <2>1
<1>8. Filed(Tree', b) /\ Found(Tree) \subseteq Found(Tree')
  BY <1>5, <1>7
<1>9. phase \in Busy /\ phase' \in Busy /\ phase' # "lazy"
  BY <1>3 DEF Busy
<1> QED
  BY <1>3, <1>8, <1>9, StaysBusy

\* What a turn of the loop starts from.
LEMMA OpensText ==
  ASSUME TextInv, phase = "open"
  PROVE  \E b \in Nat : line_number = b + 1 /\ Filed(Tree, b)
  BY BusyFacts DEF Busy

\* A block other than a list item is opened; a line that has text keeps it.
LEMMA OpenOneFiled ==
  ASSUME IInv, TextInv, phase = "open",
         \/ OpenQuote \/ OpenHeading \/ OpenFence \/ OpenHtml \/ OpenRule
         \/ OpenFootnote \/ OpenCode
  PROVE  TextInv'
<1> DEFINE opens(r, l) == Open(Tree, container, r, l)
           keeps(l) == /\ l = [prefix |-> l.prefix, kind |-> l.kind]
                       /\ rest.kind \in Texts => l.kind = rest.kind
<1>1. ASSUME NEW r, NEW l, opens(r, l), keeps(l), IsBlock(r), r.open, r.type # "item",
             r.content = <<>>
      PROVE  TextInv'
  <2>1. PICK b \in Nat : line_number = b + 1 /\ Filed(Tree, b)
    BY OpensText
  <2>2. ShapeCore(Tree, container, current, last_matched)
    BY OpensFrom
  <2> QED
    BY <1>1, <2>1, <2>2, OpenFiled
<1>2. ASSUME NEW ty \in BlockTypes \ {"item"}, NEW l, opens(Made(ty, line_number), l), keeps(l)
      PROVE  TextInv'
  <2>1. Made(ty, line_number).content = <<>>
    BY DEF Made
  <2> HIDE DEF opens, keeps
  <2> QED
    BY <1>1, <1>2, <2>1, MadeIsBlock
<1>3. keeps(rest)
  BY DEF TextInv, Reads
<1>4. ASSUME NEW l, keeps(l), NEW k PROVE keeps(Skip(l, k))
  <2>1. PICK y : y = Skip(l, k)
    OBVIOUS
  <2>2. y = [prefix |-> y.prefix, kind |-> l.kind]
    BY <1>4, <2>1, SkipIs
  <2> QED
    BY <1>4, <2>1, <2>2
<1>5. ASSUME NEW l, keeps(l) PROVE keeps(FromNonspace(l))
  BY <1>4, <1>5 DEF FromNonspace
<1>6. ASSUME NEW k, IsKind(k), k \notin Texts
      PROVE  keeps(Nothing) /\ keeps([Nothing EXCEPT !.kind = "text"])
  <2>1. rest.kind = k
    BY <1>6, KindIs
  <2> QED
    BY <1>6, <2>1 DEF Nothing
<1>7. /\ Made("code_block", line_number).content = <<>>
      /\ Made("html_block", line_number).content = <<>>
  BY DEF Made
<1> HIDE DEF keeps
<1>8. CASE OpenQuote
  <2>1. keeps(Skip(rest, indent + 1))
    BY <1>3, <1>4
  <2> QED
    BY <1>2, <1>8, <2>1 DEF OpenQuote, BlockTypes
<1>9. CASE OpenHeading
  <2>1. IsKind("heading")
    BY <1>9 DEF OpenHeading, MayOpen, Start
  <2>2. keeps([Nothing EXCEPT !.kind = "text"])
    BY <1>6, <2>1 DEF Texts
  <2> QED
    BY <1>2, <1>9, <2>2 DEF OpenHeading, BlockTypes, AcceptsLines
<1>10. CASE OpenRule
  <2>1. IsKind("rule")
    BY <1>10 DEF OpenRule, MayOpen, Start
  <2>2. keeps(Nothing)
    BY <1>6, <2>1 DEF Texts
  <2> QED
    BY <1>2, <1>10, <2>2 DEF OpenRule, BlockTypes
<1>11. CASE OpenFootnote
  <2>1. keeps(FromNonspace(Skip(FromNonspace(rest), 1)))
    BY <1>3, <1>4, <1>5
  <2> QED
    BY <1>2, <1>11, <2>1 DEF OpenFootnote, BlockTypes
<1>12. CASE OpenCode
  <2>1. keeps(Skip(rest, 2))
    BY <1>3, <1>4
  <2> QED
    BY <1>2, <1>12, <2>1 DEF OpenCode, BlockTypes, AcceptsLines
<1>13. CASE OpenFence
  <2> DEFINE m == Made("code_block", line_number)
             r == [m EXCEPT !.fenced = TRUE, !.indent = indent]
  <2>1. IsBlock(m) /\ m.open /\ m.type = "code_block" /\ m.content = <<>>
    BY <1>7, MadeIsBlock DEF BlockTypes, AcceptsLines
  <2>2. opens(r, Nothing) /\ IsKind("fence")
    <3>1. opens(r, Nothing) /\ Start = "fence"
      BY <1>13 DEF OpenFence, MayOpen
    <3> QED
      BY <3>1 DEF Start
  <2>3. keeps(Nothing)
    BY <1>6, <2>2 DEF Texts
  <2> HIDE DEF m, opens
  <2>4. IsBlock(r) /\ r.open /\ r.type # "item" /\ r.content = <<>>
    BY <2>1 DEF IsBlock, Fields
  <2> QED
    BY <1>1, <2>2, <2>3, <2>4
<1>14. CASE OpenHtml
  <2> DEFINE m == Made("html_block", line_number)
             r == [m EXCEPT !.html = IF IsKind("comment") THEN 2 ELSE 6]
  <2>1. IsBlock(m) /\ m.open /\ m.type = "html_block" /\ m.content = <<>>
    BY <1>7, MadeIsBlock DEF BlockTypes
  <2>2. opens(r, rest)
    BY <1>14 DEF OpenHtml
  <2> HIDE DEF m, opens
  <2>3. IsBlock(r) /\ r.open /\ r.type # "item" /\ r.content = <<>>
    BY <2>1 DEF IsBlock, Fields
  <2> QED
    BY <1>1, <1>3, <2>2, <2>3
<1> QED
  BY <1>8, <1>9, <1>10, <1>11, <1>12, <1>13, <1>14

\* An item, and the list made for it, have no text.
LEMMA OpenItemFiled ==
  ASSUME IInv, TextInv, OpenItem
  PROVE  TextInv'
<1> DEFINE after == Skip(FromNonspace(rest), 1)
           wide == Indentation(after) = 1 /\ ~IsBlank(after)
           bullet == FromNonspace(rest).prefix[1]
           m == Made("item", line_number)
           r == [m EXCEPT !.bullet = bullet, !.marker_offset = indent,
                          !.padding = IF wide THEN 2 ELSE 1]
           list == [r EXCEPT !.type = "list"]
           l == IF wide THEN Skip(after, 1) ELSE after
<1>1. /\ phase = "open"
      /\ IF type = "list" /\ block[container].bullet = bullet
         THEN Open(Tree, container, r, l)
         ELSE Open(AddChild(Tree, container, list), Added(Tree, container, list), r, l)
  BY DEF OpenItem, MayOpen
<1>2. IsBlock(m) /\ m.open /\ m.type = "item" /\ m.content = <<>>
  BY MadeIsBlock DEF BlockTypes, Made
<1>3. l = [prefix |-> l.prefix, kind |-> l.kind] /\ l.kind = rest.kind
  <2>1. PICK x, y, z : x = FromNonspace(rest) /\ y = Skip(x, 1) /\ z = Skip(y, 1)
    OBVIOUS
  <2>2. rest = [prefix |-> rest.prefix, kind |-> rest.kind]
    BY DEF TextInv, Reads
  <2>3. x = [prefix |-> x.prefix, kind |-> x.kind] /\ x.kind = rest.kind
    BY <2>1, <2>2, FromNonspaceIs
  <2>4. y = [prefix |-> y.prefix, kind |-> y.kind] /\ y.kind = rest.kind
    BY <2>1, <2>3, SkipIs
  <2>5. z = [prefix |-> z.prefix, kind |-> z.kind] /\ z.kind = rest.kind
    BY <2>1, <2>4, SkipIs
  <2>6. l = y \/ l = z
    BY <2>1
  <2> QED
    BY <2>4, <2>5, <2>6
<1> HIDE DEF m, l, wide, bullet
<1>4. IsBlock(r) /\ r.open /\ r.type = "item" /\ r.content = <<>>
  BY <1>2 DEF IsBlock, Fields
<1> HIDE DEF r
<1>5. IsBlock(list) /\ list.open /\ list.type = "list" /\ list.content = <<>>
  BY <1>4 DEF IsBlock, Fields, BlockTypes
<1> HIDE DEF list
<1>6. ShapeCore(Tree, container, current, last_matched) /\ Tree.block = block
  BY <1>1, OpensFrom
<1>7. PICK b \in Nat : line_number = b + 1 /\ Filed(Tree, b)
  BY <1>1, OpensText
<1>8. CASE type = "list" /\ block[container].bullet = bullet
  <2>1. Open(Tree, container, r, l) /\ Tree.block[container].type = "list"
    BY <1>1, <1>6, <1>8 DEF type
  <2> QED
    BY <1>1, <1>3, <1>4, <1>6, <1>7, <2>1, OpenFiled
<1>9. CASE ~(type = "list" /\ block[container].bullet = bullet)
  <2>1. PICK u, a : u = AddChild(Tree, container, list) /\ a = Added(Tree, container, list)
    OBVIOUS
  <2>2. list.type = "item" => Tree.block[container].type = "list"
    BY <1>5
  <2>3. Shape(u, a, current, last_matched) /\ u.block[a] = list
    BY <1>5, <1>6, <2>1, <2>2, AddChildShapes
  <2>4. Open(u, a, r, l)
    BY <1>1, <1>9, <2>1
  <2>5. ShapeCore(u, a, current, last_matched) /\ u.block[a].type = "list"
    BY <1>5, <2>3 DEF Shape
  <2>6. IsText(list.content, b) /\ LinesIn(list.content) = {} /\ b <= b
    BY <1>5, NoText
  <2>7. Filed(u, b) /\ Found(u) = Found(Tree)
    <3>1. Filed(u, b) /\ Found(u) = Found(Tree) \cup LinesIn(list.content)
      BY <1>5, <1>6, <1>7, <2>1, <2>2, <2>6, AddChildFiled
    <3> QED
      BY <2>6, <3>1
  <2> QED
    BY <1>1, <1>3, <1>4, <1>7, <2>4, <2>5, <2>7, OpenFiled
<1> QED
  BY <1>8, <1>9

\* The text of a paragraph becomes that of a heading, but for its definitions.
LEMMA SetextHeadingFiled ==
  ASSUME IInv, TextInv, SetextHeading
  PROVE  TextInv'
<1> DEFINE left == Resolved(Tree, container).block[container].content # <<>>
<1>1. PICK t, n : t = Resolved(Tree, container) /\ n = container
  OBVIOUS
<1>2. /\ phase = "open" /\ block[container].type = "paragraph" /\ IsKind("setext")
      /\ Becomes(IF left THEN [t EXCEPT !.block[n] = [@ EXCEPT !.type = "heading", !.setext = TRUE]]
                 ELSE t)
      /\ phase' = "text" /\ rest' = (IF left THEN Nothing ELSE rest)
      /\ line_number' = line_number /\ read' = read
  <2>1. phase = "open" /\ Start = "setext"
    BY DEF SetextHeading, MayOpen
  <2>2. block[container].type = "paragraph" /\ IsKind("setext")
    BY <2>1 DEF Start, type
  <2> QED
    BY <1>1, <2>1, <2>2 DEF SetextHeading
<1> HIDE DEF left
<1>3. PICK s : s = Tree
  OBVIOUS
<1>4. WellTree(s) /\ IsTree(s) /\ n \in DOMAIN s.kids /\ s.block[n].type = "paragraph"
  BY <1>1, <1>2, <1>3, OpensFrom DEF WellTree
<1>5. PICK b \in Nat : line_number = b + 1 /\ Filed(s, b)
  BY <1>2, <1>3, OpensText
<1>6. Filed(t, b) /\ Found(t) = Found(s)
  BY <1>1, <1>3, <1>4, <1>5, ResolvedFiled
<1>7. Alike(s, t)
  BY <1>1, <1>3, <1>4, ResolvedAlike
<1>8. IsTree(t) /\ n \in DOMAIN t.kids
  BY <1>4, <1>7 DEF Alike
<1> DEFINE g == [t.block[n] EXCEPT !.type = "heading", !.setext = TRUE]
           u == [block |-> [t.block EXCEPT ![n] = g], kids |-> t.kids, refs |-> t.refs]
<1>9. [t EXCEPT !.block[n] = [@ EXCEPT !.type = "heading", !.setext = TRUE]] = u
  BY <1>8 DEF IsTree
<1>10. IsBlock(g) /\ g.type = "heading" /\ g.content = t.block[n].content
  <2>1. IsBlock(t.block[n])
    BY <1>8 DEF IsTree
  <2> QED
    BY <2>1 DEF IsBlock, Fields, BlockTypes, AcceptsLines
<1> HIDE DEF g
<1>11. /\ u.kids = t.kids /\ u.refs = t.refs
       /\ \A m \in DOMAIN t.kids : u.block[m] = IF m = n THEN g ELSE t.block[m]
  BY <1>8 DEF IsTree
<1>12. IsTree(u)
  <2>1. u.block = [m \in DOMAIN u.kids |-> u.block[m]]
    BY <1>8 DEF IsTree
  <2>2. \A m \in DOMAIN u.kids : IsBlock(u.block[m])
    BY <1>8, <1>10, <1>11 DEF IsTree
  <2> QED
    BY <2>1, <2>2 DEF IsTree
<1> HIDE DEF u
<1>13. Filed(u, b) /\ Found(u) = Found(t)
  <2>1. \A m \in DOMAIN t.kids : /\ u.block[m].content = t.block[m].content
                                 /\ t.block[m].type \in Holders => u.block[m].type \in Holders
    BY <1>10, <1>11 DEF Holders, AcceptsLines
  <2> QED
    BY <1>6, <1>11, <2>1, SameText
<1>14. PICK v : v = IF left THEN u ELSE t
  OBVIOUS
<1>15. Tree' = v
  <2>1. Becomes(v) /\ IsTree(v)
    BY <1>2, <1>8, <1>9, <1>12, <1>14
  <2> QED
    BY <2>1, TreeIs
<1>16. Filed(Tree', b) /\ Found(Tree) \subseteq Found(Tree')
  BY <1>3, <1>6, <1>13, <1>14, <1>15
<1>17. rest.kind = "setext" /\ rest = [prefix |-> rest.prefix, kind |-> rest.kind]
  BY <1>2, KindIs DEF TextInv, Reads
<1>18. PICK x : x = IF left THEN Nothing ELSE rest
  OBVIOUS
<1>19. /\ rest' = x /\ x = [prefix |-> x.prefix, kind |-> x.kind]
       /\ rest.kind \in Texts => x.kind = rest.kind
  BY <1>2, <1>17, <1>18 DEF Nothing, Texts
<1>20. phase \in Busy /\ phase' \in Busy /\ phase' # "lazy"
  BY <1>2 DEF Busy
<1> QED
  BY <1>2, <1>5, <1>16, <1>19, <1>20, StaysBusy

\* Blank line flags are no text; a line is lazy only below a paragraph.
LEMMA MarkBlankFiled ==
  ASSUME IInv, TextInv, MarkBlank
  PROVE  TextInv'
<1> DEFINE f(n) ==
       IF n = container THEN [block[n] EXCEPT !.last_line_blank = LastLineBlank(n)]
       ELSE IF n \in Ancestors(container) THEN [block[n] EXCEPT !.last_line_blank = FALSE]
       ELSE IF blank /\ kids[container] # <<>> /\ n = Last(kids[container])
       THEN [block[n] EXCEPT !.last_line_blank = TRUE]
       ELSE block[n]
<1>1. PICK t, u : t = Tree /\ u = Tree'
  OBVIOUS
<1>2. /\ phase = "text" /\ phase' = (IF IsLazy THEN "lazy" ELSE "close")
      /\ block' = [n \in DOMAIN block |-> f(n)]
      /\ kids' = kids /\ refmap' = refmap /\ rest' = rest /\ current' = current
      /\ line_number' = line_number /\ read' = read
  BY DEF MarkBlank, reading
<1>3. /\ WellTree(t) /\ IsTree(t) /\ t.block = block /\ t.kids = kids /\ t.refs = refmap
      /\ current \in DOMAIN kids \/ current = last_matched
  BY <1>1, <1>2 DEF IInv, Sound, Tree, Shape, ShapeCore, WellTree
<1>4. DOMAIN block = DOMAIN t.kids
  BY <1>3 DEF IsTree
<1>5. \A n \in DOMAIN t.kids :
        \/ f(n) = block[n]
        \/ \E v : f(n) = [block[n] EXCEPT !["last_line_blank"] = v]
  OBVIOUS
<1>6. /\ u.kids = t.kids /\ u.refs = t.refs /\ u.block = block'
      /\ \A n \in DOMAIN t.kids : u.block[n] = f(n)
  BY <1>1, <1>2, <1>3, <1>4 DEF Tree
<1> HIDE DEF f
<1>7. ASSUME NEW n \in DOMAIN t.kids
      PROVE  u.block[n].content = t.block[n].content /\ u.block[n].type = t.block[n].type
  <2>1. PICK r, g : r = t.block[n] /\ g = u.block[n]
    OBVIOUS
  <2>2. IsBlock(r)
    BY <1>3, <2>1 DEF IsTree
  <2>3. g = r \/ \E v : g = [r EXCEPT !["last_line_blank"] = v]
    BY <1>3, <1>5, <1>6, <2>1
  <2>4. ASSUME NEW v, g = [r EXCEPT !["last_line_blank"] = v]
        PROVE  g.content = r.content /\ g.type = r.type
    BY <2>2, <2>4 DEF IsBlock, Fields
  <2> QED
    BY <2>1, <2>3, <2>4
<1>8. PICK b \in Nat : line_number = b + 1 /\ Filed(t, b)
  BY <1>1, <1>2, BusyFacts DEF Busy
<1>9. Filed(u, b) /\ Found(u) = Found(t)
  BY <1>6, <1>7, <1>8, SameText
<1>10. Filed(Tree', b) /\ Found(Tree) \subseteq Found(Tree')
  BY <1>1, <1>9
<1>11. phase' = "lazy" => block'[current].type = "paragraph"
  <2> SUFFICES ASSUME phase' = "lazy" PROVE block'[current].type = "paragraph"
    OBVIOUS
  <2>1. IsLazy
    BY <1>2
  <2>2. current \in DOMAIN kids /\ block[current].type = "paragraph"
    BY <1>3, <2>1 DEF IsLazy
  <2> QED
    BY <1>3, <1>6, <1>7, <2>2
<1>12. rest = [prefix |-> rest.prefix, kind |-> rest.kind]
  BY DEF TextInv, Reads
<1>13. phase \in Busy /\ phase' \in Busy
  BY <1>2 DEF Busy
<1> QED
  BY <1>2, <1>8, <1>10, <1>11, <1>12, <1>13, StaysBusy

\* The text of a lazy line goes to the end of the paragraph that was left open.
LEMMA LazyContinuationFiled ==
  ASSUME IInv, TextInv, LazyContinuation
  PROVE  TextInv'
<1>1. PICK t, u, n : t = Tree /\ n = current /\ u = WithLine(t, n, rest)
  OBVIOUS
<1>2. /\ Rest(t, n) /\ Becomes(u) /\ phase = "lazy" /\ phase' = "idle" /\ t.block = block
      /\ line_number' = line_number /\ read' = read /\ rest' = rest
  BY <1>1 DEF IInv, Sound, LazyContinuation, reading, Tree
<1>3. Alike(t, u)
  BY <1>1, <1>2, WithLineRests
<1>4. Tree' = u
  BY <1>2, <1>3, TreeIs DEF Alike
<1>5. /\ WellTree(t) /\ n \in DOMAIN t.kids /\ Hangs(t.kids, Path(t.kids, n))
      /\ t.block[n].type \in Holders
  BY <1>1, <1>2 DEF Rest, TextInv, Holders, AcceptsLines
<1>6. PICK b \in Nat : line_number = b + 1 /\ Filed(t, b)
  BY <1>1, <1>2, BusyFacts DEF Busy
<1>7. Filed(u, b + 1) /\ Found(u) = Found(t) \cup {b + 1}
  BY <1>1, <1>5, <1>6, WithLineFiled
<1>8. phase \in Busy
  BY <1>2 DEF Busy
<1>9. /\ Filed(Tree', b + 1) /\ Found(Tree) \subseteq Found(Tree') /\ b + 1 \in Found(Tree')
  BY <1>1, <1>4, <1>7
<1> QED
  BY <1>2, <1>6, <1>8, <1>9, LineFiled

\* Closing what the line did not continue moves no text.
LEMMA CloseUnmatchedFiled ==
  ASSUME IInv, TextInv, CloseUnmatched
  PROVE  TextInv'
<1>1. PICK t, v, n : t = Tree /\ n = current /\ v = Finalized(t, n)
  OBVIOUS
<1>2. /\ WellTree(t) /\ n \in DOMAIN t.kids /\ Becomes(v)
      /\ phase = "close" /\ phase' = "close"
      /\ line_number' = line_number /\ read' = read /\ rest' = rest
  BY <1>1 DEF IInv, Sound, Shape, ShapeCore, CloseUnmatched, reading
<1>3. PICK b \in Nat : line_number = b + 1 /\ Filed(t, b)
  BY <1>1, <1>2, BusyFacts DEF Busy
<1>4. Filed(v, b) /\ Found(v) = Found(t)
  BY <1>1, <1>2, <1>3, FinalizedFiled
<1>5. Tree' = v
  <2>1. Shut(t, v, n)
    BY <1>1, <1>2, FinalizedShuts
  <2> QED
    BY <1>2, <2>1, TreeIs DEF Shut, WellTree
<1>6. Filed(Tree', b) /\ Found(Tree) \subseteq Found(Tree')
  BY <1>1, <1>4, <1>5
<1>7. rest = [prefix |-> rest.prefix, kind |-> rest.kind]
  BY DEF TextInv, Reads
<1>8. phase \in Busy /\ phase' \in Busy /\ phase' # "lazy"
  BY <1>2 DEF Busy
<1> QED
  BY <1>2, <1>3, <1>6, <1>7, <1>8, StaysBusy

\* The rest of the line goes to the end of the container, or into a paragraph
\* after everything in it.
LEMMA AddTextFiled ==
  ASSUME IInv, TextInv, AddText
  PROVE  TextInv'
<1> DEFINE line == WithLine(Tree, container, rest)
           text == WithLine(Tree, container, FromNonspace(rest))
           para == [Made("paragraph", line_number) EXCEPT !.content = <<Line(FromNonspace(rest))>>]
           done(u, m) == Becomes(u) /\ current' = m
<1>1. PICK t, n : t = Tree /\ n = container
  OBVIOUS
<1>2. /\ phase = "close" /\ current = last_matched /\ phase' = "idle"
      /\ line_number' = line_number /\ read' = read /\ rest' = rest
      /\ CASE type = "code_block" -> done(line, n)
           [] type = "html_block" ->
                IF block[n].html = 2 /\ rest.kind = "comment end"
                THEN done(Finalized(line, n), ParentOf(Tree, n))
                ELSE done(line, n)
           [] type \notin {"code_block", "html_block"} /\ blank -> done(Tree, n)
           [] type \in {"paragraph", "heading"} /\ ~blank -> done(text, n)
           [] OTHER -> done(AddChild(Tree, n, para), Added(Tree, n, para))
  BY <1>1 DEF AddText, reading
<1>3. \/ type \in {"code_block", "html_block"} /\ Becomes(line)
      \/ type = "html_block" /\ Becomes(Finalized(line, n))
      \/ blank /\ Becomes(Tree)
      \/ type \in {"paragraph", "heading"} /\ Becomes(text)
      \/ Becomes(AddChild(Tree, n, para))
  <2> HIDE DEF line, text, para
  <2>1. CASE type = "code_block"
    BY <1>2, <2>1
  <2>2. CASE type = "html_block"
    BY <1>2, <2>2
  <2>3. CASE type \notin {"code_block", "html_block"} /\ blank
    BY <1>2, <2>3
  <2>4. CASE type \notin {"code_block", "html_block"} /\ ~blank
    <3>1. CASE type \in {"paragraph", "heading"}
      BY <1>2, <2>4, <3>1
    <3>2. CASE type \notin {"paragraph", "heading"}
      BY <1>2, <2>4, <3>2
    <3> QED
      BY <3>1, <3>2
  <2> QED
    BY <2>1, <2>2, <2>3, <2>4
<1>4. Shape(t, n, last_matched, last_matched) /\ t.block = block /\ t.kids = kids
  BY <1>1, <1>2 DEF IInv, Sound, Tree
<1>5. /\ Rest(t, n) /\ WellTree(t) /\ IsTree(t) /\ n \in DOMAIN t.kids
      /\ Hangs(t.kids, Path(t.kids, n))
  BY <1>4, ShapeRests DEF Shape, Rest, WellTree
<1>6. PICK b \in Nat : line_number = b + 1 /\ Filed(t, b)
  BY <1>1, <1>2, BusyFacts DEF Busy
<1>7. phase \in Busy
  BY <1>2 DEF Busy
<1>8. ASSUME NEW v, Becomes(v), IsTree(v), Filed(v, b + 1), Found(t) \subseteq Found(v),
             rest.kind \in Texts => b + 1 \in Found(v)
      PROVE  TextInv'
  <2>1. Tree' = v
    BY <1>8, TreeIs
  <2>2. /\ Filed(Tree', b + 1) /\ Found(Tree) \subseteq Found(Tree')
        /\ rest.kind \in Texts => b + 1 \in Found(Tree')
    BY <1>1, <1>8, <2>1
  <2> QED
    BY <1>2, <1>6, <1>7, <2>2, LineFiled
<1>9. ASSUME NEW x, NEW u, u = WithLine(t, n, x), type \in Holders
      PROVE  /\ IsTree(u) /\ WellTree(u) /\ n \in DOMAIN u.kids
             /\ Filed(u, b + 1) /\ Found(u) = Found(t) \cup {b + 1}
  <2>1. t.block[n].type \in Holders
    BY <1>1, <1>4, <1>9 DEF type
  <2>2. Filed(u, b + 1) /\ Found(u) = Found(t) \cup {b + 1}
    BY <1>5, <1>6, <1>9, <2>1, WithLineFiled
  <2>3. Rest(u, n)
    BY <1>5, <1>9, WithLineRests
  <2> QED
    BY <2>2, <2>3 DEF Rest, WellTree
<1>10. CASE type \in {"code_block", "html_block"} /\ Becomes(line)
  <2>1. PICK u : u = line
    OBVIOUS
  <2>2. u = WithLine(t, n, rest) /\ type \in Holders /\ Becomes(u)
    BY <1>1, <1>10, <2>1 DEF Holders, AcceptsLines
  <2> HIDE DEF line
  <2>3. IsTree(u) /\ Filed(u, b + 1) /\ Found(u) = Found(t) \cup {b + 1}
    BY <1>9, <2>2
  <2> QED
    BY <1>8, <2>2, <2>3
<1>11. CASE type = "html_block" /\ Becomes(Finalized(line, n))
  <2>1. PICK u, v : u = line /\ v = Finalized(u, n)
    OBVIOUS
  <2>2. u = WithLine(t, n, rest) /\ type \in Holders /\ Becomes(v)
    BY <1>1, <1>11, <2>1 DEF Holders, AcceptsLines
  <2> HIDE DEF line
  <2>3. /\ IsTree(u) /\ WellTree(u) /\ n \in DOMAIN u.kids
        /\ Filed(u, b + 1) /\ Found(u) = Found(t) \cup {b + 1}
    BY <1>9, <2>2
  <2>4. b + 1 \in Nat
    OBVIOUS
  <2>5. Filed(v, b + 1) /\ Found(v) = Found(u)
    BY <2>1, <2>3, <2>4, FinalizedFiled
  <2>6. IsTree(v)
    BY <2>1, <2>3, FinalizedShuts DEF Shut, WellTree
  <2> QED
    BY <1>8, <2>2, <2>3, <2>5, <2>6
<1>12. CASE blank /\ Becomes(Tree)
  <2>1. rest.kind = "blank"
    <3>1. FromNonspace(rest).kind = rest.kind
      BY FromNonspaceIs DEF TextInv, Reads
    <3> QED
      BY <1>12, <3>1 DEF blank, IsBlank
  <2>2. b + 1 \in Nat /\ b <= b + 1
    OBVIOUS
  <2>3. Filed(t, b + 1)
    BY <1>6, <2>2, FiledOfMore
  <2>4. Becomes(t) /\ rest.kind \notin Texts
    BY <1>1, <1>12, <2>1 DEF Texts
  <2> QED
    BY <1>5, <1>8, <2>3, <2>4
<1>13. CASE type \in {"paragraph", "heading"} /\ Becomes(text)
  <2>1. PICK u : u = text
    OBVIOUS
  <2>2. u = WithLine(t, n, FromNonspace(rest)) /\ type \in Holders /\ Becomes(u)
    BY <1>1, <1>13, <2>1 DEF Holders, AcceptsLines
  <2> HIDE DEF text
  <2>3. IsTree(u) /\ Filed(u, b + 1) /\ Found(u) = Found(t) \cup {b + 1}
    BY <1>9, <2>2
  <2> QED
    BY <1>8, <2>2, <2>3
<1>14. CASE Becomes(AddChild(Tree, n, para))
  <2>1. PICK u, a : u = AddChild(t, n, para) /\ a = Added(t, n, para)
    OBVIOUS
  <2>2. PICK e : e = Line(FromNonspace(rest))
    OBVIOUS
  <2>3. e \in Entry /\ e.line = b + 1
    BY <1>6, <2>2 DEF Line, Entry
  <2>4. IsBlock(para) /\ para.open /\ para.type = "paragraph" /\ para.content = <<e>>
    <3> DEFINE m == Made("paragraph", line_number)
    <3>1. IsBlock(m) /\ m.open /\ m.type = "paragraph"
      BY MadeIsBlock DEF BlockTypes, AcceptsLines
    <3>2. para = [m EXCEPT !.content = <<e>>]
      BY <2>2
    <3> HIDE DEF m, para
    <3> QED
      BY <3>1, <3>2 DEF IsBlock, Fields
  <2>5. Becomes(u)
    BY <1>1, <1>14, <2>1
  <2> HIDE DEF para
  <2>6. PICK c : c = para.content
    OBVIOUS
  <2>7. IsText(c, b + 1) /\ LinesIn(c) = {b + 1}
    <3>1. IsText(<<>>, b) /\ LinesIn(<<>>) = {}
      BY NoText
    <3>2. c = Append(<<>>, e)
      BY <2>4, <2>6
    <3>3. IsText(c, b + 1) /\ LinesIn(c) = LinesIn(<<>>) \cup {b + 1}
      BY <2>3, <3>1, <3>2, TextGrown
    <3> QED
      BY <3>1, <3>3
  <2>8. PICK l : l = last_matched
    OBVIOUS
  <2>9. ShapeCore(t, n, l, l)
    BY <1>4, <2>8 DEF Shape
  <2>10. para.type # "item" /\ para.type \in Holders
    BY <2>4 DEF Holders, AcceptsLines
  <2>11. IsTree(u)
    <3>1. Shape(u, a, l, l)
      BY <2>1, <2>4, <2>9, <2>10, AddChildShapes
    <3> QED
      BY <3>1 DEF Shape, ShapeCore, WellTree
  <2>12. Filed(u, b + 1) /\ Found(u) = Found(t) \cup {b + 1}
    <3>1. /\ b + 1 \in Nat /\ b <= b + 1 /\ IsText(para.content, b + 1)
          /\ \A x \in LinesIn(para.content) : b < x
      BY <2>6, <2>7
    <3>2. PICK d \in Nat : d = b + 1
      BY <3>1
    <3>3. Filed(u, d) /\ Found(u) = Found(t) \cup LinesIn(para.content)
      BY <1>6, <2>1, <2>4, <2>9, <2>10, <3>1, <3>2, AddChildFiled
    <3> QED
      BY <2>6, <2>7, <3>2, <3>3
  <2> QED
    BY <1>8, <2>5, <2>11, <2>12
<1> QED
  <2> HIDE DEF line, text, para
  <2> QED
    BY <1>3, <1>10, <1>11, <1>12, <1>13, <1>14

\* No line is being read: the text stays where it is.
LEMMA StaysFiled ==
  ASSUME TextInv, phase \in {"idle", "finish"}, phase' \in {"idle", "finish", "done"},
         line_number' = line_number, read' = read, rest' = rest,
         NEW u, Tree' = u, \A b \in Nat : Filed(Tree, b) => Filed(u, b), Found(u) = Found(Tree)
  PROVE  TextInv'
<1>1. /\ read \in Seq(Lines) /\ line_number = Len(read) /\ line_number \in Nat
      /\ rest = [prefix |-> rest.prefix, kind |-> rest.kind]
  BY DEF TextInv, Reads
<1>2. /\ Through(phase, line_number) = line_number
      /\ Through(phase', line_number') = line_number /\ phase' \notin Busy
  BY DEF Through, Busy
<1>3. Holds(Tree, line_number, read)
  BY <1>2 DEF TextInv
<1>4. Holds(u, line_number, read)
  BY <1>1, <1>3 DEF Holds
<1>5. Holds(Tree', Through(phase', line_number'), read')
  BY <1>2, <1>4
<1>6. Reads(phase', line_number', read', rest')
  BY <1>1, <1>2 DEF Reads
<1> QED
  BY <1>2, <1>5, <1>6 DEF TextInv, Busy

\* The end of the document.
LEMMA FinishFiled ==
  ASSUME TextInv, Finish
  PROVE  TextInv'
<1>1. /\ phase = "idle" /\ phase' = "finish" /\ Tree' = Tree
      /\ line_number' = line_number /\ read' = read /\ rest' = rest
  BY DEF Finish, Tree, reading
<1> QED
  BY <1>1, StaysFiled

\* Closing the last blocks moves no text.
LEMMA FinalizeDocumentFiled ==
  ASSUME IInv, TextInv, FinalizeDocument
  PROVE  TextInv'
<1>1. PICK t, v, n : t = Tree /\ n = current /\ v = Finalized(t, n)
  OBVIOUS
<1>2. /\ WellTree(t) /\ n \in DOMAIN t.kids /\ Becomes(v)
      /\ phase = "finish" /\ phase' \in {"finish", "done"}
      /\ line_number' = line_number /\ read' = read /\ rest' = rest
  BY <1>1 DEF IInv, Sound, Rest, FinalizeDocument, reading
<1>3. Tree' = v
  <2>1. Shut(t, v, n)
    BY <1>1, <1>2, FinalizedShuts
  <2> QED
    BY <1>2, <2>1, TreeIs DEF Shut, WellTree
<1>4. \A b \in Nat : Filed(t, b) => Filed(v, b) /\ Found(v) = Found(t)
  BY <1>1, <1>2, FinalizedFiled
<1>5. Found(v) = Found(t)
  <2>1. line_number \in Nat /\ Filed(t, line_number)
    BY <1>1, <1>2 DEF TextInv, Holds, Through, Busy, Reads
  <2> QED
    BY <1>4, <2>1
<1> QED
  BY <1>1, <1>2, <1>3, <1>4, <1>5, StaysFiled

\* Every step files the text.
LEMMA NextFiled == IInv /\ TextInv /\ [Next]_vars => TextInv'
<1> SUFFICES ASSUME IInv, TextInv, [Next]_vars PROVE TextInv'
  OBVIOUS
<1>1. CASE Next
  <2>1. ASSUME NEW l \in Lines, ReadLine(l) PROVE TextInv'
    BY <2>1, ReadLineFiled
  <2>2. ASSUME \/ OpenQuote \/ OpenHeading \/ OpenFence \/ OpenHtml \/ OpenRule
               \/ OpenFootnote \/ OpenCode
        PROVE  TextInv'
    <3>1. phase = "open"
      BY <2>2 DEF OpenQuote, OpenHeading, OpenFence, OpenHtml, OpenRule, OpenFootnote,
                  OpenCode, MayOpen
    <3> QED
      BY <2>2, <3>1, OpenOneFiled
  <2> QED
    BY <1>1, <2>1, <2>2, DescendFiled, CloseFenceFiled, MatchedFiled, OpenItemFiled,
       SetextHeadingFiled, MarkBlankFiled, LazyContinuationFiled,
       CloseUnmatchedFiled, AddTextFiled, FinishFiled, FinalizeDocumentFiled, Zenon
       DEF Next
<1>2. CASE UNCHANGED vars
  <2>1. /\ Tree' = Tree /\ phase' = phase /\ current' = current /\ block' = block
        /\ line_number' = line_number /\ read' = read /\ rest' = rest
    BY <1>2 DEF vars, reading, Tree
  <2> QED
    BY <2>1 DEF TextInv
<1> QED
  BY <1>1, <1>2

\* Every line of text that was read to its end is in one block or among the
\* definitions, in the order of the blocks; what is left of the line that is
\* being read is still its text.
THEOREM TextIsFiled == Spec => []TextInv
<1>1. Init => TextInv
  BY InitFiled
<1>2. IInv /\ TextInv /\ [Next]_vars => TextInv'
  BY NextFiled
<1> QED
  BY <1>1, <1>2, OpenBlocksKnown, PTL DEF Spec

\* LinesInOrder: the text of a document stays in order, and no line of it is lost
\* or doubled, whatever was opened, closed, continued lazily or taken out.
THEOREM TextStaysInOrder == Spec => []LinesInOrder
<1>1. IInv /\ TextInv => LinesInOrder
  <2> SUFFICES ASSUME IInv, TextInv PROVE LinesInOrder
    OBVIOUS
  <2>1. PICK t : t = Tree
    OBVIOUS
  <2>2. PICK b : b = Through(phase, line_number)
    OBVIOUS
  <2>3. /\ WellTree(t) /\ IsTree(t) /\ t.block = block /\ t.kids = kids /\ t.refs = refmap
        /\ DOMAIN block = DOMAIN kids
    BY <2>1 DEF IInv, Sound, Tree, WellTree, IsTree
  <2>4. /\ Filed(t, b) /\ line_number \in Nat /\ b \in Int
        /\ \A i \in 1 .. b : read[i].kind \in Texts => i \in Found(t)
    BY <2>1, <2>2 DEF TextInv, Holds, Reads, Through
  <2>5. \A n : LinesOf(n) = LinesAt(t, n)
    BY <2>3 DEF LinesOf, LinesAt, LinesIn
  <2>6. ASSUME NEW n \in DOMAIN block
        PROVE  /\ \A i, j \in DOMAIN block[n].content :
                    i < j => block[n].content[i].line < block[n].content[j].line
               /\ LinesOf(n) # {} => kids[n] = <<>>
               /\ LinesOf(n) \cap refmap = {}
    <3>1. IsText(block[n].content, b)
      BY <2>3, <2>4 DEF Filed
    <3>2. LinesOf(n) # {} => kids[n] = <<>>
      <4>1. ASSUME LinesOf(n) # {} PROVE block[n].type \in Holders
        <5>1. block[n].content # <<>>
          <6>1. DOMAIN <<>> = {}
            OBVIOUS
          <6> QED
            BY <4>1, <6>1 DEF LinesOf
        <5> QED
          BY <2>3, <2>4, <5>1 DEF Filed
      <4> QED
        BY <2>3, <4>1, LeavesEmpty DEF Holders, AcceptsLines
    <3> QED
      BY <2>3, <2>4, <2>5, <3>1, <3>2 DEF IsText, Filed
  <2>7. ASSUME NEW m \in DOMAIN block, NEW n \in DOMAIN block, m # n
        PROVE  /\ LinesOf(m) \cap LinesOf(n) = {}
               /\ (\E x \in LinesOf(m), y \in LinesOf(n) : x > y) => ~Before(m, n)
    <3>1. LinesOf(m) \cap LinesOf(n) = {}
      BY <2>3, <2>4, <2>5, <2>7 DEF Filed
    <3>2. Before(m, n) => Precedes(kids, m, n)
      <4>1. {m} \cup Ancestors(m) = Path(kids, m) /\ {n} \cup Ancestors(n) = Path(kids, n)
        BY <2>1, <2>3, AncestorsPath
      <4> QED
        BY <4>1 DEF Before, Precedes, Ahead
    <3>3. ASSUME NEW x \in LinesOf(m), NEW y \in LinesOf(n), x > y PROVE ~Before(m, n)
      <4>1. LinesOf(m) \subseteq Int /\ LinesOf(n) \subseteq Int
        <5>1. LinesOf(m) \subseteq 1 .. b /\ LinesOf(n) \subseteq 1 .. b
          BY <2>3, <2>4, <2>5 DEF Filed, IsText, LinesAt
        <5> QED
          BY <2>4, <5>1
      <4>2. Precedes(kids, m, n) => x < y
        BY <2>3, <2>4, <2>5, <3>3 DEF Filed
      <4> QED
        BY <3>2, <3>3, <4>1, <4>2
    <3> QED
      BY <3>1, <3>3
  <2>8. ASSUME phase \in {"idle", "finish", "done"}, NEW i \in 1 .. line_number,
               read[i].kind \in {"text", "reference"}
        PROVE  i \in refmap \cup UNION {LinesOf(n) : n \in DOMAIN block}
    <3>1. b = line_number
      BY <2>2, <2>8 DEF Through, Busy
    <3>2. i \in Found(t)
      BY <2>4, <2>8, <3>1 DEF Texts
    <3> QED
      BY <2>3, <2>5, <3>2 DEF Found
  <2> QED
    BY <2>6, <2>7, <2>8 DEF LinesInOrder
<1> QED
  BY <1>1, OpenBlocksKnown, TextIsFiled, PTL

\* TypeOK: the blocks are one tree, a child is on one list of children, and the
\* definitions are lines that were read.
THEOREM BlocksAreOneTree == Spec => []TypeOK
<1>1. IInv /\ TextInv => TypeOK
  <2> SUFFICES ASSUME IInv, TextInv PROVE TypeOK
    OBVIOUS
  <2>1. PICK k, b : k = kids /\ b = Through(phase, line_number)
    OBVIOUS
  <2>2. /\ Rooted(k) /\ DOMAIN block = DOMAIN k
        /\ \A n \in DOMAIN k : block[n].type \in BlockTypes
    BY <2>1 DEF IInv, Sound, WellTree, IsTree, IsBlock, Tree
  <2>3. /\ line_number = Len(read) /\ line_number \in Nat /\ b \in Int /\ b <= line_number
        /\ refmap \subseteq 1 .. b
    BY <2>1 DEF TextInv, Holds, Filed, Reads, Through, Tree
  <2>4. refmap \subseteq 1 .. line_number
    <3>1. 1 .. b \subseteq 1 .. line_number
      BY <2>3
    <3> QED
      BY <2>3, <3>1
  <2>5. ASSUME NEW n \in DOMAIN k PROVE ToSet(k[n]) \subseteq DOMAIN k \ {Root}
    <3>1. k[n] \in Seq(DOMAIN k \ {Root})
      BY <2>2 DEF Rooted
    <3> QED
      BY <3>1 DEF ToSet
  <2>6. ASSUME NEW n \in DOMAIN k \ {Root}
        PROVE  Cardinality({p \in DOMAIN k : Contains(k[p], n)}) = 1
    <3>1. PICK q : q = Par(k, n)
      OBVIOUS
    <3>2. {p \in DOMAIN k : Contains(k[p], n)} = {q}
      BY <2>2, <3>1, ParOf
    <3>3. \A x : Cardinality({x}) = 1
      BY FS_Singleton
    <3> QED
      BY <3>2, <3>3
  <2> QED
    BY <2>1, <2>2, <2>3, <2>4, <2>5, <2>6 DEF TypeOK, BlockTypes
<1> QED
  BY <1>1, OpenBlocksKnown, TextIsFiled, PTL
=============================================================================
