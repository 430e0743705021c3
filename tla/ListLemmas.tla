------------------------------ MODULE ListLemmas ------------------------------
(****************************************************************************)
(* Facts about numbers and sequences that the proofs share.                 *)
(****************************************************************************)
EXTENDS Integers, SequencesExt, SequenceTheorems, FiniteSetTheorems,
        WellFoundedInduction, TLAPS

\* A set of numbers that is not empty has a least one: what a scan forwards
\* finds (the end of a line in S_parser_feed, the closer of process_emphasis).
LEMMA LeastNumber ==
  ASSUME NEW S \in SUBSET Nat, S # {}
  PROVE  \E m \in S : \A k \in S : m <= k
<1> DEFINE U == {0..k : k \in S}
           R == StrictSubsetOrdering(Nat)
<1>1. U \subseteq FiniteSubsetsOf(Nat)
  <2>1. ASSUME NEW k \in S PROVE 0..k \in FiniteSubsetsOf(Nat)
    <3>1. IsFiniteSet(0..k) /\ 0..k \in SUBSET Nat
      BY FS_Interval
    <3> QED
      BY <3>1 DEF FiniteSubsetsOf
  <2> QED
    BY <2>1
<1>2. U # {}
  OBVIOUS
<1>3. PICK u \in U : \A v \in U : ~(<<v, u>> \in R)
  <2>1. IsWellFoundedOn(R, FiniteSubsetsOf(Nat))
    BY FS_StrictSubsetOrderingWellFounded
  <2> HIDE DEF U, R
  <2> QED
    BY <1>1, <1>2, <2>1, WFMin
<1>4. PICK m \in S : u = 0..m
  BY <1>3
<1>5. ASSUME NEW k \in S, ~(m <= k) PROVE FALSE
  <2>1. 0..k \in U
    OBVIOUS
  <2>2. 0..k \subseteq 0..m /\ 0..k # 0..m
    <3>1. m \in 0..m /\ m \notin 0..k
      BY <1>5
    <3> QED
      BY <1>5, <3>1
  <2>3. <<0..k, 0..m>> \in R
    <3>1. 0..k \in SUBSET Nat /\ 0..m \in SUBSET Nat
      OBVIOUS
    <3> QED
      BY <2>2, <3>1 DEF StrictSubsetOrdering
  <2> QED
    BY <1>3, <1>4, <2>1, <2>3
<1> QED
  BY <1>5

\* And, if it has a bound, a greatest one.
LEMMA GreatestNumber ==
  ASSUME NEW n \in Nat, NEW S \in SUBSET (0..n), S # {}
  PROVE  \E m \in S : \A k \in S : k <= m
<1> DEFINE T == {j \in 0..n : n - j \in S}
<1>1. T \in SUBSET Nat
  OBVIOUS
<1>2. T # {}
  <2>1. PICK k \in S : TRUE
    OBVIOUS
  <2>2. n - k \in 0..n /\ n - (n - k) = k
    OBVIOUS
  <2> QED
    BY <2>1, <2>2
<1> HIDE DEF T
<1>3. PICK j \in T : \A k \in T : j <= k
  BY <1>1, <1>2, LeastNumber
<1> USE DEF T
<1>4. n - j \in S
  BY <1>3
<1>5. ASSUME NEW k \in S PROVE k <= n - j
  <2>1. n - k \in T
    OBVIOUS
  <2> QED
    BY <2>1, <1>3
<1> QED
  BY <1>4, <1>5

\* Sequences that agree from m to n have the same piece there.
LEMMA SamePiece ==
  ASSUME NEW S, NEW s \in Seq(S), NEW t \in Seq(S), NEW m \in Nat \ {0}, NEW n \in Nat,
         n <= Len(s), n <= Len(t), \A k \in m..n : s[k] = t[k]
  PROVE  SubSeq(s, m, n) \in Seq(S) /\ SubSeq(s, m, n) = SubSeq(t, m, n)
<1>1. \A i \in m..n : s[i] \in S /\ t[i] \in S
  BY ElementOfSeq
<1>2. /\ SubSeq(s, m, n) \in Seq(S)
      /\ Len(SubSeq(s, m, n)) = IF m <= n THEN n - m + 1 ELSE 0
      /\ \A i \in 1..(n - m + 1) : SubSeq(s, m, n)[i] = s[m + i - 1]
  BY <1>1, SubSeqProperties
<1>3. /\ SubSeq(t, m, n) \in Seq(S)
      /\ Len(SubSeq(t, m, n)) = IF m <= n THEN n - m + 1 ELSE 0
      /\ \A i \in 1..(n - m + 1) : SubSeq(t, m, n)[i] = t[m + i - 1]
  BY <1>1, SubSeqProperties
<1>4. ASSUME NEW i \in 1..Len(SubSeq(s, m, n)) PROVE SubSeq(s, m, n)[i] = SubSeq(t, m, n)[i]
  <2>1. i \in 1..(n - m + 1) /\ m + i - 1 \in m..n
    BY <1>2
  <2> QED
    BY <1>2, <1>3, <2>1
<1> QED
  BY <1>2, <1>3, <1>4, SeqEqual

\* r is s without its element at g.
LacksPlace(T, s, g, r) ==
  /\ r \in Seq(T) /\ Len(r) = Len(s) - 1
  /\ \A i \in 1 .. Len(s) - 1 : r[i] = IF i < g THEN s[i] ELSE s[i + 1]

\* r is s with e put in at place g.
HasPlace(T, s, g, e, r) ==
  /\ r \in Seq(T) /\ Len(r) = Len(s) + 1
  /\ \A i \in 1 .. Len(s) + 1 :
       r[i] = IF i < g THEN s[i] ELSE IF i = g THEN e ELSE s[i - 1]

\* A sequence without its element at g.
LEMMA RemovedAt ==
  ASSUME NEW T, NEW s \in Seq(T), NEW g \in 1 .. Len(s)
  PROVE  LacksPlace(T, s, g, SubSeq(s, 1, g - 1) \o SubSeq(s, g + 1, Len(s)))
<1> DEFINE a == SubSeq(s, 1, g - 1)
           b == SubSeq(s, g + 1, Len(s))
           r == a \o b
<1>0. Len(s) \in Nat /\ \A i \in 1 .. Len(s) : s[i] \in T
  BY ElementOfSeq
<1>1. a \in Seq(T) /\ Len(a) = g - 1 /\ \A i \in 1 .. g - 1 : a[i] = s[i]
  <2>1. \A i \in 1 .. g - 1 : s[i] \in T
    BY <1>0
  <2>2. /\ a \in Seq(T) /\ Len(a) = IF 1 <= g - 1 THEN g - 1 - 1 + 1 ELSE 0
        /\ \A i \in 1 .. g - 1 - 1 + 1 : a[i] = s[1 + i - 1]
    BY <2>1, SubSeqProperties
  <2> HIDE DEF a
  <2> QED
    BY <1>0, <2>2
<1>2. b \in Seq(T) /\ Len(b) = Len(s) - g /\ \A i \in 1 .. Len(s) - g : b[i] = s[g + i]
  <2>1. \A i \in g + 1 .. Len(s) : s[i] \in T
    BY <1>0
  <2>2. /\ b \in Seq(T) /\ Len(b) = IF g + 1 <= Len(s) THEN Len(s) - (g + 1) + 1 ELSE 0
        /\ \A i \in 1 .. Len(s) - (g + 1) + 1 : b[i] = s[(g + 1) + i - 1]
    BY <1>0, <2>1, SubSeqProperties
  <2> HIDE DEF b
  <2> QED
    BY <1>0, <2>2
<1> HIDE DEF a, b
<1>4. /\ r \in Seq(T) /\ Len(r) = Len(a) + Len(b)
      /\ \A i \in 1 .. Len(a) + Len(b) : r[i] = IF i <= Len(a) THEN a[i] ELSE b[i - Len(a)]
  BY <1>1, <1>2, ConcatProperties
<1> HIDE DEF r
<1>5. Len(r) = Len(s) - 1
  BY <1>0, <1>1, <1>2, <1>4
<1>6. ASSUME NEW i \in 1 .. Len(s) - 1
      PROVE  r[i] = IF i < g THEN s[i] ELSE s[i + 1]
  <2>1. r[i] = IF i <= g - 1 THEN a[i] ELSE b[i - (g - 1)]
    BY <1>0, <1>1, <1>2, <1>4
  <2>2. CASE i < g
    BY <1>0, <1>1, <2>1, <2>2
  <2>3. CASE ~(i < g)
    <3>1. i - (g - 1) \in 1 .. Len(s) - g /\ g + (i - (g - 1)) = i + 1
      BY <1>0, <2>3
    <3> QED
      BY <1>0, <1>2, <2>1, <2>3, <3>1
  <2> QED
    BY <2>2, <2>3
<1>7. LacksPlace(T, s, g, r)
  BY <1>4, <1>5, <1>6 DEF LacksPlace
<1> QED
  BY <1>7 DEF r, a, b

\* A sequence with e put in at place g.
LEMMA InsertedAt ==
  ASSUME NEW T, NEW s \in Seq(T), NEW g \in 1 .. Len(s) + 1, NEW e \in T
  PROVE  HasPlace(T, s, g, e, SubSeq(s, 1, g - 1) \o <<e>> \o SubSeq(s, g, Len(s)))
<1> DEFINE a == SubSeq(s, 1, g - 1)
           m == a \o <<e>>
           b == SubSeq(s, g, Len(s))
           r == m \o b
<1>0. Len(s) \in Nat /\ \A i \in 1 .. Len(s) : s[i] \in T
  BY ElementOfSeq
<1>1. a \in Seq(T) /\ Len(a) = g - 1 /\ \A i \in 1 .. g - 1 : a[i] = s[i]
  <2>1. \A i \in 1 .. g - 1 : s[i] \in T
    BY <1>0
  <2>2. /\ a \in Seq(T) /\ Len(a) = IF 1 <= g - 1 THEN g - 1 - 1 + 1 ELSE 0
        /\ \A i \in 1 .. g - 1 - 1 + 1 : a[i] = s[1 + i - 1]
    BY <1>0, <2>1, SubSeqProperties
  <2> HIDE DEF a
  <2> QED
    BY <1>0, <2>2
<1>2. b \in Seq(T) /\ Len(b) = Len(s) - g + 1 /\ \A i \in 1 .. Len(s) - g + 1 : b[i] = s[g + i - 1]
  <2>1. \A i \in g .. Len(s) : s[i] \in T
    BY <1>0
  <2>2. /\ b \in Seq(T) /\ Len(b) = IF g <= Len(s) THEN Len(s) - g + 1 ELSE 0
        /\ \A i \in 1 .. Len(s) - g + 1 : b[i] = s[g + i - 1]
    BY <1>0, <2>1, SubSeqProperties
  <2> HIDE DEF b
  <2> QED
    BY <1>0, <2>2
<1>4. m \in Seq(T) /\ Len(m) = g /\ \A i \in 1 .. g : m[i] = IF i < g THEN s[i] ELSE e
  <2>1. <<e>> \in Seq(T) /\ Len(<<e>>) = 1 /\ <<e>>[1] = e
    OBVIOUS
  <2> HIDE DEF a
  <2>2. /\ m \in Seq(T) /\ Len(m) = Len(a) + 1
        /\ \A i \in 1 .. Len(a) + 1 : m[i] = IF i <= Len(a) THEN a[i] ELSE <<e>>[i - Len(a)]
    <3> DEFINE u == <<e>>
    <3>1. u \in Seq(T) /\ Len(u) = 1
      BY <2>1
    <3> HIDE DEF u
    <3>2. /\ a \o u \in Seq(T) /\ Len(a \o u) = Len(a) + Len(u)
          /\ \A i \in 1 .. Len(a) + Len(u) :
               (a \o u)[i] = IF i <= Len(a) THEN a[i] ELSE u[i - Len(a)]
      BY <1>1, <3>1, ConcatProperties
    <3> QED
      BY <3>1, <3>2 DEF u
  <2> HIDE DEF m
  <2> QED
    BY <1>0, <1>1, <2>1, <2>2
<1> HIDE DEF a, b, m
<1>5. /\ r \in Seq(T) /\ Len(r) = Len(m) + Len(b)
      /\ \A i \in 1 .. Len(m) + Len(b) : r[i] = IF i <= Len(m) THEN m[i] ELSE b[i - Len(m)]
  BY <1>2, <1>4, ConcatProperties
<1> HIDE DEF r
<1>6. Len(r) = Len(s) + 1
  BY <1>0, <1>2, <1>4, <1>5
<1>7. ASSUME NEW i \in 1 .. Len(s) + 1
      PROVE  r[i] = IF i < g THEN s[i] ELSE IF i = g THEN e ELSE s[i - 1]
  <2>1. r[i] = IF i <= g THEN m[i] ELSE b[i - g]
    BY <1>0, <1>2, <1>4, <1>5
  <2>2. CASE i <= g
    BY <1>0, <1>4, <2>1, <2>2
  <2>3. CASE ~(i <= g)
    <3>1. i - g \in 1 .. Len(s) - g + 1 /\ g + (i - g) - 1 = i - 1
      BY <1>0, <2>3
    <3> QED
      BY <1>0, <1>2, <2>1, <2>3, <3>1
  <2> QED
    BY <2>2, <2>3
<1>8. HasPlace(T, s, g, e, r)
  BY <1>5, <1>6, <1>7 DEF HasPlace
<1> QED
  BY <1>8 DEF r, m, a, b

-----------------------------------------------------------------------------
(* Lists without repetition: what cutting, joining and filling leaves of their *)
(* order.                                                                      *)

\* u stands before v in a list.
Ahead(s, u, v) == \E i, j \in DOMAIN s : i < j /\ s[i] = u /\ s[j] = v

\* The members of a list from place a to b.
Members(s, a, b) == {s[i] : i \in a .. b}

\* r has those of S, in the order of s.
Part(T, s, r, S) ==
  /\ r \in Seq(T) /\ IsInjective(r)
  /\ ToSet(r) = S
  /\ \A u, v \in S : Ahead(r, u, v) <=> Ahead(s, u, v)

\* A list without repetition.
LEMMA AheadOrders ==
  ASSUME NEW T, NEW s \in Seq(T), IsInjective(s)
  PROVE  /\ \A u, v : Ahead(s, u, v) => u \in ToSet(s) /\ v \in ToSet(s)
         /\ \A u, v : Ahead(s, u, v) => u # v /\ ~Ahead(s, v, u)
         /\ \A u, v \in ToSet(s) : u # v => Ahead(s, u, v) \/ Ahead(s, v, u)
         /\ \A u, v, w : Ahead(s, u, v) /\ Ahead(s, v, w) => Ahead(s, u, w)
<1>1. DOMAIN s = 1 .. Len(s) /\ Len(s) \in Nat
  OBVIOUS
<1> QED
  BY <1>1 DEF Ahead, ToSet, IsInjective

\* Members by place.
LEMMA MembersByPlace ==
  ASSUME NEW T, NEW s \in Seq(T)
  PROVE  /\ \A i \in 1 .. Len(s) : s[i] \in ToSet(s) /\ s[i] \in T
         /\ \A u \in ToSet(s) : \E i \in 1 .. Len(s) : s[i] = u
         /\ ToSet(s) \subseteq T
         /\ Len(s) \in Nat /\ DOMAIN s = 1 .. Len(s)
  BY ElementOfSeq DEF ToSet

\* A piece of a list.
LEMMA PieceIs ==
  ASSUME NEW T, NEW s \in Seq(T), IsInjective(s),
         NEW a \in Nat \ {0}, NEW b \in Nat, b <= Len(s)
  PROVE  Part(T, s, SubSeq(s, a, b), Members(s, a, b))
<1> DEFINE r == SubSeq(s, a, b)
           S == Members(s, a, b)
<1> USE DEF Members
<1>1. \A i \in 1 .. Len(s) : s[i] \in T
  BY ElementOfSeq
<1>2. Len(s) \in Nat /\ DOMAIN s = 1 .. Len(s)
  OBVIOUS
<1>3. /\ r \in Seq(T)
      /\ Len(r) = IF a <= b THEN b - a + 1 ELSE 0
      /\ \A i \in 1 .. (b - a + 1) : r[i] = s[a + i - 1]
  <2>1. \A i \in a .. b : s[i] \in T
    BY <1>1, <1>2
  <2> QED
    BY <2>1, SubSeqProperties
<1> HIDE DEF r
<1>4. DOMAIN r = 1 .. Len(r) /\ Len(r) \in Nat
  BY <1>3
<1>5. \A i \in DOMAIN r : i \in Nat /\ a + i - 1 \in a .. b /\ a + i - 1 \in DOMAIN s
                          /\ r[i] = s[a + i - 1]
  <2> TAKE i \in DOMAIN r
  <2>1. i \in 1 .. (b - a + 1) /\ a <= b /\ i \in Nat
    BY <1>3, <1>4
  <2>2. r[i] = s[a + i - 1]
    BY <1>3, <2>1
  <2>3. a + i - 1 \in a .. b
    BY <2>1
  <2>4. a + i - 1 \in DOMAIN s
    BY <1>2, <2>3
  <2> QED
    BY <2>1, <2>2, <2>3, <2>4
<1>6. IsInjective(r)
  BY <1>2, <1>4, <1>5 DEF IsInjective
<1>7. \A i \in a .. b : i - a + 1 \in DOMAIN r /\ r[i - a + 1] = s[i] /\ i \in DOMAIN s
  BY <1>2, <1>3, <1>4
<1>8. ToSet(r) = S
  <2>1. \A i \in DOMAIN r : r[i] \in S
    BY <1>5
  <2>2. \A i \in a .. b : s[i] \in ToSet(r)
    BY <1>7 DEF ToSet
  <2> QED
    BY <2>1, <2>2 DEF ToSet
<1>9. ASSUME NEW u \in S, NEW v \in S
      PROVE  Ahead(r, u, v) <=> Ahead(s, u, v)
  <2>1. ASSUME Ahead(r, u, v) PROVE Ahead(s, u, v)
    <3>1. PICK i \in DOMAIN r, j \in DOMAIN r : i < j /\ r[i] = u /\ r[j] = v
      BY <2>1 DEF Ahead
    <3>2. a + i - 1 \in DOMAIN s /\ a + j - 1 \in DOMAIN s /\ a + i - 1 < a + j - 1
          /\ s[a + i - 1] = u /\ s[a + j - 1] = v
      BY <1>4, <1>5, <3>1
    <3> QED
      BY <3>2 DEF Ahead
  <2>2. ASSUME Ahead(s, u, v) PROVE Ahead(r, u, v)
    <3>1. PICK x \in DOMAIN s, y \in DOMAIN s : x < y /\ s[x] = u /\ s[y] = v
      BY <2>2 DEF Ahead
    <3>2. PICK i \in a .. b, j \in a .. b : s[i] = u /\ s[j] = v
      OBVIOUS
    <3>3. i = x /\ j = y
      BY <1>7, <3>1, <3>2 DEF IsInjective
    <3>4. i - a + 1 < j - a + 1
      BY <3>1, <3>2, <3>3
    <3> QED
      BY <1>7, <3>2, <3>4 DEF Ahead
  <2> QED
    BY <2>1, <2>2
<1> QED
  BY <1>3, <1>6, <1>8, <1>9 DEF Part, r

\* Two lists, one after the other.
LEMMA JoinedIs ==
  ASSUME NEW T, NEW u \in Seq(T), NEW v \in Seq(T), IsInjective(u), IsInjective(v),
         ToSet(u) \cap ToSet(v) = {}
  PROVE  /\ u \o v \in Seq(T) /\ IsInjective(u \o v)
         /\ ToSet(u \o v) = ToSet(u) \cup ToSet(v)
         /\ \A x, y : Ahead(u \o v, x, y) <=>
              Ahead(u, x, y) \/ Ahead(v, x, y) \/ (x \in ToSet(u) /\ y \in ToSet(v))
<1> DEFINE w == u \o v
<1>1. /\ w \in Seq(T) /\ Len(w) = Len(u) + Len(v)
      /\ \A i \in 1 .. Len(u) + Len(v) :
           w[i] = IF i <= Len(u) THEN u[i] ELSE v[i - Len(u)]
  BY ConcatProperties
<1>2. /\ Len(u) \in Nat /\ DOMAIN u = 1 .. Len(u)
      /\ Len(v) \in Nat /\ DOMAIN v = 1 .. Len(v)
  OBVIOUS
<1> HIDE DEF w
<1>3. DOMAIN w = 1 .. Len(u) + Len(v)
  BY <1>1
<1>4. ASSUME NEW i \in DOMAIN w
      PROVE  \/ i \in DOMAIN u /\ w[i] = u[i] /\ w[i] \in ToSet(u)
             \/ i > Len(u) /\ i - Len(u) \in DOMAIN v /\ w[i] = v[i - Len(u)] /\ w[i] \in ToSet(v)
  BY <1>1, <1>2, <1>3 DEF ToSet
<1>5. \A i \in DOMAIN u : i \in DOMAIN w /\ w[i] = u[i]
  BY <1>1, <1>2, <1>3
<1>6. \A i \in DOMAIN v : i + Len(u) \in DOMAIN w /\ w[i + Len(u)] = v[i]
  BY <1>1, <1>2, <1>3
<1>7. IsInjective(w)
  <2> SUFFICES ASSUME NEW i \in DOMAIN w, NEW j \in DOMAIN w, w[i] = w[j] PROVE i = j
    BY DEF IsInjective
  <2>1. CASE i \in DOMAIN u /\ j \in DOMAIN u
    BY <1>5, <2>1 DEF IsInjective
  <2>2. CASE i - Len(u) \in DOMAIN v /\ j - Len(u) \in DOMAIN v /\ i > Len(u) /\ j > Len(u)
    <3>1. w[i] = v[i - Len(u)] /\ w[j] = v[j - Len(u)]
      BY <1>1, <1>2, <1>3, <2>2
    <3>2. i - Len(u) = j - Len(u)
      BY <2>2, <3>1 DEF IsInjective
    <3> QED
      BY <1>2, <1>3, <3>2
  <2> QED
    BY <1>4, <2>1, <2>2
<1>8. ToSet(w) = ToSet(u) \cup ToSet(v)
  <2>1. ToSet(w) \subseteq ToSet(u) \cup ToSet(v)
    BY <1>4 DEF ToSet
  <2>2. ToSet(u) \subseteq ToSet(w)
    BY <1>5 DEF ToSet
  <2>3. ToSet(v) \subseteq ToSet(w)
    BY <1>6 DEF ToSet
  <2> QED
    BY <2>1, <2>2, <2>3
<1>9. ASSUME NEW x, NEW y, Ahead(w, x, y)
      PROVE  Ahead(u, x, y) \/ Ahead(v, x, y) \/ (x \in ToSet(u) /\ y \in ToSet(v))
  <2>1. PICK i \in DOMAIN w, j \in DOMAIN w : i < j /\ w[i] = x /\ w[j] = y
    BY <1>9 DEF Ahead
  <2>2. CASE i \in DOMAIN u /\ j \in DOMAIN u
    BY <1>5, <2>1, <2>2 DEF Ahead
  <2>3. CASE i > Len(u) /\ i - Len(u) \in DOMAIN v
    <3>1. j > Len(u) /\ j - Len(u) \in DOMAIN v /\ i - Len(u) < j - Len(u)
      BY <1>2, <1>3, <2>1, <2>3
    <3>2. v[i - Len(u)] = x /\ v[j - Len(u)] = y
      BY <1>1, <1>2, <1>3, <2>1, <2>3, <3>1
    <3> QED
      BY <2>3, <3>1, <3>2 DEF Ahead
  <2>4. CASE i \in DOMAIN u /\ j > Len(u)
    BY <1>1, <1>2, <1>3, <1>4, <2>1, <2>4
  <2> QED
    BY <1>2, <1>3, <1>4, <2>2, <2>3, <2>4
<1>10. ASSUME NEW x, NEW y
       PROVE  /\ Ahead(u, x, y) => Ahead(w, x, y)
              /\ Ahead(v, x, y) => Ahead(w, x, y)
              /\ x \in ToSet(u) /\ y \in ToSet(v) => Ahead(w, x, y)
  <2>1. ASSUME Ahead(u, x, y) PROVE Ahead(w, x, y)
    BY <1>5, <2>1 DEF Ahead
  <2>2. ASSUME Ahead(v, x, y) PROVE Ahead(w, x, y)
    <3>1. PICK i \in DOMAIN v, j \in DOMAIN v : i < j /\ v[i] = x /\ v[j] = y
      BY <2>2 DEF Ahead
    <3>2. i + Len(u) < j + Len(u)
      BY <1>2, <3>1
    <3> QED
      BY <1>6, <3>1, <3>2 DEF Ahead
  <2>3. ASSUME x \in ToSet(u), y \in ToSet(v) PROVE Ahead(w, x, y)
    <3>1. PICK i \in DOMAIN u, j \in DOMAIN v : u[i] = x /\ v[j] = y
      BY <2>3 DEF ToSet
    <3>2. i < j + Len(u)
      BY <1>2
    <3> QED
      BY <1>5, <1>6, <3>1, <3>2 DEF Ahead
  <2> QED
    BY <2>1, <2>2, <2>3
<1> QED
  BY <1>1, <1>7, <1>8, <1>9, <1>10 DEF w

\* A list of one.
LEMMA OnlyOne ==
  ASSUME NEW T, NEW m \in T
  PROVE  /\ <<m>> \in Seq(T) /\ IsInjective(<<m>>) /\ ToSet(<<m>>) = {m}
         /\ \A u, v : ~Ahead(<<m>>, u, v)
<1>1. <<m>> \in Seq(T) /\ Len(<<m>>) = 1 /\ DOMAIN <<m>> = {1} /\ <<m>>[1] = m
  OBVIOUS
<1> QED
  BY <1>1 DEF IsInjective, ToSet, Ahead

\* The place of a member.
LEMMA PlaceIs ==
  ASSUME NEW T, NEW s \in Seq(T), IsInjective(s), NEW g \in 1 .. Len(s), NEW n, s[g] = n
  PROVE  {i \in 1 .. Len(s) : s[i] = n} = {g} /\ Min({i \in 1 .. Len(s) : s[i] = n}) = g
<1> DEFINE I == {i \in 1 .. Len(s) : s[i] = n}
<1>1. I = {g}
  BY DEF IsInjective
<1>2. Min(I) = g
  BY <1>1 DEF Min
<1> QED
  BY <1>1, <1>2

\* A list without a piece.
LEMMA GapIs ==
  ASSUME NEW T, NEW s \in Seq(T), IsInjective(s),
         NEW a \in 0 .. Len(s), NEW b \in a + 1 .. Len(s) + 1
  PROVE  Part(T, s, SubSeq(s, 1, a) \o SubSeq(s, b, Len(s)),
              Members(s, 1, a) \cup Members(s, b, Len(s)))
<1> DEFINE u == SubSeq(s, 1, a)
           v == SubSeq(s, b, Len(s))
           U == Members(s, 1, a)
           V == Members(s, b, Len(s))
<1>1. Len(s) \in Nat /\ DOMAIN s = 1 .. Len(s)
  OBVIOUS
<1>2. Part(T, s, u, U)
  BY <1>1, PieceIs
<1>3. Part(T, s, v, V)
  BY <1>1, PieceIs
<1>4. U \cap V = {}
  BY <1>1 DEF IsInjective, Members
<1>5. \A x \in U, y \in V : Ahead(s, x, y) /\ ~Ahead(s, y, x)
  <2> TAKE x \in U, y \in V
  <2>1. PICK i \in 1 .. a, j \in b .. Len(s) : s[i] = x /\ s[j] = y
    BY DEF Members
  <2>2. i < j /\ i \in DOMAIN s /\ j \in DOMAIN s
    BY <1>1
  <2>3. Ahead(s, x, y)
    BY <2>1, <2>2 DEF Ahead
  <2> QED
    BY <2>3, AheadOrders
<1> HIDE DEF u, v, U, V
<1>6. /\ u \o v \in Seq(T) /\ IsInjective(u \o v)
      /\ ToSet(u \o v) = ToSet(u) \cup ToSet(v)
      /\ \A x, y : Ahead(u \o v, x, y) <=>
           Ahead(u, x, y) \/ Ahead(v, x, y) \/ (x \in ToSet(u) /\ y \in ToSet(v))
  BY <1>2, <1>3, <1>4, JoinedIs DEF Part
<1>7. /\ \A x, y : Ahead(u, x, y) => x \in U /\ y \in U
      /\ \A x, y : Ahead(v, x, y) => x \in V /\ y \in V
  BY <1>2, <1>3, AheadOrders DEF Part
<1>8. ASSUME NEW x \in U \cup V, NEW y \in U \cup V
      PROVE  Ahead(u \o v, x, y) <=> Ahead(s, x, y)
  BY <1>2, <1>3, <1>4, <1>5, <1>6, <1>7 DEF Part
<1>9. Part(T, s, u \o v, U \cup V)
  BY <1>2, <1>3, <1>6, <1>8 DEF Part
<1> QED
  BY <1>9 DEF u, v, U, V

\* A list with m in the place of a piece.
LEMMA FilledIs ==
  ASSUME NEW T, NEW s \in Seq(T), IsInjective(s), NEW m \in T, m \notin ToSet(s),
         NEW a \in 0 .. Len(s), NEW b \in a + 1 .. Len(s) + 1
  PROVE  LET r == SubSeq(s, 1, a) \o <<m>> \o SubSeq(s, b, Len(s))
         IN  /\ r \in Seq(T) /\ IsInjective(r)
             /\ ToSet(r) = (Members(s, 1, a) \cup Members(s, b, Len(s))) \cup {m}
             /\ \A x, y \in Members(s, 1, a) \cup Members(s, b, Len(s)) :
                  Ahead(s, x, y) => Ahead(r, x, y)
             /\ \A i \in 1 .. a : Ahead(r, s[i], m)
<1> DEFINE r == SubSeq(s, 1, a) \o <<m>> \o SubSeq(s, b, Len(s))
<1> DEFINE S == Members(s, 1, a) \cup Members(s, b, Len(s))
<1> DEFINE u == SubSeq(s, 1, a)
           o == <<m>>
           v == SubSeq(s, b, Len(s))
           U == Members(s, 1, a)
           V == Members(s, b, Len(s))
<1>1. Len(s) \in Nat /\ DOMAIN s = 1 .. Len(s)
  OBVIOUS
<1>2. Part(T, s, u, U)
  <2>1. 1 \in Nat \ {0} /\ a \in Nat /\ a <= Len(s)
    BY <1>1
  <2> QED
    BY <2>1, PieceIs
<1>3. Part(T, s, v, V)
  BY <1>1, PieceIs
<1>4. U \cap V = {} /\ m \notin U /\ m \notin V
  BY <1>1 DEF IsInjective, ToSet, Members
<1>5. \A x \in U, y \in V : ~Ahead(s, y, x)
  <2> TAKE x \in U, y \in V
  <2>1. PICK i \in 1 .. a, j \in b .. Len(s) : s[i] = x /\ s[j] = y
    BY DEF Members
  <2>2. i < j /\ i \in DOMAIN s /\ j \in DOMAIN s
    BY <1>1
  <2>3. Ahead(s, x, y)
    BY <2>1, <2>2 DEF Ahead
  <2> QED
    BY <2>3, AheadOrders
<1>6. /\ o \in Seq(T) /\ IsInjective(o) /\ ToSet(o) = {m}
      /\ \A x, y : ~Ahead(o, x, y)
  BY OnlyOne
<1>0. S = U \cup V /\ r = (u \o o) \o v
  OBVIOUS
<1>10. \A i \in 1 .. a : s[i] \in U
  BY DEF Members
<1> HIDE DEF r, u, o, v, U, V, S
<1>7. /\ u \o o \in Seq(T) /\ IsInjective(u \o o)
      /\ ToSet(u \o o) = U \cup {m}
      /\ \A x, y : Ahead(u \o o, x, y) <=> Ahead(u, x, y) \/ (x \in U /\ y = m)
  BY <1>2, <1>4, <1>6, JoinedIs DEF Part
<1> DEFINE uo == u \o o
<1> HIDE DEF uo
<1>8. /\ uo \o v \in Seq(T) /\ IsInjective(uo \o v)
      /\ ToSet(uo \o v) = ToSet(uo) \cup ToSet(v)
      /\ \A x, y : Ahead(uo \o v, x, y) <=>
           Ahead(uo, x, y) \/ Ahead(v, x, y) \/ (x \in ToSet(uo) /\ y \in ToSet(v))
  <2>1. /\ uo \in Seq(T) /\ IsInjective(uo) /\ ToSet(uo) = U \cup {m}
        /\ v \in Seq(T) /\ IsInjective(v) /\ ToSet(v) = V
    BY <1>3, <1>7 DEF Part, uo
  <2>2. ToSet(uo) \cap ToSet(v) = {}
    BY <1>4, <2>1
  <2> QED
    BY <2>1, <2>2, JoinedIs
<1>12. \A x, y : Ahead(r, x, y) <=>
          \/ Ahead(u, x, y) \/ (x \in U /\ y = m)
          \/ Ahead(v, x, y) \/ (x \in U \cup {m} /\ y \in V)
  <2>1. r = uo \o v /\ ToSet(uo) = U \cup {m} /\ ToSet(v) = V
    BY <1>0, <1>3, <1>7 DEF Part, uo
  <2>2. \A x, y : Ahead(uo, x, y) <=> Ahead(u, x, y) \/ (x \in U /\ y = m)
    BY <1>7 DEF uo
  <2> TAKE x, y
  <2>3. Ahead(uo \o v, x, y) <=>
           Ahead(uo, x, y) \/ Ahead(v, x, y) \/ (x \in ToSet(uo) /\ y \in ToSet(v))
    BY <1>8
  <2> QED
    <3> DEFINE w == uo \o v
    <3>1. r = w
      BY <2>1
    <3>2. Ahead(w, x, y) <=>
           Ahead(uo, x, y) \/ Ahead(v, x, y) \/ (x \in ToSet(uo) /\ y \in ToSet(v))
      BY <2>3
    <3> HIDE DEF w
    <3>3. Ahead(r, x, y) <=>
           Ahead(uo, x, y) \/ Ahead(v, x, y) \/ (x \in ToSet(uo) /\ y \in ToSet(v))
      BY <3>1, <3>2, Zenon
    <3>4. ToSet(uo) = U \cup {m} /\ ToSet(v) = V
      BY <2>1
    <3>5. Ahead(uo, x, y) <=> Ahead(u, x, y) \/ (x \in U /\ y = m)
      BY <2>2
    <3> QED
      BY <3>3, <3>4, <3>5
<1>9. ASSUME NEW x \in S, NEW y \in S, Ahead(s, x, y)
      PROVE  Ahead(r, x, y)
  <2>1. CASE x \in U /\ y \in U
    BY <1>2, <1>9, <1>12, <2>1 DEF Part
  <2>2. CASE x \in V /\ y \in V
    BY <1>3, <1>9, <1>12, <2>2 DEF Part
  <2>3. CASE x \in U /\ y \in V
    BY <1>12, <2>3
  <2>4. CASE x \in V /\ y \in U
    BY <1>5, <1>9, <2>4
  <2> QED
    BY <1>0, <2>1, <2>2, <2>3, <2>4
<1>11. \A i \in 1 .. a : Ahead(r, s[i], m)
  BY <1>10, <1>12
<1> QED
  BY <1>0, <1>3, <1>7, <1>8, <1>9, <1>11 DEF Part, uo, S, r

\* The members of a list without those of a piece.
LEMMA LeftOver ==
  ASSUME NEW T, NEW s \in Seq(T), IsInjective(s),
         NEW a \in 0 .. Len(s), NEW b \in a + 1 .. Len(s) + 1
  PROVE  ToSet(s) \ Members(s, a + 1, b - 1) =
           Members(s, 1, a) \cup Members(s, b, Len(s))
<1>1. Len(s) \in Nat /\ DOMAIN s = 1 .. Len(s)
  OBVIOUS
<1>2. \A i \in DOMAIN s : i \in 1 .. a \/ i \in a + 1 .. b - 1 \/ i \in b .. Len(s)
  BY <1>1
<1>3. \A i \in 1 .. a : i \in DOMAIN s /\ i \notin a + 1 .. b - 1
  BY <1>1
<1>4. \A i \in b .. Len(s) : i \in DOMAIN s /\ i \notin a + 1 .. b - 1
  BY <1>1
<1>5. \A i \in a + 1 .. b - 1 : i \in DOMAIN s
  BY <1>1
<1> QED
  BY <1>2, <1>3, <1>4, <1>5 DEF ToSet, IsInjective, Members

\* Taking a member out.
LEMMA TakenOut ==
  ASSUME NEW T, NEW s \in Seq(T), IsInjective(s), NEW n
  PROVE  Part(T, s, RemoveFirst(s, n), ToSet(s) \ {n})
<1>1. Len(s) \in Nat /\ DOMAIN s = 1 .. Len(s)
  OBVIOUS
<1>2. CASE n \notin ToSet(s)
  <2>1. RemoveFirst(s, n) = s
    BY <1>1, <1>2 DEF RemoveFirst, ToSet
  <2> QED
    BY <1>2, <2>1 DEF Part
<1>3. CASE n \in ToSet(s)
  <2>1. PICK g \in 1 .. Len(s) : s[g] = n
    BY <1>1, <1>3 DEF ToSet
  <2>2. SelectInSeq(s, LAMBDA x : x = n) = g
    BY <2>1, PlaceIs DEF SelectInSeq
  <2>3. RemoveFirst(s, n) = SubSeq(s, 1, g - 1) \o SubSeq(s, g + 1, Len(s))
    BY <2>1, <2>2 DEF RemoveFirst, RemoveAt
  <2>4. Part(T, s, SubSeq(s, 1, g - 1) \o SubSeq(s, g + 1, Len(s)),
             Members(s, 1, g - 1) \cup Members(s, g + 1, Len(s)))
    <3>1. g - 1 \in 0 .. Len(s) /\ g + 1 \in (g - 1) + 1 .. Len(s) + 1
      BY <1>1
    <3> QED
      BY <3>1, GapIs
  <2>5. Members(s, 1, g - 1) \cup Members(s, g + 1, Len(s)) = ToSet(s) \ {n}
    <3>1. \A i \in DOMAIN s : i # g => i \in 1 .. g - 1 \/ i \in g + 1 .. Len(s)
      BY <1>1
    <3>2. \A i \in 1 .. g - 1 : i \in DOMAIN s /\ i # g
      BY <1>1
    <3>3. \A i \in g + 1 .. Len(s) : i \in DOMAIN s /\ i # g
      BY <1>1
    <3>4. g \in DOMAIN s
      BY <1>1
    <3> QED
      BY <2>1, <3>1, <3>2, <3>3, <3>4 DEF ToSet, IsInjective, Members
  <2> QED
    BY <2>3, <2>4, <2>5
<1> QED
  BY <1>2, <1>3

\* A list without members.
LEMMA NoneIn ==
  ASSUME NEW T, NEW s \in Seq(T), ToSet(s) = {}
  PROVE  s = <<>>
<1>1. Len(s) \in Nat /\ DOMAIN s = 1 .. Len(s)
  OBVIOUS
<1>2. ~(1 \in DOMAIN s)
  BY DEF ToSet
<1> QED
  BY <1>1, <1>2, EmptySeq

\* The members of a piece.
LEMMA PieceAt ==
  ASSUME NEW T, NEW s \in Seq(T), NEW g \in Nat, NEW l \in Nat, g + l <= Len(s)
  PROVE  /\ SubSeq(s, g + 1, g + l) \in Seq(T) /\ Len(SubSeq(s, g + 1, g + l)) = l
         /\ \A i \in 1 .. l : SubSeq(s, g + 1, g + l)[i] = s[g + i]
<1> DEFINE r == SubSeq(s, g + 1, g + l)
<1>1. \A i \in 1 .. Len(s) : s[i] \in T
  BY ElementOfSeq
<1>2. \A i \in g + 1 .. g + l : s[i] \in T
  BY <1>1
<1>3. /\ r \in Seq(T)
      /\ Len(r) = IF g + 1 <= g + l THEN (g + l) - (g + 1) + 1 ELSE 0
      /\ \A i \in 1 .. (g + l) - (g + 1) + 1 : r[i] = s[(g + 1) + i - 1]
  BY <1>2, SubSeqProperties
<1> HIDE DEF r
<1>4. ASSUME NEW i \in 1 .. l PROVE r[i] = s[g + i]
  <2>1. i \in 1 .. (g + l) - (g + 1) + 1 /\ (g + 1) + i - 1 = g + i
    OBVIOUS
  <2> QED
    BY <1>3, <2>1
<1>5. r \in Seq(T) /\ Len(r) = l
  BY <1>3
<1> QED
  BY <1>4, <1>5 DEF r

\* A list of some is a list of those it has.
LEMMA Narrower ==
  ASSUME NEW T, NEW s \in Seq(T), NEW U, ToSet(s) \subseteq U
  PROVE  s \in Seq(U)
<1>1. Len(s) \in Nat /\ s \in [1 .. Len(s) -> T]
  BY LenProperties
<1>2. s \in [1 .. Len(s) -> U]
  BY <1>1 DEF ToSet
<1> QED
  BY <1>1, <1>2, SeqDef

\* What stands between two places.
LEMMA BetweenPlaces ==
  ASSUME NEW T, NEW s \in Seq(T), IsInjective(s),
         NEW g \in 1 .. Len(s), NEW h \in g + 1 .. Len(s) + 1, NEW y
  PROVE  /\ y \in Members(s, g + 1, h - 1) =>
              y \in ToSet(s) /\ Ahead(s, s[g], y) /\ (h <= Len(s) => Ahead(s, y, s[h]))
         /\ Ahead(s, s[g], y) /\ (h <= Len(s) => Ahead(s, y, s[h])) =>
              y \in Members(s, g + 1, h - 1)
<1>1. Len(s) \in Nat /\ DOMAIN s = 1 .. Len(s)
  OBVIOUS
<1>2. ASSUME y \in Members(s, g + 1, h - 1)
      PROVE  y \in ToSet(s) /\ Ahead(s, s[g], y) /\ (h <= Len(s) => Ahead(s, y, s[h]))
  <2>1. PICK i \in g + 1 .. h - 1 : s[i] = y
    BY <1>2 DEF Members
  <2>2. g \in DOMAIN s /\ i \in DOMAIN s /\ g < i /\ i < h /\ (h <= Len(s) => h \in DOMAIN s)
    BY <1>1
  <2> QED
    BY <2>1, <2>2 DEF ToSet, Ahead
<1>3. ASSUME Ahead(s, s[g], y), h <= Len(s) => Ahead(s, y, s[h])
      PROVE  y \in Members(s, g + 1, h - 1)
  <2>1. PICK a \in DOMAIN s, i \in DOMAIN s : a < i /\ s[a] = s[g] /\ s[i] = y
    BY <1>3 DEF Ahead
  <2>2. a = g
    BY <1>1, <2>1 DEF IsInjective
  <2>3. i < h
    <3>1. CASE h <= Len(s)
      <4>1. PICK j \in DOMAIN s, b \in DOMAIN s : j < b /\ s[j] = y /\ s[b] = s[h]
        BY <1>3, <3>1 DEF Ahead
      <4>2. h \in DOMAIN s
        BY <1>1, <3>1
      <4>3. j = i /\ b = h
        BY <2>1, <4>1, <4>2 DEF IsInjective
      <4> QED
        BY <4>1, <4>3
    <3>2. CASE ~(h <= Len(s))
      BY <1>1, <3>2
    <3> QED
      BY <3>1, <3>2
  <2>4. i \in g + 1 .. h - 1
    BY <1>1, <2>1, <2>2, <2>3
  <2> QED
    BY <2>1, <2>4 DEF Members
<1> QED
  BY <1>2, <1>3
=============================================================================
