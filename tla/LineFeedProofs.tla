---------------------------- MODULE LineFeedProofs ----------------------------
(****************************************************************************)
(* Theorems about LineFeed, for every set of texts and every way to cut     *)
(* them into buffers: the lines are those of LineSplit, whatever the cuts,  *)
(* and front matter and blocks divide them as the guide says.               *)
(****************************************************************************)
EXTENDS LineFeed, ListLemmas, SequenceTheorems, FiniteSetTheorems, TLAPS

(* The inductive invariant                                                  *)

\* Where the parser is in the text.  A LF that completes the CR LF whose CR
\* ended the last buffer has been read already, though it comes in the next.
Here ==
  IF last_buffer_ended_with_cr /\ end < Len(text) /\ text[end + 1] = "LF"
  THEN buffer + 1 ELSE buffer

\* Where the line begun in linebuf starts: each character of it was one.
Start == Here - Len(linebuf)

\* A line of t starts at s: at the beginning, or right after a line end.
LastBreak(t, b, s) ==
  /\ b \in Promise!Breaks(t)
  /\ b < s /\ Promise!After(t, b) = s
  /\ \A j \in Promise!Breaks(t) : j < s => j <= b

Begins(t, s) == s = 1 \/ \E b \in Promise!Breaks(t) : LastBreak(t, b, s)

BreaksBefore(t, s) == {i \in Promise!Breaks(t) : i < s}

\* The text is divided correctly up to where the parser is: the lines counted,
\* and linebuf has the characters of the line begun.
Divided ==
  /\ last_buffer_ended_with_cr => Fed /\ end > 0 /\ text[end] = "CR" /\ linebuf = <<>>
  /\ eof \/ finishing => end = Len(text)
  /\ finishing => Fed
  /\ Start >= 1
  /\ \A i \in 1..Len(linebuf) :
       /\ ~LineEnd(text[Start + i - 1])
       /\ linebuf[i] = IF text[Start + i - 1] = "NUL" THEN "REPL" ELSE text[Start + i - 1]
  /\ \/ Begins(text, Start) /\ Len(lines) = Cardinality(BreaksBefore(text, Start))
     \/ /\ eof \/ finishing
        /\ Fed /\ linebuf = <<>> /\ Len(lines) = Len(Promise!Split(text))
  /\ Len(lines) <= Len(Promise!Split(text))
  /\ \A k \in 1..Len(lines) : lines[k] = Promise!Split(text)[k]

\* The first line opens front matter, and line k closes it.
Opened ==
  /\ front_matter_option
  /\ lines # <<>> /\ is_opening_delimiter(lines[1])

Closing == {k \in 2..Len(lines) : is_closing_delimiter(lines[k])}

FirstClosing(c) == c \in Closing /\ \A k \in Closing : c <= k

\* The front matter node of the lines from the second up to n, that ends on line m.
MatterTo(n, m) ==
  [info |-> parse_info(lines[1]), literal |-> SubSeq(lines, 2, n), end_line |-> m]

\* What the scanner has gathered agrees with the lines read so far.
Gathered ==
  /\ ~front_matter_scanning => front_matter_buf = <<>> /\ front_matter_info = <<>>
  /\ ~Opened => /\ ~front_matter_scanning /\ front = NONE
                /\ body = [i \in 1..Len(lines) |-> i]
  /\ Opened /\ front_matter_scanning =>
       /\ Closing = {}
       /\ front = NONE /\ body = <<>>
       /\ front_matter_info = parse_info(lines[1])
       /\ front_matter_buf = SubSeq(lines, 2, Len(lines))
  /\ Opened /\ ~front_matter_scanning =>
       \/ \E c \in Closing :
            /\ FirstClosing(c)
            /\ front = MatterTo(c - 1, c)
            /\ body = [i \in 1..(Len(lines) - c) |-> c + i]
       \/ /\ finishing /\ linebuf = <<>>
          /\ Closing = {}
          /\ front = MatterTo(Len(lines), Len(lines))
          /\ body = <<>>

IInv == TypeOK /\ Divided /\ Gathered

-----------------------------------------------------------------------------
(* Sequences of characters                                                  *)

\* The info string of front matter is part of its first line.
LEMMA InfoType ==
  ASSUME NEW l \in Seq(STRING)
  PROVE  parse_info(l) \in Seq(STRING)
<1> DEFINE word == {i \in 4..Len(l) : l[i] # " "}
           first == CHOOSE i \in word : \A j \in word : i <= j
           last == CHOOSE i \in word : \A j \in word : j <= i
<1>1. parse_info(l) = IF word = {} THEN <<>> ELSE SubSeq(l, first, last)
  BY DEF parse_info
<1>2. Len(l) \in Nat /\ <<>> \in Seq(STRING)
  OBVIOUS
<1>3. \A i \in word : i \in 0..Len(l) /\ i \in 4..Len(l)
  <2>1. ASSUME NEW i \in 4..Len(l) PROVE i \in 0..Len(l)
    BY <1>2
  <2> QED
    BY <2>1
<1>4. CASE word # {}
  <2> HIDE DEF word
  <2>1. first \in word
    <3>1. \E i \in word : \A j \in word : i <= j
      <4>1. word \in SUBSET Nat
        BY <1>2, <1>3
      <4> QED
        BY <1>4, <4>1, LeastNumber
    <3> QED
      BY <3>1
  <2>2. last \in word
    <3>1. \E i \in word : \A j \in word : j <= i
      <4>1. word \in SUBSET (0..Len(l))
        BY <1>3
      <4> QED
        BY <1>2, <1>4, <4>1, GreatestNumber
    <3> QED
      BY <3>1
  <2>3. first \in 4..Len(l) /\ last \in 4..Len(l)
    BY <1>3, <2>1, <2>2
  <2>4. SubSeq(l, first, last) \in Seq(STRING)
    <3> HIDE DEF first, last
    <3> QED
      BY <2>3
  <2> QED
    BY <1>1, <1>4, <2>4
<1> HIDE DEF word, first, last
<1> QED
  BY <1>1, <1>2, <1>4

\* Three dashes at the start of a line, character by character and as a piece.
LEMMA DashesTogether ==
  ASSUME NEW l \in Seq(STRING)
  PROVE  Dashes(l) <=> Len(l) >= 3 /\ SubSeq(l, 1, 3) = <<"-", "-", "-">>
<1>1. ASSUME Len(l) >= 3
      PROVE  Len(SubSeq(l, 1, 3)) = 3 /\ \A i \in 1..3 : SubSeq(l, 1, 3)[i] = l[i]
  BY <1>1
<1>2. ASSUME Len(l) >= 3, \A i \in 1..3 : l[i] = "-"
      PROVE  SubSeq(l, 1, 3) = <<"-", "-", "-">>
  <2>1. SubSeq(l, 1, 3) \in Seq(STRING) /\ <<"-", "-", "-">> \in Seq(STRING)
    BY <1>2
  <2>2. Len(<<"-", "-", "-">>) = 3 /\ \A i \in 1..3 : <<"-", "-", "-">>[i] = "-"
    OBVIOUS
  <2>3. Len(SubSeq(l, 1, 3)) = 3 /\ \A i \in 1..3 : SubSeq(l, 1, 3)[i] = "-"
    BY <1>1, <1>2
  <2> QED
    BY <2>1, <2>2, <2>3, SeqEqual
<1>3. ASSUME Len(l) >= 3, SubSeq(l, 1, 3) = <<"-", "-", "-">>
      PROVE  \A i \in 1..3 : l[i] = "-"
  <2>1. <<"-", "-", "-">>[1] = "-" /\ <<"-", "-", "-">>[2] = "-" /\ <<"-", "-", "-">>[3] = "-"
    OBVIOUS
  <2>2. SubSeq(l, 1, 3)[1] = "-" /\ SubSeq(l, 1, 3)[2] = "-" /\ SubSeq(l, 1, 3)[3] = "-"
    BY <1>3, <2>1
  <2>3. l[1] = "-" /\ l[2] = "-" /\ l[3] = "-"
    BY <1>1, <1>3, <2>2
  <2> QED
    BY <2>3
<1> QED
  BY <1>2, <1>3 DEF Dashes

-----------------------------------------------------------------------------
(* The lines of a text, as LineSplit divides it                             *)

\* The places where a line of t stops.
Stops(t) == Promise!Breaks(t) \cup Promise!Rest(t)

Upto(t, e) == {j \in Stops(t) : j <= e}

\* Lines stop within the text, or at its end (S_parser_feed).
LEMMA StopsWithin ==
  ASSUME NEW t \in Seq(STRING)
  PROVE  /\ Promise!Breaks(t) \subseteq 1..Len(t)
         /\ Promise!Rest(t) \subseteq {Len(t) + 1}
         /\ Stops(t) \subseteq 1..(Len(t) + 1)
         /\ IsFiniteSet(Stops(t)) /\ Cardinality(Stops(t)) \in Nat
<1>1. Len(t) \in Nat /\ DOMAIN t = 1..Len(t)
  OBVIOUS
<1>2. Promise!Breaks(t) \subseteq 1..Len(t)
  BY <1>1 DEF Promise!Breaks
<1>3. Promise!Rest(t) \subseteq {Len(t) + 1}
  BY DEF Promise!Rest
<1>4. Stops(t) \subseteq 1..(Len(t) + 1)
  BY <1>1, <1>2, <1>3 DEF Stops
<1>5. IsFiniteSet(1..(Len(t) + 1))
  BY <1>1, FS_Interval
<1>6. IsFiniteSet(Stops(t))
  BY <1>4, <1>5, FS_Subset
<1> QED
  BY <1>2, <1>3, <1>4, <1>6, FS_CardinalityType

\* How many lines stop up to a place is a number of at most all of them.
LEMMA UptoCounts ==
  ASSUME NEW t \in Seq(STRING), NEW e
  PROVE  /\ IsFiniteSet(Upto(t, e)) /\ Cardinality(Upto(t, e)) \in Nat
         /\ Cardinality(Upto(t, e)) <= Cardinality(Stops(t))
         /\ e \in Stops(t) => Cardinality(Upto(t, e)) >= 1
<1>1. Upto(t, e) \in SUBSET Stops(t)
  BY DEF Upto
<1>2. /\ IsFiniteSet(Upto(t, e)) /\ Cardinality(Upto(t, e)) \in Nat
      /\ Cardinality(Upto(t, e)) <= Cardinality(Stops(t))
  BY <1>1, StopsWithin, FS_Subset, FS_CardinalityType
<1>3. ASSUME e \in Stops(t) PROVE Cardinality(Upto(t, e)) # 0
  <2>1. e <= e
    BY <1>3, StopsWithin
  <2>2. Upto(t, e) # {}
    BY <1>3, <2>1 DEF Upto
  <2> QED
    BY <1>2, <2>2, FS_EmptySet
<1> QED
  BY <1>2, <1>3

\* Two stops with the same number of stops up to them are the same.
LEMMA StopNumbered ==
  ASSUME NEW t \in Seq(STRING), NEW e \in Stops(t), NEW f \in Stops(t),
         Cardinality(Upto(t, e)) = Cardinality(Upto(t, f))
  PROVE  e = f
<1>1. ASSUME NEW a \in Stops(t), NEW b \in Stops(t), a < b,
             Cardinality(Upto(t, a)) = Cardinality(Upto(t, b))
      PROVE  FALSE
  <2>1. a \in Nat /\ b \in Nat /\ \A j \in Stops(t) : j \in Nat
    BY StopsWithin
  <2>2. Upto(t, a) \in SUBSET Upto(t, b)
    <3>1. \A j \in Stops(t) : j <= a => j <= b
      BY <1>1, <2>1
    <3> QED
      BY <3>1 DEF Upto
  <2>3. b \in Upto(t, b) /\ b \notin Upto(t, a)
    BY <1>1, <2>1 DEF Upto
  <2>4. Upto(t, a) = Upto(t, b)
    BY <1>1, <2>2, UptoCounts, FS_Subset
  <2> QED
    BY <2>3, <2>4
<1>2. e \in Nat /\ f \in Nat
  BY StopsWithin
<1> QED
  BY <1>1, <1>2

\* LineSplit counts what Cardinality counts.
LEMMA SameCount ==
  ASSUME NEW S
  PROVE  Promise!Cardinality(S) = Cardinality(S)
BY DEF Promise!Cardinality, Cardinality

\* Line k of a text is what is between its stop, number k, and the stop before.
LEMMA SplitLines ==
  ASSUME NEW t \in Seq(STRING)
  PROVE  /\ Len(Promise!Split(t)) = Cardinality(Stops(t))
         /\ \A e \in Stops(t) :
              Cardinality(Upto(t, e)) = 1 =>
                Promise!Split(t)[1] = Promise!Unmarked(Promise!Shown(SubSeq(t, 1, e - 1)))
         /\ \A e, p \in Stops(t) :
              Cardinality(Upto(t, e)) = Cardinality(Upto(t, p)) + 1 =>
                Promise!Split(t)[Cardinality(Upto(t, e))] =
                  Promise!Shown(SubSeq(t, Promise!After(t, p), e - 1))
<1> DEFINE stops == Promise!Breaks(t) \cup Promise!Rest(t)
           Stop(k) == CHOOSE i \in stops : Promise!Cardinality({j \in stops : j <= i}) = k
           Line(k) == SubSeq(t, IF k = 1 THEN 1 ELSE Promise!After(t, Stop(k - 1)), Stop(k) - 1)
<1>1. Promise!Split(t) =
        [k \in 1..Promise!Cardinality(stops) |->
           IF k = 1 THEN Promise!Unmarked(Promise!Shown(Line(k))) ELSE Promise!Shown(Line(k))]
  BY DEF Promise!Split
<1> HIDE DEF Line
<1>2. Promise!Cardinality(stops) = Cardinality(Stops(t))
  BY SameCount DEF Stops
<1>3. ASSUME NEW e \in Stops(t) PROVE Stop(Cardinality(Upto(t, e))) = e
  <2> DEFINE c == Cardinality(Upto(t, e))
  <2>1. \A i : Promise!Cardinality({j \in stops : j <= i}) = Cardinality(Upto(t, i))
    BY SameCount DEF Upto, Stops
  <2>2. \E i \in stops : Promise!Cardinality({j \in stops : j <= i}) = c
    BY <2>1 DEF Stops
  <2>3. Stop(c) \in Stops(t) /\ Cardinality(Upto(t, Stop(c))) = c
    <3> HIDE DEF c
    <3> QED
      BY <2>1, <2>2 DEF Stops
  <2> HIDE DEF Stop
  <2> QED
    BY <2>3, StopNumbered
<1>4. Cardinality(Stops(t)) \in Nat
  BY StopsWithin
<1> HIDE DEF stops, Stop
<1>5. Len(Promise!Split(t)) = Cardinality(Stops(t))
  BY <1>1, <1>2, <1>4
<1>6. ASSUME NEW e \in Stops(t), Cardinality(Upto(t, e)) = 1
      PROVE  Promise!Split(t)[1] = Promise!Unmarked(Promise!Shown(SubSeq(t, 1, e - 1)))
  <2>1. 1 \in 1..Cardinality(Stops(t)) /\ Stop(1) = e
    BY <1>3, <1>4, <1>6, UptoCounts
  <2> QED
    BY <1>1, <1>2, <2>1 DEF Line
<1>7. ASSUME NEW e \in Stops(t), NEW p \in Stops(t),
             Cardinality(Upto(t, e)) = Cardinality(Upto(t, p)) + 1
      PROVE  Promise!Split(t)[Cardinality(Upto(t, e))] =
               Promise!Shown(SubSeq(t, Promise!After(t, p), e - 1))
  <2> DEFINE k == Cardinality(Upto(t, e))
  <2>1. k \in 1..Cardinality(Stops(t)) /\ k # 1 /\ k - 1 = Cardinality(Upto(t, p))
    BY <1>4, <1>7, UptoCounts
  <2>2. Stop(k) = e /\ Stop(k - 1) = p
    BY <1>3, <2>1
  <2> HIDE DEF k
  <2>3. Promise!Split(t)[k] = Promise!Shown(Line(k))
    BY <1>1, <1>2, <2>1
  <2> QED
    BY <2>1, <2>2, <2>3 DEF k, Line
<1> QED
  BY <1>5, <1>6, <1>7

\* The number of breaks before a place is a number.
LEMMA BeforeCounts ==
  ASSUME NEW t \in Seq(STRING), NEW s
  PROVE  IsFiniteSet(BreaksBefore(t, s)) /\ Cardinality(BreaksBefore(t, s)) \in Nat
<1>1. BreaksBefore(t, s) \in SUBSET Stops(t)
  BY DEF BreaksBefore, Stops
<1> QED
  BY <1>1, StopsWithin, FS_Subset, FS_CardinalityType

\* The first line end in a line that starts at s ends it: also a LF, which is
\* not the second half of a CR LF (SkipLineEnd).
LEMMA FirstBreak ==
  ASSUME NEW t \in Seq(STRING), NEW s \in Nat \ {0}, Begins(t, s),
         NEW e \in s..Len(t), LineEnd(t[e]), \A i \in s..(e - 1) : ~LineEnd(t[i])
  PROVE  /\ e \in Promise!Breaks(t)
         /\ \A j \in Promise!Breaks(t) : j < e => j < s
         /\ Promise!After(t, e) \in {e + 1, e + 2}
         /\ LastBreak(t, e, Promise!After(t, e))
         /\ BreaksBefore(t, Promise!After(t, e)) = BreaksBefore(t, s) \cup {e}
<1>1. /\ Len(t) \in Nat /\ DOMAIN t = 1..Len(t) /\ e \in 1..Len(t)
      /\ Promise!Breaks(t) \subseteq 1..Len(t)
  BY StopsWithin
<1>2. ASSUME t[e] = "LF", e > 1, t[e - 1] = "CR" PROVE FALSE
  <2>1. e = s
    <3>1. CASE e - 1 >= s
      BY <1>2, <3>1 DEF LineEnd
    <3> QED
      BY <3>1
  <2>2. PICK b \in Promise!Breaks(t) : LastBreak(t, b, s)
    BY <1>2, <2>1 DEF Begins
  <2>3. b < s /\ Promise!After(t, b) = s /\ b \in 1..Len(t)
    BY <1>1, <2>2 DEF LastBreak
  <2>4. CASE t[b] = "CR" /\ b < Len(t) /\ t[b + 1] = "LF"
    <3>1. b + 2 = e
      BY <2>1, <2>3, <2>4 DEF Promise!After
    <3> QED
      BY <1>2, <2>3, <2>4, <3>1
  <2>5. CASE ~(t[b] = "CR" /\ b < Len(t) /\ t[b + 1] = "LF")
    <3>1. b + 1 = e
      BY <2>1, <2>3, <2>5 DEF Promise!After
    <3> QED
      BY <1>1, <1>2, <2>3, <2>5, <3>1
  <2> QED
    BY <2>4, <2>5
<1>3. e \in Promise!Breaks(t)
  BY <1>1, <1>2 DEF Promise!Breaks, LineEnd
<1>4. ASSUME NEW j \in Promise!Breaks(t), j < e PROVE j < s
  BY <1>1, <1>4 DEF Promise!Breaks, LineEnd
<1>5. Promise!After(t, e) \in {e + 1, e + 2}
  BY DEF Promise!After
<1>6. ASSUME NEW j \in Promise!Breaks(t), j < Promise!After(t, e) PROVE j <= e
  <2>1. CASE j = e + 1
    <3>1. t[e] = "CR" /\ t[e + 1] = "LF"
      BY <1>6, <2>1 DEF Promise!After
    <3> QED
      BY <1>1, <2>1, <3>1 DEF Promise!Breaks
  <2> QED
    BY <1>1, <1>5, <1>6, <2>1
<1>7. LastBreak(t, e, Promise!After(t, e))
  BY <1>1, <1>3, <1>5, <1>6 DEF LastBreak
<1>8. BreaksBefore(t, Promise!After(t, e)) = BreaksBefore(t, s) \cup {e}
  <2>1. ASSUME NEW j \in Promise!Breaks(t)
        PROVE  j < Promise!After(t, e) <=> j < s \/ j = e
    BY <1>1, <1>4, <1>5, <1>6
  <2> QED
    BY <1>3, <2>1 DEF BreaksBefore
<1> QED
  BY <1>3, <1>4, <1>5, <1>7, <1>8

\* Text after the last line end is a line too (cmark_parser_finish).
LEMMA RestIsLine ==
  ASSUME NEW t \in Seq(STRING), NEW s \in 1..Len(t), Begins(t, s),
         \A i \in s..Len(t) : ~LineEnd(t[i])
  PROVE  /\ Len(t) + 1 \in Promise!Rest(t)
         /\ \A j \in Promise!Breaks(t) : j < s
<1>1. /\ Len(t) \in Nat /\ DOMAIN t = 1..Len(t) /\ t # <<>>
      /\ Promise!Breaks(t) \subseteq 1..Len(t)
  BY StopsWithin
<1>2. ASSUME NEW j \in Promise!Breaks(t) PROVE j < s
  BY <1>1 DEF Promise!Breaks, LineEnd
<1>3. ASSUME NEW j \in Promise!Breaks(t) PROVE Promise!After(t, j) <= Len(t)
  <2>1. j \in 1..Len(t) /\ j < s
    BY <1>1, <1>2
  <2>2. PICK b \in Promise!Breaks(t) : LastBreak(t, b, s)
    BY <2>1 DEF Begins
  <2>3. b \in 1..Len(t) /\ b < s /\ Promise!After(t, b) = s /\ j <= b
    BY <1>1, <2>1, <2>2 DEF LastBreak
  <2>4. CASE j = b
    BY <2>3, <2>4
  <2>5. CASE j < b
    <3>1. CASE t[j] = "CR" /\ j < Len(t) /\ t[j + 1] = "LF"
      <4>1. j + 1 \notin Promise!Breaks(t)
        BY <2>1, <3>1 DEF Promise!Breaks
      <4>2. j + 1 # b
        BY <4>1
      <4> QED
        BY <2>1, <2>3, <2>5, <3>1, <4>2 DEF Promise!After
    <3>2. CASE ~(t[j] = "CR" /\ j < Len(t) /\ t[j + 1] = "LF")
      BY <2>1, <2>3, <2>5, <3>2 DEF Promise!After
    <3> QED
      BY <3>1, <3>2
  <2> QED
    BY <2>1, <2>3, <2>4, <2>5
<1> QED
  BY <1>1, <1>2, <1>3 DEF Promise!Rest

\* There is no such text when the parser is past the end.
LEMMA NoRest ==
  ASSUME NEW t \in Seq(STRING), Begins(t, Len(t) + 1)
  PROVE  Promise!Rest(t) = {} /\ Stops(t) = BreaksBefore(t, Len(t) + 1)
<1>1. Len(t) \in Nat /\ Promise!Breaks(t) \subseteq 1..Len(t)
  BY StopsWithin
<1>2. Promise!Rest(t) = {}
  <2>1. CASE Len(t) = 0
    <3>1. t = <<>>
      BY <2>1
    <3> QED
      BY <3>1 DEF Promise!Rest
  <2>2. CASE Len(t) # 0
    <3>1. PICK b \in Promise!Breaks(t) : LastBreak(t, b, Len(t) + 1)
      BY <1>1, <2>2 DEF Begins
    <3>2. ~(Promise!After(t, b) <= Len(t))
      BY <1>1, <3>1 DEF LastBreak
    <3> QED
      BY <3>1, <3>2 DEF Promise!Rest
  <2> QED
    BY <2>1, <2>2
<1>3. \A j \in Promise!Breaks(t) : j < Len(t) + 1
  BY <1>1
<1> QED
  BY <1>2, <1>3 DEF Stops, BreaksBefore

\* The next line of a text: from where a line starts to the next stop.
LEMMA NextLine ==
  ASSUME NEW t \in Seq(STRING), NEW s \in Nat \ {0}, Begins(t, s),
         NEW e \in Stops(t), e >= s, \A j \in Stops(t) : j < e => j < s
  PROVE  LET n == Cardinality(BreaksBefore(t, s))
             line == Promise!Shown(SubSeq(t, s, e - 1))
         IN  /\ n \in Nat /\ n + 1 <= Len(Promise!Split(t))
             /\ Promise!Split(t)[n + 1] = IF n = 0 THEN Promise!Unmarked(line) ELSE line
<1> DEFINE n == Cardinality(BreaksBefore(t, s))
           line == Promise!Shown(SubSeq(t, s, e - 1))
<1>1. /\ Len(t) \in Nat /\ Stops(t) \subseteq 1..(Len(t) + 1)
      /\ Promise!Breaks(t) \subseteq 1..Len(t) /\ Promise!Rest(t) \subseteq {Len(t) + 1}
  BY StopsWithin
<1>2. n \in Nat /\ IsFiniteSet(BreaksBefore(t, s))
  BY BeforeCounts
<1>3. Upto(t, e) = BreaksBefore(t, s) \cup {e}
  <2>1. ASSUME NEW j \in Stops(t), j <= e, j # e PROVE j \in BreaksBefore(t, s)
    <3>1. j < s /\ j < e
      BY <1>1, <2>1
    <3>2. j \notin Promise!Rest(t)
      BY <1>1, <3>1
    <3> QED
      BY <3>1, <3>2 DEF Stops, BreaksBefore
  <2>2. ASSUME NEW j \in BreaksBefore(t, s) PROVE j \in Stops(t) /\ j <= e
    BY <1>1 DEF BreaksBefore, Stops
  <2>3. e <= e
    BY <1>1
  <2> QED
    BY <2>1, <2>2, <2>3 DEF Upto
<1>4. e \notin BreaksBefore(t, s)
  BY <1>1 DEF BreaksBefore
<1>5. Cardinality(Upto(t, e)) = n + 1
  BY <1>2, <1>3, <1>4, FS_AddElement
<1>6. n + 1 <= Len(Promise!Split(t))
  BY <1>5, UptoCounts, SplitLines
<1>7. CASE s = 1
  <2>1. BreaksBefore(t, s) = {}
    BY <1>1, <1>7 DEF BreaksBefore
  <2>2. n = 0
    BY <2>1, FS_EmptySet
  <2>3. Promise!Split(t)[1] = Promise!Unmarked(line)
    BY <1>5, <1>7, <2>2, SplitLines
  <2> QED
    BY <1>2, <1>6, <2>2, <2>3
<1>8. CASE s # 1
  <2>1. PICK b \in Promise!Breaks(t) : LastBreak(t, b, s)
    BY <1>8 DEF Begins
  <2>2. b \in Stops(t) /\ b \in 1..Len(t) /\ b < s /\ Promise!After(t, b) = s
    BY <1>1, <2>1 DEF LastBreak, Stops
  <2>3. Upto(t, b) = BreaksBefore(t, s)
    <3>1. ASSUME NEW j \in Stops(t), j <= b PROVE j \in BreaksBefore(t, s)
      <4>1. j < s /\ j \notin Promise!Rest(t)
        BY <1>1, <2>2, <3>1
      <4> QED
        BY <4>1 DEF Stops, BreaksBefore
    <3>2. ASSUME NEW j \in BreaksBefore(t, s) PROVE j \in Stops(t) /\ j <= b
      BY <2>1 DEF LastBreak, BreaksBefore, Stops
    <3> QED
      BY <3>1, <3>2 DEF Upto
  <2>4. n # 0
    <3>1. b \in BreaksBefore(t, s)
      BY <2>1, <2>2 DEF BreaksBefore
    <3> QED
      BY <1>2, <3>1, FS_EmptySet
  <2>5. Cardinality(Upto(t, e)) = Cardinality(Upto(t, b)) + 1
    BY <1>5, <2>3
  <2>6. Promise!Split(t)[Cardinality(Upto(t, e))] =
          Promise!Shown(SubSeq(t, Promise!After(t, b), e - 1))
    BY <2>2, <2>5, SplitLines
  <2>7. Promise!Split(t)[n + 1] = line
    BY <1>5, <2>2, <2>6
  <2> QED
    BY <1>2, <1>6, <2>4, <2>7
<1> QED
  BY <1>7, <1>8

-----------------------------------------------------------------------------
(* The scan of the buffer                                                   *)

\* The scan for a line end stops at the first line end or NUL of the buffer, or
\* past its end, and at nothing in between (S_parser_feed).
LEMMA EolStops ==
  ASSUME TypeOK, ~Fed
  PROVE  /\ eol \in buffer..(end + 1)
         /\ \A i \in buffer..(eol - 1) : ~LineEnd(text[i]) /\ text[i] # "NUL"
         /\ eol <= end => LineEnd(text[eol]) \/ text[eol] = "NUL"
<1> DEFINE stops == {i \in buffer..end : LineEnd(text[i]) \/ text[i] = "NUL"}
           least == CHOOSE i \in stops : \A j \in stops : i <= j
<1>1. buffer \in Nat /\ end \in Nat /\ buffer <= end
  BY DEF TypeOK, Fed
<1>2. eol = IF stops = {} THEN end + 1 ELSE least
  BY DEF eol
<1>3. CASE stops = {}
  BY <1>1, <1>2, <1>3
<1>4. CASE stops # {}
  <2>1. stops \in SUBSET Nat
    BY <1>1
  <2>2. least \in stops /\ \A j \in stops : least <= j
    <3> HIDE DEF stops
    <3>1. \E i \in stops : \A j \in stops : i <= j
      BY <1>4, <2>1, LeastNumber
    <3> QED
      BY <3>1
  <2> HIDE DEF least
  <2>3. eol = least
    BY <1>2, <1>4
  <2>4. least \in buffer..end /\ (LineEnd(text[least]) \/ text[least] = "NUL")
    BY <2>2
  <2>5. ASSUME NEW i \in buffer..(least - 1) PROVE ~LineEnd(text[i]) /\ text[i] # "NUL"
    <3>1. i \in buffer..end /\ ~(least <= i)
      BY <1>1, <2>4
    <3>2. i \notin stops
      BY <2>2, <3>1
    <3> QED
      BY <3>1, <3>2
  <2> QED
    BY <1>1, <2>3, <2>4, <2>5
<1> QED
  BY <1>3, <1>4

\* The text is a sequence of characters, and the buffer is part of it.
LEMMA TextType ==
  ASSUME TypeOK
  PROVE  /\ text \in Seq(STRING) /\ Len(text) \in Nat
         /\ end \in Nat /\ buffer \in Nat /\ end <= Len(text) /\ buffer <= end + 1
         /\ buffer >= 1
         /\ \A i \in 1..Len(text) : text[i] \in STRING
<1>1. text \in Seq(STRING)
  BY LineFeedAssumption DEF TypeOK
<1>2. Len(text) \in Nat
  BY <1>1
<1>3. end \in 0..Len(text) /\ buffer \in 1..(end + 1)
  BY DEF TypeOK
<1> QED
  BY <1>1, <1>2, <1>3

\* A chunk is the text from where the parser is to where the scan stopped.
LEMMA ChunkType ==
  ASSUME TypeOK, ~Fed
  PROVE  /\ Chunk \in Seq(STRING) /\ Len(Chunk) = eol - buffer
         /\ \A i \in 1..Len(Chunk) : /\ Chunk[i] = text[buffer + i - 1]
                                     /\ Chunk[i] \notin {"CR", "LF", "NUL"}
<1>1. /\ eol \in buffer..(end + 1)
      /\ \A i \in buffer..(eol - 1) : ~LineEnd(text[i]) /\ text[i] # "NUL"
  BY EolStops
<1>2. /\ end <= Len(text) /\ buffer \in Nat /\ end \in Nat /\ Len(text) \in Nat /\ buffer >= 1
      /\ \A i \in 1..Len(text) : text[i] \in STRING
  BY TextType
<1>3. \A i \in buffer..(eol - 1) : text[i] \in STRING
  BY <1>1, <1>2
<1>4. /\ SubSeq(text, buffer, eol - 1) \in Seq(STRING)
      /\ Len(SubSeq(text, buffer, eol - 1)) = eol - buffer
      /\ \A i \in 1..(eol - buffer) : SubSeq(text, buffer, eol - 1)[i] = text[buffer + i - 1]
  <2> DEFINE m == eol - 1
  <2>1. m \in Int /\ buffer \in Int /\ eol - buffer = m - buffer + 1
        /\ (buffer <= m \/ m - buffer + 1 = 0)
    BY <1>1, <1>2
  <2>2. \A i \in buffer..m : text[i] \in STRING
    BY <1>3
  <2> HIDE DEF m
  <2>3. /\ SubSeq(text, buffer, m) \in Seq(STRING)
        /\ Len(SubSeq(text, buffer, m)) = IF buffer <= m THEN m - buffer + 1 ELSE 0
        /\ \A i \in 1..(m - buffer + 1) : SubSeq(text, buffer, m)[i] = text[buffer + i - 1]
    BY <2>1, <2>2, SubSeqProperties
  <2> QED
    BY <2>1, <2>3 DEF m
<1>5. \A i \in 1..(eol - buffer) : buffer + i - 1 \in buffer..(eol - 1)
  BY <1>1, <1>2
<1> QED
  BY <1>1, <1>4, <1>5 DEF Chunk, LineEnd

-----------------------------------------------------------------------------
(* Front matter                                                             *)

\* The first line, without a byte order mark, is a line.
LEMMA BomType ==
  ASSUME NEW l \in Seq(STRING)
  PROVE  SkipBom(l) \in Seq(STRING)
<1>1. l # <<>> => Tail(l) \in Seq(STRING)
  OBVIOUS
<1> QED
  BY <1>1 DEF SkipBom

\* One more line: the first line stays, and only the new one can be a new
\* closing delimiter.
LEMMA OneMoreLine ==
  ASSUME TypeOK, NEW l \in Seq(STRING), lines' = Append(lines, l)
  PROVE  /\ lines' \in Seq(Seq(STRING)) /\ Len(lines) \in Nat /\ Len(lines') = Len(lines) + 1
         /\ \A k \in 1..Len(lines) : lines'[k] = lines[k]
         /\ lines'[Len(lines) + 1] = l
         /\ lines = <<>> <=> Len(lines) = 0
         /\ \A k \in Closing : k \in 2..Len(lines)
         /\ Closing' = Closing \cup {k \in {Len(lines) + 1} : k > 1 /\ is_closing_delimiter(l)}
<1>1. /\ lines' \in Seq(Seq(STRING)) /\ Len(lines) \in Nat /\ Len(lines') = Len(lines) + 1
      /\ \A k \in 1..Len(lines) : lines'[k] = lines[k]
      /\ lines'[Len(lines) + 1] = l
      /\ lines = <<>> <=> Len(lines) = 0
  <2>1. lines \in Seq(Seq(STRING))
    BY DEF TypeOK
  <2> QED
    BY <2>1, AppendProperties, EmptySeq
<1>2. ASSUME NEW k \in 2..(Len(lines) + 1)
      PROVE  is_closing_delimiter(lines'[k]) <=>
               IF k = Len(lines) + 1 THEN is_closing_delimiter(l)
                                     ELSE is_closing_delimiter(lines[k])
  BY <1>1
<1>3. Closing' = {k \in 2..Len(lines') : is_closing_delimiter(lines'[k])}
  BY DEF Closing
<1>4. Closing' = Closing \cup {k \in {Len(lines) + 1} : k > 1 /\ is_closing_delimiter(l)}
  <2>1. ASSUME NEW k \in Closing' PROVE k \in 2..(Len(lines) + 1) /\ is_closing_delimiter(lines'[k])
    BY <1>1, <1>3, <2>1
  <2>2. ASSUME NEW k \in Closing'
        PROVE  k \in Closing \cup {j \in {Len(lines) + 1} : j > 1 /\ is_closing_delimiter(l)}
    <3>1. CASE k = Len(lines) + 1
      BY <1>1, <1>2, <2>1, <3>1
    <3>2. CASE k # Len(lines) + 1
      <4>1. k \in 2..Len(lines)
        BY <1>1, <2>1, <3>2
      <4> QED
        BY <1>2, <2>1, <3>2, <4>1 DEF Closing
    <3> QED
      BY <3>1, <3>2
  <2>3. ASSUME NEW k \in Closing \cup {j \in {Len(lines) + 1} : j > 1 /\ is_closing_delimiter(l)}
        PROVE  k \in Closing'
    <3>1. CASE k \in Closing
      <4>1. k \in 2..Len(lines) /\ is_closing_delimiter(lines[k])
        BY <3>1 DEF Closing
      <4>2. k \in 2..(Len(lines) + 1) /\ k # Len(lines) + 1
        BY <1>1, <4>1
      <4>3. is_closing_delimiter(lines'[k])
        BY <1>2, <4>1, <4>2
      <4> QED
        BY <1>1, <1>3, <4>2, <4>3
    <3>2. CASE k \notin Closing
      <4>1. k = Len(lines) + 1 /\ k > 1 /\ is_closing_delimiter(l)
        BY <2>3, <3>2
      <4>2. k \in 2..(Len(lines) + 1)
        BY <1>1, <4>1
      <4>3. is_closing_delimiter(lines'[k])
        BY <1>2, <4>1, <4>2
      <4> QED
        BY <1>1, <1>3, <4>2, <4>3
    <3> QED
      BY <3>1, <3>2
  <2> QED
    BY <2>2, <2>3
<1> QED
  BY <1>1, <1>4 DEF Closing

\* A line goes to the front matter or to the blocks, and what was gathered
\* agrees with the lines again (cmark_front_matter_process_line).
LEMMA LineGathered ==
  ASSUME TypeOK, Gathered, ~(finishing /\ linebuf = <<>>),
         NEW b \in Seq(STRING), ProcessLine(b), UNCHANGED front_matter_option
  PROVE  /\ lines' \in Seq(Seq(STRING)) /\ body' \in Seq(Nat)
         /\ front_matter_scanning' \in BOOLEAN
         /\ front_matter_info' \in Seq(STRING) /\ front_matter_buf' \in Seq(Seq(STRING))
         /\ front' \in FrontMatter \cup {NONE}
         /\ Gathered'
<1>1. PICK l \in Seq(STRING) : l = SkipBom(b)
  BY BomType
<1>0. PICK n \in Nat : n = Len(lines) + 1
  BY DEF TypeOK
<1>2. lines' = Append(lines, l) /\ FrontMatterLine(l, n)
  BY <1>0, <1>1 DEF ProcessLine, line_number
<1>3. /\ lines' \in Seq(Seq(STRING)) /\ Len(lines) \in Nat /\ Len(lines') = Len(lines) + 1
      /\ \A k \in 1..Len(lines) : lines'[k] = lines[k]
      /\ lines'[Len(lines) + 1] = l
      /\ lines = <<>> <=> Len(lines) = 0
      /\ \A k \in Closing : k \in 2..Len(lines)
      /\ Closing' = Closing \cup {k \in {n} : k > 1 /\ is_closing_delimiter(l)}
      /\ n = Len(lines) + 1
  BY <1>0, <1>1, <1>2, OneMoreLine
<1>4. /\ body \in Seq(Nat) /\ front_matter_scanning \in BOOLEAN
      /\ front_matter_info \in Seq(STRING) /\ front_matter_buf \in Seq(Seq(STRING))
      /\ front \in FrontMatter \cup {NONE} /\ front_matter_option \in BOOLEAN
      /\ lines \in Seq(Seq(STRING))
  BY DEF TypeOK
<1>5. lines' # <<>>
  BY <1>3
<1>6. ASSUME lines # <<>> PROVE Opened' = Opened /\ lines'[1] = lines[1]
  <2>1. lines'[1] = lines[1]
    BY <1>3, <1>6
  <2> QED
    BY <1>5, <1>6, <2>1 DEF Opened
<1>7. CASE front_matter_option /\ n = 1 /\ is_opening_delimiter(l) /\ OpenFrontMatter(l)
  <2>1. lines = <<>> /\ ~Opened /\ Closing' = {} /\ lines'[1] = l
    BY <1>3, <1>7 DEF Opened
  <2>2. Opened'
    BY <1>5, <1>7, <2>1 DEF Opened
  <2>3. ~front_matter_scanning /\ front = NONE /\ front_matter_buf = <<>> /\ body = <<>>
    <3>1. body = [i \in 1..0 |-> i]
      BY <1>3, <2>1 DEF Gathered
    <3>2. [i \in 1..0 |-> i] = <<>>
      OBVIOUS
    <3> QED
      BY <2>1, <3>1, <3>2 DEF Gathered
  <2>4. SubSeq(lines', 2, Len(lines')) = <<>>
    BY <1>3, <2>1
  <2>5. parse_info(l) \in Seq(STRING)
    BY <1>1, InfoType
  <2> QED
    BY <1>3, <1>4, <1>7, <2>1, <2>2, <2>3, <2>4, <2>5 DEF OpenFrontMatter, Gathered
<1>8. ASSUME front_matter_option, n > 1, front_matter_scanning
      PROVE  /\ lines # <<>> /\ Opened /\ Opened' /\ Closing = {} /\ front = NONE /\ body = <<>>
             /\ front_matter_info = parse_info(lines[1]) /\ lines'[1] = lines[1]
             /\ front_matter_buf = SubSeq(lines, 2, Len(lines))
  <2>1. lines # <<>> /\ Opened
    BY <1>3, <1>8 DEF Gathered
  <2> QED
    BY <1>6, <1>8, <2>1 DEF Gathered
<1>9. CASE /\ front_matter_option /\ n > 1 /\ front_matter_scanning
           /\ is_closing_delimiter(l) /\ create_front_matter_node(n) /\ UNCHANGED body
  <2>1. Closing' = {n} /\ FirstClosing(n)'
    <3>1. Closing' = {n}
      BY <1>3, <1>8, <1>9
    <3>2. n <= n
      BY <1>3
    <3> QED
      BY <3>1, <3>2 DEF FirstClosing
  <2>2. SubSeq(lines', 2, n - 1) = SubSeq(lines, 2, Len(lines))
    <3>1. \A k \in 2..(n - 1) : lines'[k] = lines[k]
      BY <1>3
    <3>2. n - 1 \in Nat /\ n - 1 = Len(lines) /\ n - 1 <= Len(lines')
      BY <1>3
    <3>3. SubSeq(lines', 2, n - 1) = SubSeq(lines, 2, n - 1)
      BY <1>3, <1>4, <3>1, <3>2, SamePiece
    <3> QED
      BY <3>2, <3>3
  <2>3. front' = MatterTo(n - 1, n)'
    BY <1>8, <1>9, <2>2 DEF create_front_matter_node, MatterTo
  <2>4. body' = [i \in 1..(Len(lines') - n) |-> n + i]
    <3>1. [i \in 1..(Len(lines') - n) |-> n + i] = <<>>
      BY <1>3
    <3> QED
      BY <1>8, <1>9, <3>1
  <2>5. front' \in FrontMatter
    BY <1>3, <1>4, <1>9 DEF create_front_matter_node, FrontMatter
  <2>6. /\ ~front_matter_scanning' /\ front_matter_buf' = <<>> /\ front_matter_info' = <<>>
        /\ front_matter_scanning' \in BOOLEAN
    BY <1>9 DEF create_front_matter_node
  <2>7. Gathered'
    <3>1. n \in Closing'
      BY <2>1
    <3> QED
      BY <1>8, <1>9, <2>1, <2>3, <2>4, <2>6, <3>1 DEF Gathered
  <2> QED
    BY <1>3, <1>4, <1>9, <2>5, <2>6, <2>7
<1>10. CASE /\ front_matter_option /\ n > 1 /\ front_matter_scanning
            /\ ~is_closing_delimiter(l) /\ GatherFrontMatter(l)
  <2>1. Closing' = {}
    BY <1>3, <1>8, <1>10
  <2>2. SubSeq(lines', 2, Len(lines')) = Append(SubSeq(lines, 2, Len(lines)), l)
    <3>1. \A k \in 2..Len(lines) : lines'[k] = lines[k]
      BY <1>3
    <3>2. SubSeq(lines', 2, Len(lines)) = SubSeq(lines, 2, Len(lines))
          /\ SubSeq(lines, 2, Len(lines)) \in Seq(Seq(STRING))
      <4>1. lines \in Seq(Seq(STRING)) /\ lines' \in Seq(Seq(STRING))
        BY <1>3, <1>4
      <4>2. Len(lines) \in Nat /\ Len(lines) <= Len(lines')
        BY <1>3
      <4>3. 2 \in Nat \ {0}
        OBVIOUS
      <4>4. \A k \in 2..Len(lines) : lines[k] = lines'[k]
        BY <3>1
      <4> DEFINE s == lines
                 t == lines'
                 m == Len(lines)
      <4>5. /\ s \in Seq(Seq(STRING)) /\ t \in Seq(Seq(STRING)) /\ m \in Nat
            /\ m <= Len(s) /\ m <= Len(t) /\ \A k \in 2..m : s[k] = t[k]
        BY <4>1, <4>2, <4>4
      <4> HIDE DEF s, t, m
      <4>6. SubSeq(s, 2, m) \in Seq(Seq(STRING)) /\ SubSeq(s, 2, m) = SubSeq(t, 2, m)
        BY <4>3, <4>5, SamePiece
      <4> QED
        BY <4>6 DEF s, t, m
    <3>3. 2 \in 1..Len(lines') /\ n \in 2..Len(lines') /\ n - 1 = Len(lines)
      BY <1>3, <1>10
    <3>4. SubSeq(lines', 2, n) = SubSeq(lines', 2, n - 1) \o <<lines'[n]>>
      BY <1>3, <3>3, SubSeqRecursiveSecond
    <3>5. SubSeq(lines, 2, Len(lines)) \o <<l>> = Append(SubSeq(lines, 2, Len(lines)), l)
      BY <1>1, <3>2, AppendIsConcat
    <3> QED
      BY <1>3, <3>2, <3>3, <3>4, <3>5
  <2>3. front_matter_buf' \in Seq(Seq(STRING))
    BY <1>1, <1>4, <1>10 DEF GatherFrontMatter
  <2>4. Gathered'
    BY <1>8, <1>10, <2>1, <2>2 DEF GatherFrontMatter, Gathered
  <2> QED
    BY <1>3, <1>4, <1>10, <2>3, <2>4 DEF GatherFrontMatter
<1>11. CASE /\ ~front_matter_option \/ IF n = 1 THEN ~is_opening_delimiter(l)
                                              ELSE ~front_matter_scanning
            /\ ToBlocks(n)
  <2>1. UNCHANGED frontVars /\ body' = Append(body, n)
    BY <1>11 DEF ToBlocks
  <2>2. body' \in Seq(Nat)
    BY <1>3, <1>4, <2>1
  <2>3. CASE ~Opened'
    <3>1. ~Opened
      BY <1>6, <2>3 DEF Opened
    <3>2. body = [i \in 1..Len(lines) |-> i] /\ ~front_matter_scanning /\ front = NONE
      BY <3>1 DEF Gathered
    <3>3. Append([i \in 1..Len(lines) |-> i], n) = [i \in 1..n |-> i]
      BY <1>3
    <3> QED
      BY <1>3, <1>4, <2>1, <2>2, <2>3, <3>2, <3>3 DEF Gathered, frontVars
  <2>4. CASE Opened'
    <3>1. n # 1 /\ ~front_matter_scanning /\ lines # <<>> /\ Opened
      <4>1. n # 1
        <5>1. ASSUME n = 1 PROVE FALSE
          BY <1>3, <1>11, <2>4, <5>1 DEF Opened
        <5> QED
          BY <5>1
      <4>2. lines # <<>>
        BY <1>3, <4>1
      <4> QED
        BY <1>6, <1>11, <2>4, <4>1, <4>2 DEF Opened
    <3>2. PICK c \in Closing : /\ FirstClosing(c) /\ front = MatterTo(c - 1, c)
                               /\ body = [i \in 1..(Len(lines) - c) |-> c + i]
      BY <3>1 DEF Gathered
    <3>3. c \in 2..Len(lines)
      BY <1>3
    <3>4. c \in Closing' /\ FirstClosing(c)'
      <4>1. \A k \in Closing' : c <= k
        BY <1>3, <3>2, <3>3 DEF FirstClosing
      <4> QED
        BY <1>3, <4>1 DEF FirstClosing
    <3>5. SubSeq(lines', 2, c - 1) = SubSeq(lines, 2, c - 1)
      <4>1. \A k \in 2..(c - 1) : lines'[k] = lines[k]
        <5>1. \A k \in 1..Len(lines) : lines'[k] = lines[k]
          BY <1>3
        <5>2. \A k \in 2..(c - 1) : k \in 1..Len(lines)
          BY <1>0, <3>3
        <5> QED
          BY <5>1, <5>2
      <4>2. c - 1 \in Nat /\ c - 1 <= Len(lines) /\ c - 1 <= Len(lines')
        BY <1>3, <3>3
      <4>3. lines \in Seq(Seq(STRING)) /\ lines' \in Seq(Seq(STRING))
        BY <1>3, <1>4
      <4> QED
        BY <4>1, <4>2, <4>3, SamePiece
    <3>6. front' = MatterTo(c - 1, c)'
      BY <1>6, <2>1, <3>1, <3>2, <3>5 DEF MatterTo, frontVars
    <3>7. body' = [i \in 1..(Len(lines') - c) |-> c + i]
      <4>1. Append([i \in 1..(Len(lines) - c) |-> c + i], n) =
              [i \in 1..(Len(lines) + 1 - c) |-> c + i]
        BY <1>3, <3>3
      <4>2. body' = [i \in 1..(Len(lines) + 1 - c) |-> c + i]
        BY <2>1, <3>2, <4>1
      <4>3. Len(lines') - c = Len(lines) + 1 - c
        BY <1>3
      <4> QED
        BY <4>2, <4>3
    <3>8. Gathered'
      BY <1>4, <2>1, <2>4, <3>1, <3>4, <3>6, <3>7 DEF Gathered, frontVars
    <3> QED
      BY <1>3, <1>4, <2>1, <2>2, <3>8 DEF frontVars
  <2> QED
    BY <2>3, <2>4
<1> QED
  BY <1>2, <1>7, <1>9, <1>10, <1>11 DEF FrontMatterLine

\* Nothing is gathered by a step that reads no line.
LEMMA GatheredStays ==
  ASSUME Gathered, front_matter_scanning \in BOOLEAN,
         UNCHANGED <<lines, body, frontVars, front_matter_option>>,
         finishing /\ linebuf = <<>> => finishing' /\ linebuf' = <<>>
  PROVE  Gathered'
<1>1. /\ lines' = lines /\ body' = body /\ front_matter_option' = front_matter_option
      /\ front_matter_scanning' = front_matter_scanning /\ front' = front
      /\ front_matter_info' = front_matter_info /\ front_matter_buf' = front_matter_buf
  BY DEF frontVars
<1>2. (Opened' <=> Opened) /\ Closing' = Closing
  BY <1>1 DEF Opened, Closing
<1>3. CASE Opened /\ ~front_matter_scanning
  <2>1. CASE \E c \in Closing : /\ FirstClosing(c) /\ front = MatterTo(c - 1, c)
                                /\ body = [i \in 1..(Len(lines) - c) |-> c + i]
    <3>1. PICK c \in Closing : /\ FirstClosing(c) /\ front = MatterTo(c - 1, c)
                               /\ body = [i \in 1..(Len(lines) - c) |-> c + i]
      BY <2>1
    <3>2. FirstClosing(c)' /\ c \in Closing'
      BY <1>2, <3>1 DEF FirstClosing
    <3>3. front' = MatterTo(c - 1, c)'
      BY <1>1, <3>1 DEF MatterTo
    <3>4. body' = [i \in 1..(Len(lines') - c) |-> c + i]
      BY <1>1, <3>1
    <3>5. front_matter_buf' = <<>> /\ front_matter_info' = <<>>
      BY <1>1, <1>3 DEF Gathered
    <3> QED
      BY <1>1, <1>2, <1>3, <3>2, <3>3, <3>4, <3>5 DEF Gathered
  <2>2. CASE /\ finishing /\ linebuf = <<>> /\ Closing = {}
             /\ front = MatterTo(Len(lines), Len(lines)) /\ body = <<>>
    <3>1. front' = MatterTo(Len(lines), Len(lines))'
      BY <1>1, <2>2 DEF MatterTo
    <3>2. front_matter_buf' = <<>> /\ front_matter_info' = <<>>
      BY <1>1, <1>3 DEF Gathered
    <3> QED
      BY <1>1, <1>2, <1>3, <2>2, <3>1, <3>2 DEF Gathered
  <2> QED
    BY <1>3, <2>1, <2>2 DEF Gathered
<1>4. CASE ~Opened
  <2>1. /\ ~front_matter_scanning /\ front = NONE /\ front_matter_buf = <<>>
        /\ front_matter_info = <<>> /\ body = [i \in 1..Len(lines) |-> i]
    BY <1>4 DEF Gathered
  <2>2. body' = [i \in 1..Len(lines') |-> i]
    BY <1>1, <2>1
  <2> QED
    BY <1>1, <1>2, <1>4, <2>1, <2>2 DEF Gathered
<1>5. CASE Opened /\ front_matter_scanning
  <2>1. /\ Closing = {} /\ front = NONE /\ body = <<>>
        /\ front_matter_info = parse_info(lines[1])
        /\ front_matter_buf = SubSeq(lines, 2, Len(lines))
    BY <1>5 DEF Gathered
  <2>2. /\ Opened' /\ front_matter_scanning' = TRUE /\ Closing' = {}
        /\ front' = NONE /\ body' = <<>>
        /\ front_matter_info' = parse_info(lines'[1])
        /\ front_matter_buf' = SubSeq(lines', 2, Len(lines'))
    BY <1>1, <1>2, <1>5, <2>1
  <2> QED
    BY <2>2 DEF Gathered
<1> QED
  BY <1>3, <1>4, <1>5

\* Front matter that is not closed takes what there is (cmark_parser_finish).
LEMMA UnclosedGathered ==
  ASSUME TypeOK, Gathered, FinishFrontMatter
  PROVE  /\ front_matter_scanning' \in BOOLEAN
         /\ front_matter_info' \in Seq(STRING) /\ front_matter_buf' \in Seq(Seq(STRING))
         /\ front' \in FrontMatter \cup {NONE}
         /\ Gathered'
<1>1. /\ lines' = lines /\ body' = body /\ front_matter_option' = front_matter_option
      /\ finishing' = finishing /\ linebuf' = linebuf
      /\ finishing /\ linebuf = <<>> /\ front_matter_scanning
  BY DEF FinishFrontMatter, callVars, feedVars
<1>2. /\ front' = [info |-> front_matter_info, literal |-> front_matter_buf,
                  end_line |-> Len(lines)]
      /\ front_matter_scanning' = FALSE
      /\ front_matter_buf' = <<>> /\ front_matter_info' = <<>>
  BY DEF FinishFrontMatter, create_front_matter_node, line_number
<1>3. Opened /\ Closing = {} /\ body = <<>> /\ front_matter_info = parse_info(lines[1])
      /\ front_matter_buf = SubSeq(lines, 2, Len(lines))
  BY <1>1 DEF Gathered
<1>4. Opened' /\ Closing' = {}
  BY <1>1, <1>3 DEF Opened, Closing
<1>5. front' = MatterTo(Len(lines), Len(lines))'
  BY <1>1, <1>2, <1>3 DEF MatterTo
<1>6. Gathered'
  BY <1>1, <1>2, <1>3, <1>4, <1>5 DEF Gathered
<1>7. front' \in FrontMatter
  <2>1. /\ front_matter_info \in Seq(STRING) /\ front_matter_buf \in Seq(Seq(STRING))
        /\ Len(lines) \in Nat
    BY DEF TypeOK
  <2> QED
    BY <1>2, <2>1 DEF FrontMatter
<1>8. /\ front_matter_scanning' \in BOOLEAN
      /\ front_matter_info' \in Seq(STRING) /\ front_matter_buf' \in Seq(Seq(STRING))
  BY <1>2, EmptySeq
<1> QED
  BY <1>6, <1>7, <1>8

-----------------------------------------------------------------------------
(* The division into lines                                                  *)

\* Where a line that is still to be delivered starts.
Waiting == Begins(text, Start) /\ Len(lines) = Cardinality(BreaksBefore(text, Start))

\* A line shown like the text from its start to its stop is the one that is due.
LEMMA LineDue ==
  ASSUME TypeOK, Divided, Waiting, NEW e \in Stops(text), e >= Start,
         \A j \in Stops(text) : j < e => j < Start,
         NEW l \in Seq(STRING), l = Promise!Shown(SubSeq(text, Start, e - 1)),
         lines' = Append(lines, SkipBom(l))
  PROVE  /\ Len(lines') = Len(lines) + 1 /\ Len(lines') <= Len(Promise!Split(text))
         /\ SkipBom(l) = Promise!Split(text)[Len(lines) + 1]
         /\ \A k \in 1..Len(lines') : lines'[k] = Promise!Split(text)[k]
<1>1. /\ text \in Seq(STRING) /\ Start \in Nat \ {0} /\ Len(lines) \in Nat
      /\ lines \in Seq(Seq(STRING))
  <2>1. Here \in Nat /\ Len(linebuf) \in Nat /\ Start >= 1
    BY TextType DEF TypeOK, Here, Divided
  <2>2. Start \in Nat \ {0}
    BY <2>1 DEF Start
  <2> QED
    BY <2>2, TextType DEF TypeOK
<1>2. /\ Len(lines) + 1 <= Len(Promise!Split(text))
      /\ Promise!Split(text)[Len(lines) + 1] =
           IF Len(lines) = 0 THEN Promise!Unmarked(l) ELSE l
  <2>1. PICK s \in Nat \ {0} : s = Start
    BY <1>1
  <2>2. /\ Begins(text, s) /\ Len(lines) = Cardinality(BreaksBefore(text, s))
        /\ \A j \in Stops(text) : j < e => j < s
        /\ e >= s /\ l = Promise!Shown(SubSeq(text, s, e - 1))
    BY <2>1 DEF Waiting
  <2> QED
    BY <1>1, <2>2, NextLine
<1>3. SkipBom(l) = IF Len(lines) = 0 THEN Promise!Unmarked(l) ELSE l
  BY DEF SkipBom, line_number, Promise!Unmarked
<1>4. /\ Len(lines') = Len(lines) + 1 /\ lines'[Len(lines) + 1] = SkipBom(l)
      /\ \A k \in 1..Len(lines) : lines'[k] = lines[k]
  BY <1>1, BomType, AppendProperties
<1>5. \A k \in 1..Len(lines) : lines[k] = Promise!Split(text)[k]
  BY DEF Divided
<1> QED
  BY <1>1, <1>2, <1>3, <1>4, <1>5

\* Where the line begun is in the text.
LEMMA LinePlaces ==
  ASSUME TypeOK, Divided
  PROVE  /\ Here \in Nat /\ Len(linebuf) \in Nat /\ linebuf \in Seq(STRING)
         /\ Start \in Nat \ {0} /\ Start = Here - Len(linebuf)
         /\ Here <= Len(text) + 1 /\ buffer <= Here
         /\ Here = buffer \/ (Fed /\ Here = buffer + 1 /\ linebuf = <<>>)
         /\ ~Fed => Here = buffer /\ last_buffer_ended_with_cr = FALSE /\ Waiting
         /\ \A i \in Start..(Here - 1) : ~LineEnd(text[i])
<1>1. /\ end \in Nat /\ buffer \in Nat /\ Len(text) \in Nat /\ end <= Len(text)
      /\ buffer <= end + 1 /\ buffer >= 1
  BY TextType
<1>2. linebuf \in Seq(STRING) /\ Len(linebuf) \in Nat /\ last_buffer_ended_with_cr \in BOOLEAN
  BY DEF TypeOK
<1>3. last_buffer_ended_with_cr => Fed /\ linebuf = <<>>
  BY DEF Divided
<1>4. /\ Here \in Nat /\ Here <= Len(text) + 1 /\ buffer <= Here
      /\ Here = buffer \/ (Fed /\ Here = buffer + 1 /\ linebuf = <<>>)
      /\ ~Fed => Here = buffer /\ last_buffer_ended_with_cr = FALSE
  BY <1>1, <1>2, <1>3 DEF Here, Fed
<1>5. Start \in Nat \ {0} /\ Start = Here - Len(linebuf)
  BY <1>2, <1>4 DEF Start, Divided
<1>6. ASSUME NEW i \in Start..(Here - 1) PROVE ~LineEnd(text[i])
  <2>1. i - Start + 1 \in 1..Len(linebuf) /\ Start + (i - Start + 1) - 1 = i
    BY <1>2, <1>4, <1>5
  <2>2. ~LineEnd(text[Start + (i - Start + 1) - 1])
    BY <2>1 DEF Divided
  <2> QED
    BY <2>1, <2>2
<1>7. ~Fed => Waiting
  BY DEF Divided, Waiting
<1> QED
  BY <1>2, <1>4, <1>5, <1>6, <1>7

\* linebuf and the next chunk are the text from where the line starts.
LEMMA WithChunk ==
  ASSUME TypeOK, Divided, ~Fed
  PROVE  /\ linebuf \o Chunk \in Seq(STRING)
         /\ Len(linebuf \o Chunk) = eol - Start /\ Start <= eol
         /\ \A i \in 1..(eol - Start) :
              (linebuf \o Chunk)[i] =
                IF text[Start + i - 1] = "NUL" THEN "REPL" ELSE text[Start + i - 1]
         /\ \A i \in Start..(eol - 1) : ~LineEnd(text[i])
         /\ \A i \in DOMAIN (linebuf \o Chunk) : (linebuf \o Chunk)[i] \notin {"CR", "LF", "NUL"}
<1>1. /\ linebuf \in Seq(STRING) /\ Len(linebuf) \in Nat
      /\ Start \in Nat \ {0} /\ Start = buffer - Len(linebuf) /\ buffer \in Nat
      /\ \A i \in Start..(buffer - 1) : ~LineEnd(text[i])
  BY LinePlaces, TextType
<1>2. /\ Chunk \in Seq(STRING) /\ Len(Chunk) = eol - buffer
      /\ \A i \in 1..Len(Chunk) : /\ Chunk[i] = text[buffer + i - 1]
                                  /\ Chunk[i] \notin {"CR", "LF", "NUL"}
  BY ChunkType
<1>3. /\ eol \in buffer..(end + 1) /\ end \in Nat
      /\ \A i \in buffer..(eol - 1) : ~LineEnd(text[i]) /\ text[i] # "NUL"
  BY EolStops, TextType
<1>4. /\ linebuf \o Chunk \in Seq(STRING)
      /\ Len(linebuf \o Chunk) = Len(linebuf) + Len(Chunk)
      /\ \A i \in 1..(Len(linebuf) + Len(Chunk)) :
           (linebuf \o Chunk)[i] =
             IF i <= Len(linebuf) THEN linebuf[i] ELSE Chunk[i - Len(linebuf)]
  BY <1>1, <1>2, ConcatProperties
<1>5. Len(linebuf) + Len(Chunk) = eol - Start /\ Start <= eol
  BY <1>1, <1>2, <1>3
<1>6. \A i \in 1..Len(linebuf) :
        linebuf[i] = IF text[Start + i - 1] = "NUL" THEN "REPL" ELSE text[Start + i - 1]
  BY DEF Divided
<1>7. ASSUME NEW i \in 1..(eol - Start)
      PROVE  (linebuf \o Chunk)[i] =
               IF text[Start + i - 1] = "NUL" THEN "REPL" ELSE text[Start + i - 1]
  <2>1. CASE i <= Len(linebuf)
    BY <1>1, <1>4, <1>5, <1>6, <2>1
  <2>2. CASE i > Len(linebuf)
    <3>1. i - Len(linebuf) \in 1..Len(Chunk) /\ buffer + (i - Len(linebuf)) - 1 = Start + i - 1
      BY <1>1, <1>2, <1>3, <1>5, <2>2
    <3>2. (linebuf \o Chunk)[i] = text[Start + i - 1]
      BY <1>1, <1>2, <1>4, <1>5, <2>2, <3>1
    <3>3. Start + i - 1 \in buffer..(eol - 1)
      BY <1>1, <1>3, <2>2
    <3> QED
      BY <1>3, <3>2, <3>3
  <2>3. i <= Len(linebuf) \/ i > Len(linebuf)
    <3>1. i \in Int
      OBVIOUS
    <3> QED
      BY <1>1, <3>1
  <2> QED
    BY <2>1, <2>2, <2>3
<1>8. ASSUME NEW i \in DOMAIN (linebuf \o Chunk)
      PROVE  (linebuf \o Chunk)[i] \notin {"CR", "LF", "NUL"}
  <2>1. i \in 1..(Len(linebuf) + Len(Chunk))
    BY <1>4, LenProperties
  <2>2. \A j \in 1..Len(linebuf) : linebuf[j] \notin {"CR", "LF", "NUL"}
    <3>1. DOMAIN linebuf = 1..Len(linebuf)
      BY <1>1
    <3>2. \A j \in DOMAIN linebuf : linebuf[j] \notin {"CR", "LF", "NUL"}
      BY DEF TypeOK
    <3> QED
      BY <3>1, <3>2
  <2>3. CASE i <= Len(linebuf)
    BY <1>1, <1>4, <2>1, <2>2, <2>3
  <2>4. CASE i > Len(linebuf)
    <3>1. i - Len(linebuf) \in 1..Len(Chunk)
      BY <1>1, <1>2, <1>3, <2>1, <2>4
    <3> QED
      BY <1>2, <1>4, <2>1, <2>4, <3>1
  <2> QED
    BY <1>1, <2>1, <2>3, <2>4
<1>9. \A i \in Start..(eol - 1) : ~LineEnd(text[i])
  BY <1>1, <1>3
<1> QED
  BY <1>4, <1>5, <1>7, <1>8, <1>9

\* As LineSplit shows it.
LEMMA ShownPiece ==
  ASSUME NEW t \in Seq(STRING), NEW s \in Nat \ {0}, NEW e \in s..(Len(t) + 1),
         NEW l \in Seq(STRING), Len(l) = e - s,
         \A i \in 1..(e - s) : l[i] = IF t[s + i - 1] = "NUL" THEN "REPL" ELSE t[s + i - 1]
  PROVE  l = Promise!Shown(SubSeq(t, s, e - 1))
<1>0. PICK m \in Int : m = e - 1
  BY LenProperties
<1>1. /\ Len(t) \in Nat /\ s \in Int /\ m \in Int /\ m - s + 1 = e - s /\ (s <= m \/ e - s = 0)
      /\ \A i \in s..m : t[i] \in STRING
  BY <1>0, ElementOfSeq, LenProperties
<1>2. /\ SubSeq(t, s, m) \in Seq(STRING)
      /\ Len(SubSeq(t, s, m)) = IF s <= m THEN m - s + 1 ELSE 0
      /\ \A i \in 1..(m - s + 1) : SubSeq(t, s, m)[i] = t[s + i - 1]
  BY <1>1, SubSeqProperties
<1>3. DOMAIN SubSeq(t, s, m) = 1..(e - s)
  BY <1>1, <1>2, LenProperties
<1>4. Promise!Shown(SubSeq(t, s, m)) =
        [i \in 1..(e - s) |-> IF t[s + i - 1] = "NUL" THEN "REPL" ELSE t[s + i - 1]]
  BY <1>1, <1>2, <1>3 DEF Promise!Shown
<1>5. l \in [1..(e - s) -> STRING]
  BY LenProperties
<1>6. l = [i \in 1..(e - s) |-> l[i]]
  BY <1>5
<1> QED
  BY <1>0, <1>4, <1>6

\* What LineSplit says is due: all lines at the end, before that those whose
\* line end has been handed over.
LEMMA DueIs ==
  Promise!Due = IF eof \/ finishing THEN Len(Promise!Split(text))
                ELSE Cardinality({i \in Promise!Breaks(text) : i <= end})
BY SameCount DEF Promise!Due

\* A line whose line end has been handed over is due.
LEMMA BreakIsDue ==
  ASSUME NEW t \in Seq(STRING), NEW s \in Nat, NEW m \in Nat,
         NEW e \in Promise!Breaks(t), s <= e, e <= m
  PROVE  /\ Cardinality(BreaksBefore(t, s)) < Cardinality({i \in Promise!Breaks(t) : i <= m})
         /\ e \in Stops(t) /\ e \notin BreaksBefore(t, s)
<1> DEFINE handed == {i \in Promise!Breaks(t) : i <= m}
<1>1. Promise!Breaks(t) \subseteq 1..Len(t) /\ Len(t) \in Nat
  BY StopsWithin
<1>2. handed \in SUBSET Stops(t)
  BY DEF Stops
<1>3. IsFiniteSet(handed) /\ Cardinality(handed) \in Nat
  BY <1>2, StopsWithin, FS_Subset, FS_CardinalityType
<1>4. BreaksBefore(t, s) \in SUBSET handed
  <2>1. ASSUME NEW i \in Promise!Breaks(t), i < s PROVE i <= m
    BY <1>1, <2>1
  <2> QED
    BY <2>1 DEF BreaksBefore
<1>5. e \in handed /\ e \notin BreaksBefore(t, s)
  BY <1>1 DEF BreaksBefore
<1> HIDE DEF handed
<1>6. Cardinality(BreaksBefore(t, s)) <= Cardinality(handed)
      /\ (Cardinality(BreaksBefore(t, s)) = Cardinality(handed) => handed = BreaksBefore(t, s))
  BY <1>3, <1>4, FS_Subset
<1>7. Cardinality(BreaksBefore(t, s)) < Cardinality(handed)
  BY <1>3, <1>5, <1>6, BeforeCounts
<1> QED
  BY <1>5, <1>7 DEF handed, Stops

\* The line end is skipped: the next line starts after it, also when a LF that
\* belongs to it comes with the next buffer (S_parser_feed).
LEMMA LineEndSkipped ==
  ASSUME TypeOK, ~Fed, eol <= end, LineEnd(text[eol]), SkipLineEnd,
         UNCHANGED <<text, end>>, linebuf' = <<>>
  PROVE  /\ buffer' \in 1..(end + 1) /\ last_buffer_ended_with_cr' \in BOOLEAN
         /\ Here' = Promise!After(text, eol) /\ Start' = Promise!After(text, eol)
         /\ last_buffer_ended_with_cr' => Fed' /\ end > 0 /\ text[end] = "CR"
<1>1. /\ end \in Nat /\ buffer \in Nat /\ buffer >= 1 /\ Len(text) \in Nat /\ end <= Len(text)
  BY TextType
<1>2. PICK e \in Nat : e = eol /\ e >= 1
  BY <1>1, EolStops
<1>3. /\ last_buffer_ended_with_cr' = (text[e] = "CR" /\ e + 1 = end + 1)
      /\ buffer' = IF text[e] = "CR"
                   THEN IF e + 1 <= end /\ text[e + 1] = "LF" THEN e + 2 ELSE e + 1
                   ELSE e + 1
  BY <1>1, <1>2 DEF SkipLineEnd, LineEnd
<1>4. text' = text /\ end' = end /\ e <= end
  BY <1>2
<1>5. ASSUME text[e] = "CR" /\ e = end
      PROVE  /\ buffer' \in 1..(end + 1) /\ last_buffer_ended_with_cr' \in BOOLEAN
             /\ last_buffer_ended_with_cr' => Fed' /\ end > 0 /\ text[end] = "CR"
             /\ Here' = Promise!After(text, e)
  <2>0. text[e] = "CR" /\ e + 1 = end + 1
    BY <1>5
  <2>1. last_buffer_ended_with_cr' = TRUE /\ buffer' = e + 1
    <3>1. last_buffer_ended_with_cr' = TRUE
      BY Zenon, <1>3, <2>0
    <3>2. buffer' = e + 1
      BY <1>1, <1>2, <1>3, <1>5
    <3> QED
      BY <3>1, <3>2
  <2>2. Here' = Promise!After(text, e)
    BY <1>1, <1>2, <1>4, <1>5, <2>1 DEF Here, Promise!After
  <2>3. Fed'
    BY <1>1, <1>2, <1>4, <1>5, <2>1 DEF Fed
  <2> QED
    BY <1>1, <1>2, <1>5, <2>1, <2>2, <2>3
<1>6. ASSUME ~(text[e] = "CR" /\ e = end)
      PROVE  /\ buffer' \in 1..(end + 1) /\ last_buffer_ended_with_cr' \in BOOLEAN
             /\ last_buffer_ended_with_cr' => Fed' /\ end > 0 /\ text[end] = "CR"
             /\ Here' = Promise!After(text, e)
  <2>0. ~(text[e] = "CR" /\ e + 1 = end + 1)
    BY <1>1, <1>2, <1>6
  <2>1. last_buffer_ended_with_cr' = FALSE
    BY Zenon, <1>3, <2>0
  <2>2. Here' = buffer' /\ buffer' = Promise!After(text, e)
    BY <1>1, <1>2, <1>3, <1>4, <1>6, <2>1 DEF Here, Promise!After
  <2>3. buffer' \in 1..(end + 1)
    BY <1>1, <1>2, <1>3, <1>4, <1>6
  <2> QED
    BY <2>1, <2>2, <2>3
<1>7. /\ buffer' \in 1..(end + 1) /\ last_buffer_ended_with_cr' \in BOOLEAN
      /\ last_buffer_ended_with_cr' => Fed' /\ end > 0 /\ text[end] = "CR"
      /\ Here' = Promise!After(text, e)
  BY <1>5, <1>6
<1>8. Start' = Here'
  <2>1. PICK h \in Int : h = Here'
    BY <1>1, <1>2, <1>7 DEF Promise!After
  <2>2. Start' = h - Len(<<>>)
    BY <2>1 DEF Start
  <2>3. h - Len(<<>>) = h
    OBVIOUS
  <2> QED
    BY <2>1, <2>2, <2>3
<1> QED
  BY <1>2, <1>7, <1>8

\* A line that is read is the line that was due, and the text stays divided.
LEMMA FeedLineDivides ==
  ASSUME TypeOK, Divided, FeedLine
  PROVE  /\ buffer' \in 1..(end + 1) /\ last_buffer_ended_with_cr' \in BOOLEAN
         /\ Divided' /\ Promise!Deliver
<1>1. /\ text' = text /\ end' = end /\ eof' = eof /\ finishing' = finishing
      /\ linebuf' = <<>> /\ ~Fed /\ SkipLineEnd
      /\ IF eol > end THEN eof ELSE LineEnd(text[eol])
      /\ lines' = Append(lines, SkipBom(linebuf \o Chunk))
  BY DEF FeedLine, ProcessLine, callVars
<1>0. (eof \/ finishing)' = (eof \/ finishing)
  BY <1>1
<1>2. /\ text \in Seq(STRING) /\ Len(text) \in Nat /\ end \in Nat /\ end <= Len(text)
      /\ buffer \in Nat /\ buffer >= 1 /\ lines \in Seq(Seq(STRING)) /\ Len(lines) \in Nat
      /\ buffer <= end
  BY <1>1, TextType DEF TypeOK, Fed
<1>3. PICK e \in Nat : e = eol
  BY <1>1, <1>2, EolStops
<1>4. PICK s \in Nat \ {0} : s = Start
  BY LinePlaces
<1>5. /\ Begins(text, s) /\ Len(lines) = Cardinality(BreaksBefore(text, s)) /\ Waiting
      /\ s <= buffer
  BY <1>1, <1>2, <1>4, LinePlaces DEF Waiting
<1>6. PICK l \in Seq(STRING) : l = linebuf \o Chunk
  BY <1>1, WithChunk
<1>7. /\ e \in s..(end + 1) /\ Len(l) = e - s
      /\ \A i \in s..(e - 1) : ~LineEnd(text[i])
      /\ \A i \in 1..(e - s) : l[i] = IF text[s + i - 1] = "NUL" THEN "REPL" ELSE text[s + i - 1]
  BY <1>1, <1>2, <1>3, <1>4, <1>6, WithChunk, EolStops
<1>8. l = Promise!Shown(SubSeq(text, s, e - 1))
  <2>1. e \in s..(Len(text) + 1)
    BY <1>2, <1>7
  <2> QED
    BY <1>2, <1>7, <2>1, ShownPiece
<1>9. finishing = FALSE /\ (eof => end = Len(text))
  BY <1>1 DEF Divided, TypeOK
<1>10. ASSUME e \in Stops(text), \A j \in Stops(text) : j < e => j < s
       PROVE  /\ Len(lines') = Len(lines) + 1 /\ Len(lines') <= Len(Promise!Split(text))
              /\ lines' = Append(lines, Promise!Split(text)[Len(lines) + 1])
              /\ \A k \in 1..Len(lines') : lines'[k] = Promise!Split(text)[k]
  BY <1>1, <1>4, <1>5, <1>6, <1>7, <1>8, <1>10, LineDue
<1>11. CASE e <= end
  <2>1. LineEnd(text[e]) /\ e \in s..Len(text)
    BY <1>1, <1>2, <1>3, <1>7, <1>11
  <2>2. /\ e \in Promise!Breaks(text)
        /\ \A j \in Promise!Breaks(text) : j < e => j < s
        /\ Promise!After(text, e) \in {e + 1, e + 2}
        /\ LastBreak(text, e, Promise!After(text, e))
        /\ BreaksBefore(text, Promise!After(text, e)) = BreaksBefore(text, s) \cup {e}
    BY <1>2, <1>5, <1>7, <2>1, FirstBreak
  <2>3. /\ e \in Stops(text) /\ e \notin BreaksBefore(text, s)
        /\ Cardinality(BreaksBefore(text, s)) <
             Cardinality({i \in Promise!Breaks(text) : i <= end})
    BY <1>2, <1>7, <1>11, <2>2, BreakIsDue
  <2>4. \A j \in Stops(text) : j < e => j < s
    <3>1. Promise!Rest(text) \subseteq {Len(text) + 1}
      BY <1>2, StopsWithin
    <3> QED
      BY <1>2, <2>1, <2>2, <3>1 DEF Stops
  <2>5. /\ Len(lines') = Len(lines) + 1 /\ Len(lines') <= Len(Promise!Split(text))
        /\ lines' = Append(lines, Promise!Split(text)[Len(lines) + 1])
        /\ \A k \in 1..Len(lines') : lines'[k] = Promise!Split(text)[k]
    BY <1>10, <2>3, <2>4
  <2>6. /\ buffer' \in 1..(end + 1) /\ last_buffer_ended_with_cr' \in BOOLEAN
        /\ Start' = Promise!After(text, e)
        /\ last_buffer_ended_with_cr' => Fed' /\ end > 0 /\ text[end] = "CR"
    <3>1. eol <= end /\ LineEnd(text[eol])
      BY <1>3, <1>11, <2>1
    <3>2. ~Fed /\ SkipLineEnd /\ UNCHANGED <<text, end>> /\ linebuf' = <<>>
      BY <1>1
    <3> QED
      BY <1>3, <3>1, <3>2, LineEndSkipped
  <2>7. Begins(text, Promise!After(text, e))
    BY <2>2 DEF Begins
  <2>8. Len(lines') = Cardinality(BreaksBefore(text, Promise!After(text, e)))
    <3>1. IsFiniteSet(BreaksBefore(text, s))
      BY <1>2, BeforeCounts
    <3>2. Cardinality(BreaksBefore(text, s) \cup {e}) = Cardinality(BreaksBefore(text, s)) + 1
      BY <2>3, <3>1, FS_AddElement
    <3> QED
      BY <1>5, <2>2, <2>5, <3>2
  <2>9. Divided'
    <3>1. Len(linebuf') = 0
      BY <1>1
    <3>2. Start' >= 1
      BY <2>2, <2>6
    <3>3. Begins(text', Start') /\ Len(lines') = Cardinality(BreaksBefore(text', Start'))
      BY <1>1, <2>6, <2>7, <2>8
    <3>4. \A i \in 1..Len(linebuf') : FALSE
      BY <3>1
    <3> QED
      BY <1>1, <1>9, <2>5, <2>6, <3>2, <3>3, <3>4 DEF Divided
  <2>10. Len(lines) < Promise!Due
    BY <1>2, <1>5, <2>3, <2>5, DueIs
  <2>11. Promise!Deliver
    BY Zenon, <1>0, <1>1, <2>5, <2>10 DEF Promise!Deliver
  <2> QED
    BY <2>6, <2>9, <2>11
<1>12. CASE e > end
  <2>1. eof /\ end = Len(text) /\ e = Len(text) + 1 /\ s \in 1..Len(text)
    <3>1. eof /\ end = Len(text)
      BY <1>1, <1>3, <1>9, <1>12
    <3>2. e = end + 1
      BY <1>2, <1>7, <1>12
    <3> QED
      BY <1>2, <1>5, <3>1, <3>2
  <2>2. /\ Len(text) + 1 \in Promise!Rest(text)
        /\ \A j \in Promise!Breaks(text) : j < s
    <3>1. \A i \in s..Len(text) : ~LineEnd(text[i])
      BY <1>2, <1>7, <2>1
    <3> QED
      BY <1>2, <1>5, <2>1, <3>1, RestIsLine
  <2>3. e \in Stops(text) /\ (\A j \in Stops(text) : j < e => j < s)
    <3>1. Promise!Rest(text) \subseteq {Len(text) + 1}
      BY <1>2, StopsWithin
    <3> QED
      BY <1>2, <2>1, <2>2, <3>1 DEF Stops
  <2>4. /\ Len(lines') = Len(lines) + 1 /\ Len(lines') <= Len(Promise!Split(text))
        /\ lines' = Append(lines, Promise!Split(text)[Len(lines) + 1])
        /\ \A k \in 1..Len(lines') : lines'[k] = Promise!Split(text)[k]
    BY <1>10, <2>3
  <2>5. Len(lines') = Len(Promise!Split(text))
    <3>1. Stops(text) = BreaksBefore(text, s) \cup {e}
      <4>1. Promise!Rest(text) = {e}
        BY <1>2, <2>1, <2>2, StopsWithin
      <4> QED
        BY <2>2, <4>1 DEF Stops, BreaksBefore
    <3>2. e \notin BreaksBefore(text, s)
      BY <1>7 DEF BreaksBefore
    <3>3. Cardinality(Stops(text)) = Cardinality(BreaksBefore(text, s)) + 1
      BY <1>2, <3>1, <3>2, BeforeCounts, FS_AddElement
    <3> QED
      BY <1>2, <1>5, <2>4, <3>3, SplitLines
  <2>6. last_buffer_ended_with_cr' = FALSE /\ buffer' = end + 1
    <3>1. ~(eol <= end /\ text[eol] = "CR") /\ eol = end + 1
      BY <1>2, <1>3, <1>12, <2>1
    <3>2. SkipLineEnd
      BY <1>1
    <3>3. last_buffer_ended_with_cr' = FALSE
      BY Zenon, <3>1, <3>2 DEF SkipLineEnd
    <3>4. buffer' = end + 1
      BY <1>2, <3>1, <3>2 DEF SkipLineEnd
    <3> QED
      BY <3>3, <3>4
  <2>7. Here' = end + 1 /\ Start' = end + 1 /\ Fed'
    <3>1. Here' = end + 1 /\ Len(linebuf') = 0
      BY <1>1, <2>6 DEF Here
    <3> QED
      BY <1>1, <1>2, <2>6, <3>1 DEF Start, Fed
  <2>8. Divided'
    BY <1>1, <1>2, <1>9, <2>1, <2>4, <2>5, <2>6, <2>7 DEF Divided
  <2>9. Len(lines) < Promise!Due
    BY <1>2, <2>1, <2>4, DueIs
  <2>10. Promise!Deliver
    BY Zenon, <1>0, <1>1, <2>4, <2>9 DEF Promise!Deliver
  <2>11. buffer' \in 1..(end + 1) /\ last_buffer_ended_with_cr' \in BOOLEAN
    <3>1. end + 1 \in 1..(end + 1)
      BY <1>2
    <3>2. buffer' \in 1..(end + 1)
      BY <2>6, <3>1
    <3> QED
      BY <2>6, <3>2
  <2> QED
    BY <2>8, <2>10, <2>11
<1> QED
  BY <1>2, <1>7, <1>11, <1>12

\* When the buffer has been read, what LineSplit says is due was delivered.
LEMMA AllDelivered ==
  ASSUME TypeOK, Divided, Fed, ~(eof \/ finishing)
  PROVE  Len(lines) = Promise!Due
<1>1. /\ text \in Seq(STRING) /\ Len(text) \in Nat /\ end \in Nat /\ end <= Len(text)
      /\ buffer = end + 1 /\ Promise!Breaks(text) \subseteq 1..Len(text)
  BY TextType, StopsWithin DEF Fed
<1>2. Len(lines) = Cardinality(BreaksBefore(text, Start))
  BY DEF Divided
<1>3. /\ Start \in Nat \ {0} /\ Here \in Nat
      /\ \A i \in Start..(Here - 1) : ~LineEnd(text[i])
      /\ Here = end + 1 \/ (Here = end + 2 /\ Start = end + 2)
  <2>1. /\ Start \in Nat \ {0} /\ Here \in Nat /\ Start = Here - Len(linebuf)
        /\ \A i \in Start..(Here - 1) : ~LineEnd(text[i])
        /\ Here = buffer \/ (Here = buffer + 1 /\ linebuf = <<>>)
    BY LinePlaces
  <2>2. linebuf = <<>> => Len(linebuf) = 0
    OBVIOUS
  <2> QED
    BY <1>1, <2>1, <2>2
<1>4. ASSUME NEW i \in Promise!Breaks(text) PROVE i < Start <=> i <= end
  <2>1. i \in 1..Len(text) /\ LineEnd(text[i])
    BY <1>1 DEF Promise!Breaks, LineEnd
  <2>2. CASE Here = end + 1
    <3>1. Start <= end + 1
      BY <2>2, LinePlaces
    <3> QED
      BY <1>1, <1>3, <2>1, <2>2, <3>1
  <2>3. CASE Here # end + 1
    <3>1. Start = end + 2
      BY <1>3, <2>3
    <3>2. end < Len(text) /\ text[end + 1] = "LF" /\ end > 0 /\ text[end] = "CR"
      BY <1>1, <2>3 DEF Here, Divided
    <3>3. i # end + 1
      BY <1>1, <2>1, <3>2 DEF Promise!Breaks
    <3> QED
      BY <1>1, <2>1, <3>1, <3>3
  <2> QED
    BY <2>2, <2>3
<1>5. BreaksBefore(text, Start) = {i \in Promise!Breaks(text) : i <= end}
  BY <1>4 DEF BreaksBefore
<1> QED
  BY <1>2, <1>5, DueIs

\* More text is handed over; a LF that completes a CR LF is skipped, which the
\* line that comes starts after in any case.
LEMMA FeedDivides ==
  ASSUME TypeOK, Divided, NEW k \in 1..(Len(text) - end), NEW last \in BOOLEAN, Feed(k, last)
  PROVE  /\ end' \in 0..Len(text) /\ buffer' \in 1..(end' + 1) /\ eof' \in BOOLEAN
         /\ last_buffer_ended_with_cr' \in BOOLEAN /\ total_size' \in 0..UINT_MAX
         /\ Divided' /\ Promise!Hand
<1>1. /\ text' = text /\ finishing' = finishing /\ linebuf' = linebuf /\ lines' = lines
      /\ Fed /\ ~finishing /\ end + k <= Len(text) /\ (last => end + k = Len(text))
      /\ end' = end + k /\ eof' = last /\ last_buffer_ended_with_cr' = FALSE
      /\ buffer' = IF last_buffer_ended_with_cr /\ text[buffer] = "LF" THEN buffer + 1 ELSE buffer
      /\ total_size' = IF k > UINT_MAX - total_size THEN UINT_MAX ELSE total_size + k
  BY DEF Feed, callVars
<1>2. /\ text \in Seq(STRING) /\ Len(text) \in Nat /\ end \in Nat /\ end < Len(text)
      /\ buffer = end + 1 /\ k \in Nat /\ k >= 1 /\ end + k \in Nat
  BY <1>1, TextType DEF Fed
<1>3. ~eof
  BY <1>2 DEF Divided
<1>4. end' \in 0..Len(text) /\ end' = end + k
  BY <1>1, <1>2
<1>5. buffer' = Here /\ Here \in {end + 1, end + 2}
  BY <1>1, <1>2 DEF Here
<1>6. buffer' \in 1..(end' + 1)
  <2>1. end + 1 \in 1..(end + k + 1) /\ end + 2 \in 1..(end + k + 1)
    BY <1>2
  <2> QED
    BY <1>4, <1>5, <2>1
<1>7. total_size' \in 0..UINT_MAX
  <2>1. total_size \in 0..UINT_MAX /\ UINT_MAX \in Nat
    BY LineFeedAssumption DEF TypeOK
  <2> QED
    BY <1>1, <1>2, <2>1
<1>8. PICK s \in Nat \ {0} : s = Start
  BY LinePlaces
<1>9. Start' = s
  <2>1. Here' = Here
    BY <1>1, <1>5 DEF Here
  <2> QED
    BY <1>1, <1>8, <2>1 DEF Start
<1>10. Divided'
  <2>1. \A i \in 1..Len(linebuf) :
          /\ ~LineEnd(text[s + i - 1])
          /\ linebuf[i] = IF text[s + i - 1] = "NUL" THEN "REPL" ELSE text[s + i - 1]
    BY <1>8 DEF Divided
  <2>2. Begins(text, s) /\ Len(lines) = Cardinality(BreaksBefore(text, s))
    BY <1>1, <1>3, <1>8 DEF Divided
  <2>3. /\ Len(lines) <= Len(Promise!Split(text))
        /\ \A i \in 1..Len(lines) : lines[i] = Promise!Split(text)[i]
    BY DEF Divided
  <2>4. last => end' = Len(text)
    BY <1>1
  <2> QED
    BY <1>1, <1>8, <1>9, <2>1, <2>2, <2>3, <2>4 DEF Divided
<1>11. Promise!Hand
  <2>1. ~(eof \/ finishing) /\ Len(lines) = Promise!Due
    BY <1>1, <1>3, AllDelivered
  <2>2. end' \in (end + 1)..Len(text)
    BY <1>1, <1>2
  <2>3. (eof' \/ finishing') = last
    <3>1. last = TRUE \/ last = FALSE
      OBVIOUS
    <3> QED
      BY <1>1, <3>1
  <2>4. last \in IF end' = Len(text) THEN BOOLEAN ELSE {FALSE}
    <3>1. end' # Len(text) => last = FALSE
      BY <1>1
    <3> QED
      BY <3>1
  <2> QED
    BY <1>1, <2>1, <2>2, <2>3, <2>4 DEF Promise!Hand
<1> QED
  BY <1>1, <1>4, <1>6, <1>7, <1>10, <1>11

\* Part of a line is kept until its end comes.
LEMMA PartDivides ==
  ASSUME TypeOK, Divided, FeedNul \/ FeedRest
  PROVE  /\ buffer' \in 1..(end + 1) /\ linebuf' \in Seq(STRING)
         /\ \A i \in DOMAIN linebuf' : linebuf'[i] \notin {"CR", "LF", "NUL"}
         /\ Divided'
<1> DEFINE l == linebuf \o Chunk
<1>1. /\ text' = text /\ end' = end /\ eof' = eof /\ finishing' = finishing /\ lines' = lines
      /\ last_buffer_ended_with_cr' = last_buffer_ended_with_cr /\ ~Fed
  BY DEF FeedNul, FeedRest, callVars
<1>2. /\ text \in Seq(STRING) /\ Len(text) \in Nat /\ end \in Nat /\ end <= Len(text)
      /\ buffer \in Nat /\ buffer >= 1
  BY TextType
<1>3. PICK e \in Nat : e = eol /\ e >= 1 /\ e <= end + 1
  BY <1>1, <1>2, EolStops
<1>4. PICK s \in Nat \ {0} : s = Start
  BY LinePlaces
<1>5. /\ l \in Seq(STRING) /\ Len(l) = e - s /\ s <= e
      /\ \A i \in 1..(e - s) : l[i] = IF text[s + i - 1] = "NUL" THEN "REPL" ELSE text[s + i - 1]
      /\ \A i \in s..(e - 1) : ~LineEnd(text[i])
      /\ \A i \in DOMAIN l : l[i] \notin {"CR", "LF", "NUL"}
  BY <1>1, <1>3, <1>4, WithChunk
<1>6. last_buffer_ended_with_cr = FALSE /\ finishing = FALSE
  BY <1>1, LinePlaces DEF Divided, TypeOK
<1>7. Begins(text, s) /\ Len(lines) = Cardinality(BreaksBefore(text, s))
  BY <1>1, <1>4, LinePlaces DEF Waiting
<1> HIDE DEF l
<1>8. ASSUME NEW m \in Nat, linebuf' \in Seq(STRING), Len(linebuf') = m - s, buffer' = m, s <= m,
             \A i \in 1..(m - s) :
               /\ ~LineEnd(text[s + i - 1])
               /\ linebuf'[i] = IF text[s + i - 1] = "NUL" THEN "REPL" ELSE text[s + i - 1]
      PROVE  Divided'
  <2>1. Here' = m
    BY <1>1, <1>6, <1>8 DEF Here
  <2>2. Start' = s
    <3>1. Start' = m - (m - s)
      BY <1>8, <2>1 DEF Start
    <3>2. m - (m - s) = s
      OBVIOUS
    <3> QED
      BY <3>1, <3>2
  <2>3. /\ Len(lines) <= Len(Promise!Split(text))
        /\ \A i \in 1..Len(lines) : lines[i] = Promise!Split(text)[i]
        /\ eof => end = Len(text)
    BY DEF Divided
  <2> QED
    BY <1>1, <1>6, <1>7, <1>8, <2>2, <2>3 DEF Divided
<1>9. CASE FeedRest
  <2>1. linebuf' = l /\ buffer' = e
    BY <1>3, <1>9 DEF FeedRest, l
  <2>2. \A i \in 1..(e - s) : ~LineEnd(text[s + i - 1])
    <3>1. \A i \in 1..(e - s) : s + i - 1 \in s..(e - 1)
      BY <1>5
    <3> QED
      BY <1>5, <3>1
  <2>3. Divided'
    BY <1>5, <1>8, <2>1, <2>2
  <2>4. e \in 1..(end + 1)
    BY <1>2, <1>3
  <2> QED
    BY <1>5, <2>1, <2>3, <2>4
<1>10. CASE FeedNul
  <2>1. linebuf' = l \o <<"REPL">> /\ buffer' = e + 1 /\ e <= end /\ text[e] = "NUL"
    <3>1. linebuf' = l \o <<"REPL">>
      BY <1>10 DEF FeedNul, l
    <3>2. buffer' = eol + 1 /\ eol <= end /\ text[eol] = "NUL"
      BY <1>10 DEF FeedNul
    <3>3. buffer' = e + 1 /\ e <= end /\ text[e] = "NUL"
      BY <1>3, <3>2
    <3> QED
      BY <3>1, <3>3
  <2>2. /\ <<"REPL">> \in Seq(STRING) /\ Len(<<"REPL">>) = 1 /\ <<"REPL">>[1] = "REPL"
    <3>1. "REPL" \in STRING
      BY LineFeedAssumption
    <3> QED
      BY <3>1
  <2>3. /\ l \o <<"REPL">> \in Seq(STRING) /\ Len(l \o <<"REPL">>) = Len(l) + 1
        /\ \A i \in 1..(Len(l) + 1) :
             (l \o <<"REPL">>)[i] = IF i <= Len(l) THEN l[i] ELSE <<"REPL">>[i - Len(l)]
    BY <1>5, <2>2, ConcatProperties
  <2>4. e - s + 1 = (e + 1) - s /\ e + 1 \in Nat /\ s <= e + 1
    BY <1>5
  <2>5. ASSUME NEW i \in 1..((e + 1) - s)
        PROVE  /\ ~LineEnd(text[s + i - 1])
               /\ linebuf'[i] = IF text[s + i - 1] = "NUL" THEN "REPL" ELSE text[s + i - 1]
    <3>1. CASE i \in 1..(e - s)
      <4>1. s + i - 1 \in s..(e - 1) /\ i <= Len(l) /\ i \in 1..(Len(l) + 1)
        BY <1>5, <3>1
      <4>2. linebuf'[i] = l[i]
        BY <2>1, <2>3, <4>1
      <4> QED
        BY <1>5, <3>1, <4>1, <4>2
    <3>2. CASE i = (e + 1) - s
      <4>1. /\ s + i - 1 = e /\ ~(i <= Len(l)) /\ i - Len(l) = 1
            /\ i \in 1..(Len(l) + 1)
        BY <1>5, <3>2
      <4>2. linebuf'[i] = "REPL"
        BY <2>1, <2>2, <2>3, <4>1
      <4> QED
        BY <2>1, <4>1, <4>2 DEF LineEnd
    <3> QED
      BY <1>5, <3>1, <3>2
  <2>6. Len(linebuf') = (e + 1) - s /\ linebuf' \in Seq(STRING)
    BY <1>5, <2>1, <2>3, <2>4
  <2>7. Divided'
    BY <1>8, <2>1, <2>4, <2>5, <2>6
  <2>8. ASSUME NEW i \in DOMAIN linebuf' PROVE linebuf'[i] \notin {"CR", "LF", "NUL"}
    <3>1. i \in 1..(Len(l) + 1) /\ DOMAIN l = 1..Len(l)
      BY <1>5, <2>1, <2>3, LenProperties
    <3>2. CASE i <= Len(l)
      <4>1. i \in DOMAIN l /\ linebuf'[i] = l[i]
        BY <2>1, <2>3, <3>1, <3>2
      <4> QED
        BY <1>5, <4>1
    <3>3. CASE i = Len(l) + 1
      <4>1. i - Len(l) = 1 /\ ~(i <= Len(l))
        BY <1>5, <3>3
      <4>2. linebuf'[i] = "REPL"
        BY <2>1, <2>2, <2>3, <3>1, <4>1
      <4> QED
        BY <4>2
    <3> QED
      BY <1>5, <3>1, <3>2, <3>3
  <2>9. e + 1 \in 1..(end + 1)
    BY <1>2, <1>3, <2>1
  <2> QED
    BY <2>1, <2>6, <2>7, <2>8, <2>9
<1> QED
  BY <1>9, <1>10

\* What is left when the program has finished is the last line.
LEMMA FinishLineDivides ==
  ASSUME TypeOK, Divided, FinishLine
  PROVE  Divided' /\ Promise!Deliver
<1>1. /\ text' = text /\ end' = end /\ eof' = eof /\ finishing' = finishing /\ buffer' = buffer
      /\ last_buffer_ended_with_cr' = last_buffer_ended_with_cr
      /\ finishing /\ linebuf # <<>> /\ linebuf' = <<>>
      /\ lines' = Append(lines, SkipBom(linebuf))
  BY DEF FinishLine, ProcessLine, callVars
<1>2. /\ text \in Seq(STRING) /\ Len(text) \in Nat /\ Fed /\ end = Len(text)
      /\ buffer = Len(text) + 1 /\ last_buffer_ended_with_cr = FALSE
      /\ lines \in Seq(Seq(STRING)) /\ Len(lines) \in Nat /\ linebuf \in Seq(STRING)
  <2>1. Fed /\ end = Len(text) /\ ~last_buffer_ended_with_cr
    BY <1>1 DEF Divided
  <2> QED
    BY <2>1, TextType DEF TypeOK, Fed
<1>3. PICK s \in Nat \ {0} : s = Start
  BY LinePlaces
<1>4. /\ Len(linebuf) \in Nat /\ Len(linebuf) > 0
      /\ s = Len(text) + 1 - Len(linebuf) /\ s \in 1..Len(text)
      /\ \A i \in s..Len(text) : ~LineEnd(text[i])
  <2>1. Here = Len(text) + 1
    BY <1>2 DEF Here
  <2>2. Len(linebuf) \in Nat /\ Len(linebuf) > 0
    BY <1>1, <1>2, EmptySeq
  <2>3. s = Here - Len(linebuf) /\ \A i \in s..(Here - 1) : ~LineEnd(text[i])
    BY <1>3, LinePlaces
  <2> QED
    BY <1>2, <1>3, <2>1, <2>2, <2>3
<1>5. /\ Begins(text, s) /\ Len(lines) = Cardinality(BreaksBefore(text, s)) /\ Waiting
  BY <1>1, <1>3 DEF Divided, Waiting
<1>6. /\ Len(text) + 1 \in Promise!Rest(text)
      /\ \A j \in Promise!Breaks(text) : j < s
  BY <1>2, <1>4, <1>5, RestIsLine
<1>7. PICK e \in Nat : e = Len(text) + 1
  BY <1>2
<1>8. e \in Stops(text) /\ (\A j \in Stops(text) : j < e => j < s) /\ e >= s
  <2>1. Promise!Rest(text) \subseteq {Len(text) + 1}
    BY <1>2, StopsWithin
  <2> QED
    BY <1>2, <1>4, <1>6, <1>7, <2>1 DEF Stops
<1>9. linebuf = Promise!Shown(SubSeq(text, s, e - 1))
  <2>1. \A i \in 1..Len(linebuf) :
          linebuf[i] = IF text[s + i - 1] = "NUL" THEN "REPL" ELSE text[s + i - 1]
    BY <1>3 DEF Divided
  <2>2. Len(linebuf) = e - s /\ e \in s..(Len(text) + 1)
    BY <1>2, <1>4, <1>7
  <2> QED
    BY <1>2, <2>1, <2>2, ShownPiece
<1>10. /\ Len(lines') = Len(lines) + 1 /\ Len(lines') <= Len(Promise!Split(text))
       /\ lines' = Append(lines, Promise!Split(text)[Len(lines) + 1])
       /\ \A k \in 1..Len(lines') : lines'[k] = Promise!Split(text)[k]
  BY <1>1, <1>2, <1>3, <1>5, <1>8, <1>9, LineDue
<1>11. Len(lines') = Len(Promise!Split(text))
  <2>1. Stops(text) = BreaksBefore(text, s) \cup {e}
    <3>1. Promise!Rest(text) = {e}
      BY <1>2, <1>6, <1>7, StopsWithin
    <3> QED
      BY <1>6, <3>1 DEF Stops, BreaksBefore
  <2>2. e \notin BreaksBefore(text, s)
    BY <1>4, <1>7 DEF BreaksBefore
  <2>3. IsFiniteSet(BreaksBefore(text, s))
    BY <1>2, BeforeCounts
  <2>4. Cardinality(BreaksBefore(text, s) \cup {e}) = Cardinality(BreaksBefore(text, s)) + 1
    BY <2>2, <2>3, FS_AddElement
  <2>5. Len(Promise!Split(text)) = Cardinality(Stops(text))
    BY <1>2, SplitLines
  <2> QED
    BY <1>5, <1>10, <2>1, <2>4, <2>5
<1>12. Here' = Len(text) + 1 /\ Start' = Len(text) + 1 /\ Fed'
  <2>1. Here' = Len(text) + 1
    BY <1>1, <1>2 DEF Here
  <2>2. PICK h \in Int : h = Len(text) + 1
    BY <1>2
  <2>3. Start' = h - Len(<<>>)
    BY <1>1, <2>1, <2>2 DEF Start
  <2>4. h - Len(<<>>) = h
    OBVIOUS
  <2>5. Fed'
    BY <1>1, <1>2 DEF Fed
  <2> QED
    BY <2>1, <2>2, <2>3, <2>4, <2>5
<1>13. Divided'
  <2>1. Start' >= 1
    BY <1>2, <1>12
  <2>2. \A i \in 1..Len(linebuf') : FALSE
    BY <1>1
  <2> QED
    BY <1>1, <1>2, <1>10, <1>11, <1>12, <2>1, <2>2 DEF Divided
<1>14. Promise!Deliver
  <2>1. (eof \/ finishing)' = (eof \/ finishing)
    BY <1>1
  <2>2. Len(lines) < Promise!Due
    BY <1>1, <1>2, <1>10, DueIs
  <2> QED
    BY Zenon, <1>1, <1>10, <2>1, <2>2 DEF Promise!Deliver
<1> QED
  BY <1>13, <1>14

\* The program says that this was all.
LEMMA FinishDivides ==
  ASSUME TypeOK, Divided, Finish
  PROVE  Divided' /\ (Promise!End \/ UNCHANGED Promise!vars)
<1>1. /\ text' = text /\ end' = end /\ eof' = eof /\ buffer' = buffer /\ linebuf' = linebuf
      /\ lines' = lines /\ last_buffer_ended_with_cr' = last_buffer_ended_with_cr
      /\ Fed /\ end = Len(text) /\ ~finishing /\ finishing' = TRUE
  BY DEF Finish, feedVars
<1>2. Start' = Start /\ (Fed' <=> Fed)
  BY <1>1 DEF Start, Here, Fed
<1>3. PICK s : s = Start
  OBVIOUS
<1>4. Divided'
  <2>1. /\ last_buffer_ended_with_cr => Fed /\ end > 0 /\ text[end] = "CR" /\ linebuf = <<>>
        /\ s >= 1
        /\ \A i \in 1..Len(linebuf) :
             /\ ~LineEnd(text[s + i - 1])
             /\ linebuf[i] = IF text[s + i - 1] = "NUL" THEN "REPL" ELSE text[s + i - 1]
        /\ \/ Begins(text, s) /\ Len(lines) = Cardinality(BreaksBefore(text, s))
           \/ Fed /\ linebuf = <<>> /\ Len(lines) = Len(Promise!Split(text))
        /\ Len(lines) <= Len(Promise!Split(text))
        /\ \A k \in 1..Len(lines) : lines[k] = Promise!Split(text)[k]
    BY <1>3 DEF Divided
  <2> QED
    BY <1>1, <1>2, <1>3, <2>1 DEF Divided
<1>5. CASE eof
  <2>1. (eof' \/ finishing') = (eof \/ finishing)
    BY <1>1, <1>5
  <2> QED
    BY Zenon, <1>1, <1>4, <2>1 DEF Promise!vars
<1>6. CASE ~eof
  <2>1. ~(eof \/ finishing) /\ Len(lines) = Promise!Due
    BY <1>1, <1>6, AllDelivered
  <2>2. (eof' \/ finishing') = TRUE
    BY <1>1
  <2> QED
    BY Zenon, <1>1, <1>4, <2>1, <2>2 DEF Promise!End
<1> QED
  BY <1>5, <1>6

\* A parse begins with nothing delivered.
LEMMA BeginsAfresh ==
  ASSUME NEW t \in Seq(STRING)
  PROVE  /\ Begins(t, 1) /\ BreaksBefore(t, 1) = {} /\ Cardinality(BreaksBefore(t, 1)) = 0
         /\ Len(Promise!Split(t)) \in Nat
<1>1. BreaksBefore(t, 1) = {}
  BY StopsWithin DEF BreaksBefore
<1>2. Len(Promise!Split(t)) \in Nat
  BY StopsWithin, SplitLines
<1> QED
  BY <1>1, <1>2, FS_EmptySet DEF Begins

\* A parser that is used again, or for the first time, has delivered nothing.
LEMMA AfreshDivides ==
  ASSUME text' \in Texts, buffer' = 1, end' = 0, eof' = FALSE, finishing' = FALSE,
         linebuf' = <<>>, last_buffer_ended_with_cr' = FALSE, lines' = <<>>
  PROVE  Divided'
<1>1. PICK t \in Seq(STRING) : t = text'
  BY LineFeedAssumption
<1>2. Start' = 1
  <2>1. Here' = 1
    BY DEF Here
  <2>2. Start' = 1 - Len(<<>>)
    BY <2>1 DEF Start
  <2> QED
    BY <2>2
<1>3. Begins(t, 1) /\ Cardinality(BreaksBefore(t, 1)) = 0 /\ Len(Promise!Split(t)) \in Nat
  BY BeginsAfresh
<1>4. Len(lines') = 0
  OBVIOUS
<1>5. /\ \A i \in 1..Len(linebuf') : FALSE
      /\ \A k \in 1..Len(lines') : FALSE
  BY <1>4
<1> QED
  BY <1>1, <1>2, <1>3, <1>4, <1>5 DEF Divided

\* cmark_parser_reset: everything was delivered, and another text begins.
LEMMA ResetDivides ==
  ASSUME TypeOK, Divided, Reset
  PROVE  Divided' /\ Promise!Again
<1>1. /\ text' \in Texts /\ buffer' = 1 /\ end' = 0 /\ eof' = FALSE /\ finishing' = FALSE
      /\ linebuf' = <<>> /\ last_buffer_ended_with_cr' = FALSE /\ lines' = <<>>
      /\ finishing /\ linebuf = <<>>
  BY LineFeedAssumption DEF Reset, Finished
<1>2. Divided'
  BY <1>1, AfreshDivides
<1>3. /\ text \in Seq(STRING) /\ Len(text) \in Nat /\ Fed /\ end = Len(text)
      /\ buffer = end + 1
  <2>1. Fed /\ end = Len(text)
    BY <1>1 DEF Divided
  <2> QED
    BY <2>1, TextType DEF Fed
<1>4. Len(lines) = Len(Promise!Split(text))
  <2>1. CASE Len(lines) = Len(Promise!Split(text))
    BY <2>1
  <2>2. CASE Begins(text, Start) /\ Len(lines) = Cardinality(BreaksBefore(text, Start))
    <3>1. Start = Len(text) + 1
      <4>1. Here = Len(text) + 1
        BY <1>3 DEF Here
      <4>2. PICK h \in Int : h = Here
        BY <1>3, <4>1
      <4>3. Start = h - Len(<<>>)
        BY <1>1, <4>2 DEF Start
      <4> QED
        BY <4>1, <4>2, <4>3
    <3>2. Stops(text) = BreaksBefore(text, Len(text) + 1)
      BY <1>3, <2>2, <3>1, NoRest
    <3> QED
      BY <1>3, <2>2, <3>1, <3>2, SplitLines
  <2> QED
    BY <2>1, <2>2 DEF Divided
<1>5. Promise!Again
  <2>1. Len(lines) = Promise!Due
    BY <1>1, <1>4, DueIs
  <2>2. (eof' \/ finishing') = FALSE /\ (eof \/ finishing)
    BY <1>1
  <2> QED
    BY Zenon, <1>1, <2>1, <2>2 DEF Promise!Again
<1> QED
  BY <1>2, <1>5

-----------------------------------------------------------------------------
(* The specification                                                        *)

\* The invariant holds when a parser is made.
LEMMA InitIInv == Init => IInv /\ Promise!Init
<1> SUFFICES ASSUME Init PROVE IInv /\ Promise!Init
  OBVIOUS
<1>1. /\ text \in Texts /\ parses = 0 /\ front_matter_option \in BOOLEAN /\ finishing = FALSE
      /\ buffer = 1 /\ end = 0 /\ eof = FALSE /\ total_size = 0 /\ linebuf = <<>>
      /\ last_buffer_ended_with_cr = FALSE /\ lines = <<>> /\ body = <<>>
      /\ front_matter_scanning = FALSE /\ front_matter_info = <<>>
      /\ front_matter_buf = <<>> /\ front = NONE
  BY DEF Init
<1>2. PICK t \in Seq(STRING) : t = text
  BY <1>1, LineFeedAssumption
<1>3. Len(t) \in Nat
  OBVIOUS
<1>4. TypeOK
  <2>1. /\ UINT_MAX \in Nat /\ Parses \in Nat
    BY LineFeedAssumption
  <2>2. 0 \in 0..Parses /\ 0 \in 0..UINT_MAX /\ 0 \in 0..Len(text) /\ 1 \in 1..(0 + 1)
    BY <1>2, <1>3, <2>1
  <2>3. /\ <<>> \in Seq(STRING) /\ <<>> \in Seq(Seq(STRING)) /\ <<>> \in Seq(Nat)
        /\ \A i \in DOMAIN <<>> : FALSE
    OBVIOUS
  <2> QED
    BY <1>1, <2>2, <2>3 DEF TypeOK
<1>5. Divided
  <2>1. Start = 1
    <3>1. Here = 1
      BY <1>1 DEF Here
    <3>2. Start = 1 - Len(<<>>)
      BY <1>1, <3>1 DEF Start
    <3> QED
      BY <3>2
  <2>2. Begins(t, 1) /\ Cardinality(BreaksBefore(t, 1)) = 0 /\ Len(Promise!Split(t)) \in Nat
    BY BeginsAfresh
  <2>3. Len(lines) = 0
    BY <1>1
  <2>4. /\ \A i \in 1..Len(linebuf) : FALSE
        /\ \A k \in 1..Len(lines) : FALSE
    BY <1>1
  <2> QED
    BY <1>1, <1>2, <2>1, <2>2, <2>3, <2>4 DEF Divided
<1>6. Gathered
  <2>1. ~Opened
    BY <1>1 DEF Opened
  <2>2. body = [i \in 1..Len(lines) |-> i]
    BY <1>1
  <2> QED
    BY <1>1, <2>1, <2>2 DEF Gathered
<1>7. Promise!Init
  BY <1>1 DEF Promise!Init
<1> QED
  BY <1>4, <1>5, <1>6, <1>7 DEF IInv

\* Every step keeps the invariant, and is a step of LineSplit or none.
LEMMA NextIInv ==
  IInv /\ [Next]_vars => IInv' /\ [Promise!Next]_(Promise!vars)
<1> SUFFICES ASSUME TypeOK, Divided, Gathered, [Next]_vars
             PROVE  IInv' /\ [Promise!Next]_(Promise!vars)
  BY DEF IInv
<1>1. /\ text \in Texts /\ parses \in 0..Parses /\ front_matter_option \in BOOLEAN
      /\ finishing \in BOOLEAN /\ end \in 0..Len(text) /\ buffer \in 1..(end + 1)
      /\ eof \in BOOLEAN /\ last_buffer_ended_with_cr \in BOOLEAN /\ total_size \in 0..UINT_MAX
      /\ linebuf \in Seq(STRING) /\ \A i \in DOMAIN linebuf : linebuf[i] \notin {"CR", "LF", "NUL"}
      /\ lines \in Seq(Seq(STRING)) /\ body \in Seq(Nat) /\ front_matter_scanning \in BOOLEAN
      /\ front_matter_info \in Seq(STRING) /\ front_matter_buf \in Seq(Seq(STRING))
      /\ front \in FrontMatter \cup {NONE}
  BY DEF TypeOK
<1>2. /\ <<>> \in Seq(STRING) /\ <<>> \in Seq(Seq(STRING)) /\ <<>> \in Seq(Nat)
      /\ \A i \in DOMAIN <<>> : FALSE
  OBVIOUS
<1>3. ASSUME NEW k \in 1..(Len(text) - end), NEW last \in BOOLEAN, Feed(k, last)
      PROVE  IInv' /\ Promise!Next
  <2>1. /\ UNCHANGED <<callVars, linebuf, lines, body, frontVars>> /\ ~finishing
    BY <1>3 DEF Feed
  <2>2. /\ end' \in 0..Len(text) /\ buffer' \in 1..(end' + 1) /\ eof' \in BOOLEAN
        /\ last_buffer_ended_with_cr' \in BOOLEAN /\ total_size' \in 0..UINT_MAX
        /\ Divided' /\ Promise!Hand
    BY <1>3, FeedDivides
  <2>3. Gathered'
    BY <1>1, <2>1, GatheredStays DEF callVars
  <2>4. TypeOK'
    BY <1>1, <2>1, <2>2 DEF TypeOK, callVars, frontVars
  <2> QED
    BY <2>2, <2>3, <2>4 DEF IInv, Promise!Next
<1>4. CASE FeedLine
  <2>1. /\ UNCHANGED <<callVars, end, eof, total_size>> /\ linebuf' = <<>> /\ ~Fed
        /\ ProcessLine(linebuf \o Chunk)
    BY <1>4 DEF FeedLine
  <2>2. /\ buffer' \in 1..(end + 1) /\ last_buffer_ended_with_cr' \in BOOLEAN
        /\ Divided' /\ Promise!Deliver
    BY <1>4, FeedLineDivides
  <2>3. linebuf \o Chunk \in Seq(STRING) /\ ~finishing
    BY <2>1, WithChunk DEF Divided
  <2>4. /\ lines' \in Seq(Seq(STRING)) /\ body' \in Seq(Nat)
        /\ front_matter_scanning' \in BOOLEAN
        /\ front_matter_info' \in Seq(STRING) /\ front_matter_buf' \in Seq(Seq(STRING))
        /\ front' \in FrontMatter \cup {NONE}
        /\ Gathered'
    BY <2>1, <2>3, LineGathered DEF callVars
  <2>5. TypeOK'
    BY <1>1, <1>2, <2>1, <2>2, <2>4 DEF TypeOK, callVars
  <2> QED
    BY <2>2, <2>4, <2>5 DEF IInv, Promise!Next
<1>5. CASE FeedNul \/ FeedRest
  <2>1. /\ UNCHANGED <<callVars, end, eof, total_size, last_buffer_ended_with_cr, lines, body,
                       frontVars>> /\ ~Fed
    BY <1>5 DEF FeedNul, FeedRest
  <2>2. /\ buffer' \in 1..(end + 1) /\ linebuf' \in Seq(STRING)
        /\ \A i \in DOMAIN linebuf' : linebuf'[i] \notin {"CR", "LF", "NUL"}
        /\ Divided'
    BY <1>5, PartDivides
  <2>3. ~finishing
    BY <2>1 DEF Divided
  <2>4. Gathered'
    BY <1>1, <2>1, <2>3, GatheredStays DEF callVars
  <2>5. TypeOK'
    BY <1>1, <2>1, <2>2 DEF TypeOK, callVars, frontVars
  <2>6. UNCHANGED Promise!vars
    BY <2>1 DEF Promise!vars, callVars
  <2> QED
    BY <2>2, <2>4, <2>5, <2>6 DEF IInv
<1>6. CASE Finish
  <2>1. /\ UNCHANGED <<text, parses, front_matter_option, feedVars, lines, body, frontVars>>
        /\ ~finishing /\ finishing' = TRUE
    BY <1>6 DEF Finish
  <2>2. Divided' /\ (Promise!End \/ UNCHANGED Promise!vars)
    BY <1>6, FinishDivides
  <2>3. Gathered'
    BY <1>1, <2>1, GatheredStays
  <2>4. TypeOK'
    BY <1>1, <2>1 DEF TypeOK, feedVars, frontVars
  <2> QED
    BY <2>2, <2>3, <2>4 DEF IInv, Promise!Next
<1>7. CASE FinishLine
  <2>1. /\ UNCHANGED <<callVars, buffer, end, eof, total_size, last_buffer_ended_with_cr>>
        /\ linebuf # <<>> /\ linebuf' = <<>> /\ ProcessLine(linebuf)
    BY <1>7 DEF FinishLine
  <2>2. Divided' /\ Promise!Deliver
    BY <1>7, FinishLineDivides
  <2>3. /\ lines' \in Seq(Seq(STRING)) /\ body' \in Seq(Nat)
        /\ front_matter_scanning' \in BOOLEAN
        /\ front_matter_info' \in Seq(STRING) /\ front_matter_buf' \in Seq(Seq(STRING))
        /\ front' \in FrontMatter \cup {NONE}
        /\ Gathered'
    BY <1>1, <2>1, LineGathered DEF callVars
  <2>4. TypeOK'
    BY <1>1, <1>2, <2>1, <2>3 DEF TypeOK, callVars
  <2> QED
    BY <2>2, <2>3, <2>4 DEF IInv, Promise!Next
<1>8. CASE FinishFrontMatter
  <2>1. UNCHANGED <<callVars, feedVars, lines, body>>
    BY <1>8 DEF FinishFrontMatter
  <2>2. /\ front_matter_scanning' \in BOOLEAN
        /\ front_matter_info' \in Seq(STRING) /\ front_matter_buf' \in Seq(Seq(STRING))
        /\ front' \in FrontMatter \cup {NONE}
        /\ Gathered'
    BY <1>8, UnclosedGathered
  <2>3. Divided'
    BY <2>1 DEF Divided, Start, Here, Fed, callVars, feedVars
  <2>4. TypeOK'
    BY <1>1, <2>1, <2>2 DEF TypeOK, callVars, feedVars
  <2>5. UNCHANGED Promise!vars
    BY <2>1 DEF Promise!vars, callVars, feedVars
  <2> QED
    BY <2>2, <2>3, <2>4, <2>5 DEF IInv
<1>9. CASE Reset
  <2>1. /\ text' \in Texts /\ parses' = parses + 1 /\ parses < Parses
        /\ buffer' = 1 /\ end' = 0 /\ eof' = FALSE /\ finishing' = FALSE /\ total_size' = 0
        /\ linebuf' = <<>> /\ last_buffer_ended_with_cr' = FALSE
        /\ lines' = <<>> /\ body' = <<>> /\ front_matter_scanning' = FALSE
        /\ front_matter_info' = <<>> /\ front_matter_buf' = <<>> /\ front' = NONE
        /\ front_matter_option' = front_matter_option
    BY <1>9, LineFeedAssumption DEF Reset
  <2>2. Divided' /\ Promise!Again
    BY <1>9, ResetDivides
  <2>3. Gathered'
    <3>1. ~Opened'
      BY <2>1 DEF Opened
    <3>2. body' = [i \in 1..Len(lines') |-> i]
      BY <2>1
    <3> QED
      BY <2>1, <3>1, <3>2 DEF Gathered
  <2>4. TypeOK'
    <3>1. UINT_MAX \in Nat /\ Parses \in Nat
      BY LineFeedAssumption
    <3>2. PICK t \in Seq(STRING) : t = text'
      BY <2>1, LineFeedAssumption
    <3>3. Len(t) \in Nat
      OBVIOUS
    <3>4. /\ parses + 1 \in 0..Parses /\ 0 \in 0..UINT_MAX /\ 0 \in 0..Len(t)
          /\ 1 \in 1..(0 + 1)
      BY <1>1, <2>1, <3>1, <3>3
    <3> QED
      BY <1>1, <1>2, <2>1, <3>2, <3>4 DEF TypeOK
  <2> QED
    BY <2>2, <2>3, <2>4 DEF IInv, Promise!Next
<1>10. CASE UNCHANGED vars
  <2>1. UNCHANGED <<callVars, feedVars, lines, body, frontVars>>
    BY <1>10 DEF vars
  <2>2. Divided'
    BY <2>1 DEF Divided, Start, Here, Fed, callVars, feedVars
  <2>3. Gathered'
    BY <1>1, <2>1, GatheredStays DEF callVars, feedVars
  <2>4. TypeOK'
    BY <1>1, <2>1 DEF TypeOK, callVars, feedVars, frontVars
  <2>5. UNCHANGED Promise!vars
    BY <2>1 DEF Promise!vars, callVars, feedVars
  <2> QED
    BY <2>2, <2>3, <2>4, <2>5 DEF IInv
<1> QED
  BY <1>3, <1>4, <1>5, <1>6, <1>7, <1>8, <1>9, <1>10 DEF Next, FeedSome

\* A line is a delimiter as the guide means it when the scanner says so.
LEMMA DelimitersAsSpecified ==
  ASSUME NEW l \in Seq(STRING)
  PROVE  /\ is_opening_delimiter(l) <=>
              /\ Len(l) >= 3 /\ SubSeq(l, 1, 3) = <<"-", "-", "-">>
              /\ Len(l) = 3 \/ l[4] # "-"
         /\ is_closing_delimiter(l) <=>
              /\ Len(l) >= 3 /\ SubSeq(l, 1, 3) = <<"-", "-", "-">>
              /\ {l[i] : i \in 4..Len(l)} \subseteq {" "}
<1>1. Len(l) \in Nat
  OBVIOUS
<1>2. Dashes(l) <=> Len(l) >= 3 /\ SubSeq(l, 1, 3) = <<"-", "-", "-">>
  BY DashesTogether
<1>3. Len(l) >= 3 => (~(Len(l) > 3 /\ l[4] = "-") <=> Len(l) = 3 \/ l[4] # "-")
  <2>1. \A n \in Nat : n >= 3 => (n = 3 <=> ~(n > 3))
    OBVIOUS
  <2> QED
    BY Zenon, <1>1, <2>1
<1>4. Dashes(l) => Len(l) >= 3
  BY DEF Dashes
<1>5. (\A i \in 4..Len(l) : l[i] = " ") <=> {l[i] : i \in 4..Len(l)} \subseteq {" "}
  OBVIOUS
<1> QED
  BY Zenon, <1>2, <1>3, <1>4, <1>5 DEF is_opening_delimiter, is_closing_delimiter

\* What the scanner gathered is, when all is done, what the guide says.
LEMMA GatheredDivides == TypeOK /\ Gathered => FrontMatterDivided
<1> SUFFICES ASSUME TypeOK, Gathered, Finished PROVE FrontMatterDivided
  BY DEF FrontMatterDivided
<1> DEFINE Delimiter(k) == Len(lines[k]) >= 3 /\ SubSeq(lines[k], 1, 3) = <<"-", "-", "-">>
           opens == /\ front_matter_option /\ lines # <<>> /\ Delimiter(1)
                    /\ Len(lines[1]) = 3 \/ lines[1][4] # "-"
           closing == {k \in 2..Len(lines) :
                         Delimiter(k) /\ {lines[k][i] : i \in 4..Len(lines[k])} \subseteq {" "}}
           close == CHOOSE k \in closing : \A j \in closing : k <= j
           last == IF closing = {} THEN Len(lines) ELSE close
           bodyFrom == IF opens THEN last + 1 ELSE 1
           whole == /\ body = [i \in 1..(Len(lines) - bodyFrom + 1) |-> bodyFrom + i - 1]
                    /\ IF opens
                       THEN /\ front # NONE /\ front.end_line = last
                            /\ front.literal =
                                 SubSeq(lines, 2, IF closing = {} THEN last ELSE last - 1)
                       ELSE front = NONE
<1>1. lines \in Seq(Seq(STRING)) /\ Len(lines) \in Nat /\ front \in FrontMatter \cup {NONE}
  BY DEF TypeOK
<1>2. opens <=> Opened
  <2>1. CASE lines = <<>>
    BY <2>1 DEF Opened
  <2>2. CASE lines # <<>>
    <3>1. lines[1] \in Seq(STRING)
      BY <1>1, <2>2, EmptySeq
    <3> QED
      BY Zenon, <2>2, <3>1, DelimitersAsSpecified DEF Opened
  <2> QED
    BY <2>1, <2>2
<1>3. closing = Closing
  <2>1. \A k \in 2..Len(lines) : lines[k] \in Seq(STRING)
    BY <1>1
  <2>2. \A k \in 2..Len(lines) :
          is_closing_delimiter(lines[k]) <=>
            Delimiter(k) /\ {lines[k][i] : i \in 4..Len(lines[k])} \subseteq {" "}
    BY Zenon, <2>1, DelimitersAsSpecified
  <2> QED
    BY Zenon, <2>2 DEF Closing
<1>4. Opened => ~front_matter_scanning
  BY DEF Opened, Finished
<1> HIDE DEF opens, closing, close
<1>5. ASSUME ~Opened
      PROVE  whole
  <2>1. front = NONE /\ body = [i \in 1..Len(lines) |-> i]
    BY <1>5 DEF Gathered
  <2>2. bodyFrom = 1 /\ ~opens
    BY <1>2, <1>5
  <2> HIDE DEF bodyFrom
  <2>3. [i \in 1..(Len(lines) - bodyFrom + 1) |-> bodyFrom + i - 1] = [i \in 1..Len(lines) |-> i]
    BY <1>1, <2>2
  <2>4. body = [i \in 1..(Len(lines) - bodyFrom + 1) |-> bodyFrom + i - 1]
    BY Zenon, <2>1, <2>3
  <2> HIDE DEF last
  <2> QED
    BY Zenon, <2>1, <2>2, <2>4
<1>6. ASSUME Opened, NEW c \in Closing, FirstClosing(c), front = MatterTo(c - 1, c),
             body = [i \in 1..(Len(lines) - c) |-> c + i]
      PROVE  whole
  <2>1. c \in 2..Len(lines) /\ \A k \in Closing : k \in 2..Len(lines)
    BY DEF Closing
  <2>2. closing # {} /\ last = c
    <3>1. c \in closing /\ \A k \in closing : c <= k
      BY <1>3, <1>6 DEF FirstClosing
    <3>2. \A k \in closing : (\A j \in closing : k <= j) => k = c
      BY <1>3, <2>1, <3>1
    <3>3. close = c
      BY Zenon, <3>1, <3>2 DEF close
    <3> QED
      BY <3>1, <3>3
  <2> HIDE DEF last
  <2>3. opens /\ bodyFrom = c + 1
    BY <1>2, <1>6, <2>2
  <2> HIDE DEF bodyFrom
  <2>4. [i \in 1..(Len(lines) - bodyFrom + 1) |-> bodyFrom + i - 1]
          = [i \in 1..(Len(lines) - c) |-> c + i]
    BY <1>1, <2>1, <2>3
  <2>5. front # NONE
    <3>1. front \in FrontMatter
      <4>1. parse_info(lines[1]) \in Seq(STRING)
        <5>1. lines[1] \in Seq(STRING)
          BY <1>1, <2>1
        <5> QED
          BY <5>1, InfoType
      <4>2. SubSeq(lines, 2, c - 1) \in Seq(Seq(STRING)) /\ c \in Nat
        BY <1>1, <2>1
      <4> QED
        BY <1>6, <4>1, <4>2 DEF MatterTo, FrontMatter
    <3> QED
      BY <3>1, LineFeedAssumption
  <2>6. front.end_line = c /\ front.literal = SubSeq(lines, 2, c - 1)
    BY <1>6 DEF MatterTo
  <2>7. (IF closing = {} THEN last ELSE last - 1) = c - 1
    BY <2>2
  <2> QED
    BY Zenon, <1>6, <2>2, <2>3, <2>4, <2>5, <2>6, <2>7
<1>7. ASSUME Opened, Closing = {}, front = MatterTo(Len(lines), Len(lines)), body = <<>>
      PROVE  whole
  <2>1. closing = {} /\ last = Len(lines) /\ opens /\ bodyFrom = Len(lines) + 1
    BY <1>2, <1>3, <1>7
  <2>2. [i \in 1..(Len(lines) - bodyFrom + 1) |-> bodyFrom + i - 1] = <<>>
    BY <1>1, <2>1
  <2>3. front # NONE
    <3>1. front \in FrontMatter
      <4>1. parse_info(lines[1]) \in Seq(STRING)
        <5>1. lines[1] \in Seq(STRING)
          BY <1>1, <1>7, EmptySeq DEF Opened
        <5> QED
          BY <5>1, InfoType
      <4>2. SubSeq(lines, 2, Len(lines)) \in Seq(Seq(STRING))
        BY <1>1
      <4> QED
        BY <1>1, <1>7, <4>1, <4>2 DEF MatterTo, FrontMatter
    <3> QED
      BY <3>1, LineFeedAssumption
  <2>4. front.end_line = Len(lines) /\ front.literal = SubSeq(lines, 2, Len(lines))
    BY <1>7 DEF MatterTo
  <2> QED
    BY <1>7, <2>1, <2>2, <2>3, <2>4
<1> HIDE DEF whole
<1>8. whole
  <2>1. CASE Opened
    <3>1. \/ \E c \in Closing : /\ FirstClosing(c) /\ front = MatterTo(c - 1, c)
                                /\ body = [i \in 1..(Len(lines) - c) |-> c + i]
          \/ Closing = {} /\ front = MatterTo(Len(lines), Len(lines)) /\ body = <<>>
      BY <1>4, <2>1 DEF Gathered
    <3> QED
      BY Zenon, <1>6, <1>7, <2>1, <3>1
  <2> QED
    BY <1>5, <2>1
<1> QED
  BY <1>8 DEF FrontMatterDivided, whole, opens, closing, close

\* Wherever the parser is in a buffer, the lines it has counted are those of the
\* text, linebuf has the characters of the line begun, and the front matter
\* scanner has what these lines amount to (S_parser_feed, front_matter.c).
THEOREM LinesAndMatterAgree == Spec => []IInv
<1>1. Init => IInv
  BY InitIInv
<1>2. IInv /\ [Next]_vars => IInv'
  BY NextIInv
<1> QED
  BY <1>1, <1>2, PTL DEF Spec

\* The variables keep their types: the buffer is in the text, total_size stays
\* within its width, and no line begun contains a line end or a NUL.
THEOREM TypesKept == Spec => []TypeOK
<1>1. IInv => TypeOK
  BY DEF IInv
<1> QED
  BY <1>1, LinesAndMatterAgree, PTL

\* Front matter and blocks divide the lines as the guide says, for every text
\* and every way to cut it, with every parser that is used again.
THEOREM MatterIsDivided == Spec => []FrontMatterDivided
<1>1. IInv => FrontMatterDivided
  BY GatheredDivides DEF IInv
<1> QED
  BY <1>1, LinesAndMatterAgree, PTL

\* S_parser_feed with cmark_parser_finish and cmark_parser_reset delivers the
\* lines LineSplit promises, in every text, however the program cuts it.
THEOREM CutsDoNotMatter == Spec => ImplementsSplit
<1>1. Init => Promise!Init
  BY InitIInv
<1>2. IInv /\ [Next]_vars => [Promise!Next]_(Promise!vars)
  BY NextIInv
<1> QED
  BY <1>1, <1>2, LinesAndMatterAgree, PTL DEF Spec, ImplementsSplit, Promise!Spec
=============================================================================
