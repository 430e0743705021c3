------------------------------ MODULE LineSplit ------------------------------
(****************************************************************************)
(* What the parser's input side promises: the lines of a text, one after    *)
(* the other, each as soon as the character that ends it has been handed    *)
(* over, and the same lines however the text is cut into buffers.           *)
(****************************************************************************)
EXTENDS Naturals, Sequences, FiniteSets

CONSTANT Texts      \* the texts a program may have parsed

VARIABLES text,     \* the text being parsed
          fed,      \* how much of it has been handed over
          ended,    \* whether the program has said that this is all of it
          lines     \* the lines delivered so far

vars == <<text, fed, ended, lines>>

\* A line ends at CR, at LF, or at CR LF, which is one line end and not two.
Breaks(t) ==
  {i \in DOMAIN t : \/ t[i] = "CR"
                    \/ t[i] = "LF" /\ ~(i > 1 /\ t[i - 1] = "CR")}

After(t, i) ==
  IF t[i] = "CR" /\ i < Len(t) /\ t[i + 1] = "LF" THEN i + 2 ELSE i + 1

\* What is left after the last line end is a line too, if there is any.
Rest(t) ==
  IF t # <<>> /\ \A i \in Breaks(t) : After(t, i) <= Len(t)
  THEN {Len(t) + 1} ELSE {}

\* NULs are replaced; a byte order mark is dropped at the start of the text.
Shown(l) == [i \in DOMAIN l |-> IF l[i] = "NUL" THEN "REPL" ELSE l[i]]
Unmarked(l) == IF l # <<>> /\ l[1] = "BOM" THEN Tail(l) ELSE l

Split(t) ==
  LET stops == Breaks(t) \cup Rest(t)
      Stop(k) == CHOOSE i \in stops : Cardinality({j \in stops : j <= i}) = k
      Line(k) == SubSeq(t, IF k = 1 THEN 1 ELSE After(t, Stop(k - 1)), Stop(k) - 1)
  IN  [k \in 1..Cardinality(stops) |->
         IF k = 1 THEN Unmarked(Shown(Line(k))) ELSE Shown(Line(k))]

\* How many lines the part handed over determines.
Due == IF ended THEN Len(Split(text))
       ELSE Cardinality({i \in Breaks(text) : i <= fed})

-----------------------------------------------------------------------------
Init ==
  /\ text \in Texts
  /\ fed = 0
  /\ ended = FALSE
  /\ lines = <<>>

Hand ==
  /\ ~ended
  /\ Len(lines) = Due
  /\ fed' \in (fed + 1)..Len(text)
  /\ ended' \in IF fed' = Len(text) THEN BOOLEAN ELSE {FALSE}
  /\ UNCHANGED <<text, lines>>

Deliver ==
  /\ Len(lines) < Due
  /\ lines' = Append(lines, Split(text)[Len(lines) + 1])
  /\ UNCHANGED <<text, fed, ended>>

End ==
  /\ ~ended
  /\ fed = Len(text)
  /\ Len(lines) = Due
  /\ ended' = TRUE
  /\ UNCHANGED <<text, fed, lines>>

\* The same parser is used for another text.
Again ==
  /\ ended
  /\ Len(lines) = Due
  /\ text' \in Texts
  /\ fed' = 0
  /\ ended' = FALSE
  /\ lines' = <<>>

Next == Hand \/ Deliver \/ End \/ Again

Spec == Init /\ [][Next]_vars
=============================================================================
