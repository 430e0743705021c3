----------------------------- MODULE InlinesProofs -----------------------------
(****************************************************************************)
(* Theorems about Inlines, for every number of tokens and every set of      *)
(* delimiter runs: no bound of a search hides an opener, and the texts that *)
(* the two stacks refer to are in the tree, in the order of the stacks.     *)
(****************************************************************************)
EXTENDS Inlines, ListLemmas, TLAPS

(* The inductive invariant                                                  *)

Brackets == [image : BOOLEAN, position : Nat, bracket_after : BOOLEAN]

\* What was scanned, and the two stacks.
StacksOK ==
  /\ input \in Seq(Token)
  /\ DOMAIN delims \subseteq Nat \ {0}
  /\ \A p \in DOMAIN delims : delims[p] \in Delimiter
  /\ brackets \in Seq(Brackets)

\* The lengths, modulo 3, and the characters by which the bounds are kept.
Kinds == (0 .. 2) \X Chars

Calls == [after : {"link", "footnote", "end"}, stack_bottom : Nat, closer : Nat,
          openers_bottom : [Kinds -> Nat]]

CallOK ==
  call # NoCall => call \in Calls /\ call.closer \in DOMAIN delims \cup {NULL}

\* No run below a bound opens what a run closes that has the bound's length
\* (modulo 3) and character and may open as well.
Barred ==
  call # NoCall =>
    \A x \in Kinds : \A p \in DOMAIN delims : \A c \in Delimiter :
      /\ call.stack_bottom <= p /\ p < call.openers_bottom[x]
      /\ c.length % 3 = x[1] /\ c.char = x[2] /\ c.can_open
      => ~Matches(delims[p], c)

IInv == StacksOK /\ CallOK /\ Barred

-----------------------------------------------------------------------------
(* Operators                                                                *)

\* A run that may open as well is subject to the rule of 3 at least as much as
\* any of its length (modulo 3) and character.
LEMMA MatchesLess ==
  ASSUME NEW o \in Delimiter, NEW c \in Delimiter, NEW d \in Delimiter,
         c.char = d.char, c.length % 3 = d.length % 3, c.can_open, Matches(o, c)
  PROVE  Matches(o, d)
  BY DEF Matches, Delimiter

\* The kind of a run, by which the bounds are kept.
LEMMA KindOf ==
  ASSUME NEW c \in Delimiter
  PROVE  <<c.length % 3, c.char>> \in Kinds
  BY DEF Delimiter, Kinds

\* The lowest delimiter at or above a position is one of them, or there is none.
LEMMA LowestFound ==
  ASSUME NEW ds, DOMAIN ds \subseteq Nat \ {0}, NEW b \in Nat
  PROVE  \/ Lowest(ds, b) = NULL /\ \A p \in DOMAIN ds : ~(p >= b)
         \/ /\ Lowest(ds, b) \in DOMAIN ds /\ Lowest(ds, b) >= b
            /\ \A p \in DOMAIN ds : p >= b => Lowest(ds, b) <= p
<1> DEFINE above == {p \in DOMAIN ds : p >= b}
<1>1. CASE above = {}
  BY <1>1 DEF Lowest
<1>2. CASE above # {}
  <2>1. above \in SUBSET Nat
    OBVIOUS
  <2>2. \E m \in above : \A k \in above : m <= k
    <3> HIDE DEF above
    <3> QED
      BY <1>2, <2>1, LeastNumber
  <2>3. Lowest(ds, b) = CHOOSE p \in above : \A q \in above : p <= q
    BY <1>2 DEF Lowest
  <2>4. Lowest(ds, b) \in above /\ \A q \in above : Lowest(ds, b) <= q
    <3> HIDE DEF above
    <3> QED
      BY <2>2, <2>3
  <2> QED
    BY <2>4
<1> QED
  BY <1>1, <1>2

\* The delimiters that are left after some were removed.
LEMMA RemovedLeaves ==
  ASSUME NEW ps
  PROVE  /\ DOMAIN RemoveDelims(ps) = DOMAIN delims \ ps
         /\ \A p \in DOMAIN delims \ ps : RemoveDelims(ps)[p] = delims[p]
  BY DEF RemoveDelims

\* What is below the top of the stack of brackets.
LEMMA FrontLeaves ==
  ASSUME NEW s \in Seq(Brackets)
  PROVE  Front(s) \in Seq(Brackets)
<1>1. Len(s) \in Nat /\ \A i \in 1 .. Len(s) : s[i] \in Brackets
  OBVIOUS
<1>2. CASE Len(s) = 0
  <2>1. Front(s) = [i \in 1 .. 0 |-> s[i]]
    BY <1>2 DEF Front
  <2>2. Front(s) = <<>>
    BY <2>1
  <2> QED
    BY <2>2
<1>3. CASE Len(s) >= 1
  BY <1>1, <1>3 DEF Front
<1> QED
  BY <1>1, <1>2, <1>3

-----------------------------------------------------------------------------
(* The steps                                                                *)

\* Scanning, outside of any call.
LEMMA ScanKeeps ==
  ASSUME StacksOK, call = NoCall, call' = NoCall,
         NEW t \in Token, input' = Append(input, t),
         \/ delims' = delims
         \/ \E r \in Delimiter : delims' = PushDelim(r),
         \/ brackets' = brackets
         \/ \E image \in BOOLEAN : brackets' = PushBracket(image)
         \/ brackets # <<>> /\ brackets' = Front(brackets)
  PROVE  IInv'
<1>1. input' \in Seq(Token) /\ here \in Nat \ {0}
  BY DEF StacksOK, here
<1>2. DOMAIN delims' \subseteq Nat \ {0} /\ \A p \in DOMAIN delims' : delims'[p] \in Delimiter
  BY <1>1 DEF StacksOK, PushDelim, With
<1>3. brackets' \in Seq(Brackets)
  <2>1. CASE brackets # <<>> /\ brackets' = Front(brackets)
    BY <2>1, FrontLeaves DEF StacksOK
  <2>2. ASSUME NEW image \in BOOLEAN, brackets' = PushBracket(image)
        PROVE  brackets' \in Seq(Brackets)
    <3> DEFINE marked == [i \in DOMAIN brackets |->
            IF i = Len(brackets) THEN [brackets[i] EXCEPT !.bracket_after = TRUE]
            ELSE brackets[i]]
           new == [image |-> image, position |-> here, bracket_after |-> FALSE]
    <3>1. /\ brackets \in Seq(Brackets) /\ Len(brackets) \in Nat
          /\ DOMAIN brackets = 1 .. Len(brackets)
          /\ \A i \in 1 .. Len(brackets) : brackets[i] \in Brackets
      BY DEF StacksOK
    <3>2. marked \in [1 .. Len(brackets) -> Brackets]
      BY <3>1 DEF Brackets
    <3>3. marked \in Seq(Brackets)
      BY <3>1, <3>2, SeqDef
    <3>4. here \in Nat
      BY DEF StacksOK, here
    <3>5. new \in Brackets
      BY <2>2, <3>4 DEF Brackets
    <3> HIDE DEF marked, new
    <3>6. Append(marked, new) \in Seq(Brackets)
      BY <3>3, <3>5
    <3> QED
      BY <2>2, <3>6 DEF PushBracket, marked, new
  <2> QED
    BY <2>1, <2>2 DEF StacksOK
<1> QED
  BY <1>1, <1>2, <1>3 DEF IInv, StacksOK, CallOK, Barred

\* A call of process_emphasis begins: no bound is above the bottom of the stack.
LEMMA CallKeeps ==
  ASSUME StacksOK, call = NoCall, NEW b \in Nat, NEW after \in {"link", "footnote", "end"},
         call' = ProcessEmphasis(b, after), delims' = delims, brackets' = brackets,
         input' \in Seq(Token)
  PROVE  IInv'
<1>1. Lowest(delims, b) \in DOMAIN delims \cup {NULL}
  BY LowestFound DEF StacksOK
<1>2. call' \in Calls /\ call'.stack_bottom = b /\ call'.closer = Lowest(delims, b)
  BY <1>1 DEF ProcessEmphasis, Calls, Kinds, StacksOK, NULL
<1>3. \A x \in Kinds : call'.openers_bottom[x] \in {0, b}
  BY DEF ProcessEmphasis, Kinds
<1>4. \A x \in Kinds : \A p \in DOMAIN delims : ~(b <= p /\ p < call'.openers_bottom[x])
  <2> SUFFICES ASSUME NEW x \in Kinds, NEW p \in DOMAIN delims,
                      b <= p, p < call'.openers_bottom[x]
               PROVE  FALSE
    OBVIOUS
  <2>1. p \in Nat
    BY DEF StacksOK
  <2>2. PICK o \in {0, b} : o = call'.openers_bottom[x]
    BY <1>3
  <2> QED
    BY <2>1, <2>2
<1> QED
  BY <1>1, <1>2, <1>4 DEF IInv, StacksOK, CallOK, Barred

\* A turn of the loop: delimiters may go, and a bound may be raised, if nothing
\* below it opens such a run.
LEMMA TurnKeeps ==
  ASSUME IInv, call # NoCall, input' = input, brackets' = brackets,
         DOMAIN delims' \subseteq DOMAIN delims,
         \A p \in DOMAIN delims' : delims'[p] = delims[p],
         call' \in Calls, call'.stack_bottom = call.stack_bottom,
         call'.closer \in DOMAIN delims' \cup {NULL},
         \A x \in Kinds :
           \/ call'.openers_bottom[x] = call.openers_bottom[x]
           \/ \A p \in DOMAIN delims : \A c \in Delimiter :
                /\ call.stack_bottom <= p /\ p < call'.openers_bottom[x]
                /\ c.length % 3 = x[1] /\ c.char = x[2] /\ c.can_open
                => ~Matches(delims[p], c)
  PROVE  IInv'
<1>1. StacksOK'
  BY DEF IInv, StacksOK
<1>2. CallOK'
  BY DEF CallOK
<1>3. Barred'
  <2> SUFFICES ASSUME NEW x \in Kinds, NEW p \in DOMAIN delims', NEW c \in Delimiter,
                      call'.stack_bottom <= p, p < call'.openers_bottom[x],
                      c.length % 3 = x[1], c.char = x[2], c.can_open
               PROVE  ~Matches(delims'[p], c)
    BY DEF Barred
  <2>1. p \in DOMAIN delims /\ delims'[p] = delims[p]
    OBVIOUS
  <2> QED
    BY <2>1 DEF IInv, Barred
<1> QED
  BY <1>1, <1>2, <1>3 DEF IInv

\* The delimiter after the closer is above it, if there is one.
LEMMA NextFound ==
  ASSUME StacksOK, CallOK, Processing
  PROVE  /\ call \in Calls /\ call.closer \in DOMAIN delims /\ call.closer \in Nat
         /\ Closer \in Delimiter
         /\ NextDelim(call.closer) \in DOMAIN delims \cup {NULL}
         /\ NextDelim(call.closer) # NULL => NextDelim(call.closer) > call.closer
         /\ NextDelim(call.closer) \in Nat
<1>1. call \in Calls /\ call.closer \in DOMAIN delims /\ call.closer \in Nat
  BY DEF CallOK, Processing, Calls
<1>2. \/ NextDelim(call.closer) = NULL
      \/ NextDelim(call.closer) \in DOMAIN delims /\ NextDelim(call.closer) >= call.closer + 1
  BY <1>1, LowestFound DEF NextDelim, StacksOK
<1>3. NextDelim(call.closer) \in Nat
  BY <1>2 DEF StacksOK, NULL
<1> QED
  BY <1>1, <1>2, <1>3 DEF StacksOK, Closer

\* The search stops at no bound that hides an opener from a closer that can also
\* open.
LEMMA BarredComplete == IInv => SearchComplete
<1> SUFFICES ASSUME IInv, Processing, Closer.can_close, Closer.can_open, Openers = {},
                    NEW p \in OpenersFrom(call.stack_bottom)
             PROVE  FALSE
  BY DEF SearchComplete
<1>1. /\ call \in Calls /\ Closer \in Delimiter
      /\ p \in DOMAIN delims /\ call.stack_bottom <= p /\ p < call.closer
      /\ Matches(delims[p], Closer) /\ p \in Nat
  BY NextFound DEF IInv, OpenersFrom, StacksOK
<1>2. SearchBottom \in Nat
  BY <1>1, KindOf DEF SearchBottom, Calls
<1>3. p < SearchBottom
  BY <1>1, <1>2 DEF Openers, OpenersFrom
<1>4. ~Matches(delims[p], Closer)
  <2>1. <<Closer.length % 3, Closer.char>> \in Kinds
    BY <1>1, KindOf
  <2>2. call # NoCall
    BY DEF Processing
  <2> QED
    BY <1>1, <1>3, <2>1, <2>2 DEF IInv, Barred, SearchBottom
<1> QED
  BY <1>1, <1>4

\* A closer without an opener raises the bound of its kind up to itself.
LEMMA NoOpenerKeeps ==
  ASSUME IInv, NoOpener
  PROVE  IInv'
<1>1. /\ call \in Calls /\ call.closer \in DOMAIN delims /\ call.closer \in Nat
      /\ Closer \in Delimiter
      /\ NextDelim(call.closer) \in DOMAIN delims \cup {NULL}
      /\ NextDelim(call.closer) # NULL => NextDelim(call.closer) > call.closer
      /\ NextDelim(call.closer) \in Nat
  BY NextFound DEF IInv, NoOpener
<1> DEFINE k == <<Closer.length % 3, Closer.char>>
<1>2. k \in Kinds /\ SearchBottom = call.openers_bottom[k] /\ SearchBottom \in Nat
  BY <1>1, KindOf DEF SearchBottom, Calls
<1>3. /\ call' \in Calls /\ call'.stack_bottom = call.stack_bottom
      /\ call'.closer = NextDelim(call.closer)
      /\ \A x \in Kinds : call'.openers_bottom[x] =
           IF x = k THEN call.closer ELSE call.openers_bottom[x]
  BY <1>1, <1>2 DEF NoOpener, Calls
<1>4. /\ DOMAIN delims' \subseteq DOMAIN delims
      /\ \A p \in DOMAIN delims' : delims'[p] = delims[p]
      /\ call'.closer \in DOMAIN delims' \cup {NULL}
  <2>1. CASE delims' = delims
    BY <1>1, <1>3, <2>1
  <2>2. CASE delims' = RemoveDelims({call.closer})
    <3>1. DOMAIN delims' = DOMAIN delims \ {call.closer}
          /\ \A p \in DOMAIN delims' : delims'[p] = delims[p]
      BY <2>2, RemovedLeaves
    <3>2. PICK n \in Nat : n = NextDelim(call.closer)
      BY <1>1
    <3>3. n # NULL => n # call.closer
      BY <1>1, <3>2
    <3> QED
      BY <1>1, <1>3, <3>1, <3>2, <3>3
  <2> QED
    BY <2>1, <2>2 DEF NoOpener
<1>5. ASSUME NEW p \in DOMAIN delims, NEW c \in Delimiter,
             call.stack_bottom <= p, p < call.closer,
             c.length % 3 = k[1], c.char = k[2], c.can_open, Matches(delims[p], c)
      PROVE  FALSE
  <2>1. delims[p] \in Delimiter /\ p \in Nat /\ call # NoCall
    BY DEF IInv, StacksOK, NoOpener, Processing
  <2>2. Matches(delims[p], Closer)
    BY <1>1, <1>5, <2>1, MatchesLess
  <2>3. ~(SearchBottom <= p)
    BY <1>5, <2>2 DEF NoOpener, Openers, OpenersFrom
  <2>4. p < call.openers_bottom[k]
    BY <1>2, <2>1, <2>3
  <2> QED
    BY <1>2, <1>5, <2>1, <2>4 DEF IInv, Barred
<1>6. call # NoCall /\ input' = input /\ brackets' = brackets
  BY DEF NoOpener, Processing
<1>7. \A x \in Kinds :
        \/ call'.openers_bottom[x] = call.openers_bottom[x]
        \/ \A p \in DOMAIN delims : \A c \in Delimiter :
             /\ call.stack_bottom <= p /\ p < call'.openers_bottom[x]
             /\ c.length % 3 = x[1] /\ c.char = x[2] /\ c.can_open
             => ~Matches(delims[p], c)
  <2> HIDE DEF k
  <2> QED
    BY <1>3, <1>5
<1> QED
  BY <1>3, <1>4, <1>6, <1>7, TurnKeeps

\* A match takes off delimiters up to the closer, and the closer moves on, or
\* stays if it is left.
LEMMA MatchKeeps ==
  ASSUME IInv, Processing, NEW ps, \A p \in ps : p <= call.closer,
         delims' = RemoveDelims(ps), input' = input, brackets' = brackets,
         \/ call' = [call EXCEPT !.closer = NextDelim(@)]
         \/ call' = call /\ call.closer \notin ps
  PROVE  IInv'
<1>1. /\ call \in Calls /\ call.closer \in DOMAIN delims /\ call.closer \in Nat
      /\ NextDelim(call.closer) \in DOMAIN delims \cup {NULL}
      /\ NextDelim(call.closer) # NULL => NextDelim(call.closer) > call.closer
      /\ NextDelim(call.closer) \in Nat
  BY NextFound DEF IInv
<1>2. /\ DOMAIN delims' = DOMAIN delims \ ps
      /\ \A p \in DOMAIN delims' : delims'[p] = delims[p]
  BY RemovedLeaves
<1>3. /\ call' \in Calls /\ call'.stack_bottom = call.stack_bottom
      /\ call'.openers_bottom = call.openers_bottom
      /\ \/ call'.closer = NextDelim(call.closer)
         \/ call'.closer = call.closer /\ call.closer \notin ps
  BY <1>1 DEF Calls
<1>4. NextDelim(call.closer) # NULL => NextDelim(call.closer) \notin ps
  <2> SUFFICES ASSUME NextDelim(call.closer) # NULL, NextDelim(call.closer) \in ps
               PROVE  FALSE
    OBVIOUS
  <2>1. PICK n \in Nat : n = NextDelim(call.closer)
    BY <1>1
  <2>2. n <= call.closer /\ n > call.closer
    BY <1>1, <2>1
  <2> QED
    BY <1>1, <2>2
<1>5. call'.closer \in DOMAIN delims' \cup {NULL}
  BY <1>1, <1>2, <1>3, <1>4
<1>6. call # NoCall
  BY DEF Processing
<1> QED
  BY <1>2, <1>3, <1>5, <1>6, TurnKeeps

\* Every step keeps the invariant.
LEMMA NextKeeps == IInv /\ [Next]_vars => IInv'
<1> SUFFICES ASSUME IInv, [Next]_vars PROVE IInv'
  OBVIOUS
<1>1. StacksOK /\ CallOK
  BY DEF IInv
<1>2. ASSUME NEW r \in Runs, ScanRun(r) PROVE IInv'
  <2>1. r \in Delimiter
    BY RunsAssumption
  <2>2. [char |-> r.char, len |-> r.length] \in Token
    BY <2>1 DEF Delimiter, Token
  <2>3. /\ call = NoCall /\ call' = NoCall /\ brackets' = brackets
        /\ input' = Append(input, [char |-> r.char, len |-> r.length])
        /\ delims' = PushDelim(r) \/ delims' = delims
    BY <1>2 DEF ScanRun, Scanning, Text
  <2> QED
    BY <1>1, <2>1, <2>2, <2>3, ScanKeeps
<1>3. ASSUME NEW k \in Carets, ScanCaret(k) PROVE IInv'
  <2>1. [char |-> "^", len |-> k] \in Token
    BY RunsAssumption DEF Token
  <2>2. /\ call = NoCall /\ call' = NoCall /\ brackets' = brackets /\ delims' = delims
        /\ input' = Append(input, [char |-> "^", len |-> k])
    BY <1>3 DEF ScanCaret, Scanning, Text
  <2> QED
    BY <1>1, <2>1, <2>2, ScanKeeps
<1>4. ASSUME NEW image \in BOOLEAN, OpenBracket(image) PROVE IInv'
  <2>1. PICK c \in {"[", "!["} : Text(c, 1)
    BY <1>4 DEF OpenBracket
  <2>2. [char |-> c, len |-> 1] \in Token
    BY DEF Token
  <2>3. /\ call = NoCall /\ call' = NoCall /\ delims' = delims
        /\ brackets' = PushBracket(image)
        /\ input' = Append(input, [char |-> c, len |-> 1])
    BY <1>4, <2>1 DEF OpenBracket, Scanning, Text
  <2> QED
    BY <1>1, <2>2, <2>3, ScanKeeps
<1>5. ASSUME NEW closing \in Closings, CloseBracket(closing) PROVE IInv'
  <2> DEFINE t == [char |-> closing, len |-> 1]
  <2>1. t \in Token
    BY DEF Token
  <2>2. call = NoCall /\ input \in Seq(Token)
    BY <1>1, <1>5 DEF CloseBracket, Scanning, StacksOK
  <2>3. CASE LiteralClose(closing)
    <3>1. /\ call' = NoCall /\ delims' = delims /\ input' = Append(input, t)
          /\ \/ brackets' = brackets
             \/ brackets # <<>> /\ brackets' = Front(brackets)
      BY <2>2, <2>3 DEF LiteralClose, Text
    <3> HIDE DEF t
    <3> QED
      BY <1>1, <2>1, <2>2, <3>1, ScanKeeps
  <2>4. ASSUME brackets # <<>>, CloseLink(closing) \/ CloseFootnote(closing) PROVE IInv'
    <3>1. PICK after \in {"link", "footnote"} : call' = ProcessEmphasis(Top.position, after)
      BY <2>4 DEF CloseLink, CloseFootnote
    <3>2. delims' = delims /\ brackets' = brackets /\ input' = Append(input, t)
      BY <2>4 DEF CloseLink, CloseFootnote
    <3>3. Top.position \in Nat
      <4>1. brackets \in Seq(Brackets) /\ Len(brackets) \in 1 .. Len(brackets)
        BY <1>1, <2>4, EmptySeq DEF StacksOK
      <4>2. Top \in Brackets
        BY <4>1 DEF Top
      <4> QED
        BY <4>2 DEF Brackets
    <3>4. input' \in Seq(Token)
      <4> HIDE DEF t
      <4> QED
        BY <2>1, <2>2, <3>2
    <3> QED
      BY <1>1, <2>2, <3>1, <3>2, <3>3, <3>4, CallKeeps
  <2> QED
    BY <1>5, <2>3, <2>4 DEF CloseBracket
<1>6. CASE End
  BY <1>1, <1>6, CallKeeps DEF End, StacksOK
<1>7. CASE PassOver
  <2>1. /\ Processing /\ call' = [call EXCEPT !.closer = NextDelim(@)]
        /\ input' = input /\ brackets' = brackets /\ delims' = delims
    BY <1>7 DEF PassOver
  <2>2. /\ call \in Calls /\ NextDelim(call.closer) \in DOMAIN delims \cup {NULL}
        /\ NextDelim(call.closer) \in Nat /\ call # NoCall
    BY <1>1, <2>1, NextFound DEF Processing
  <2>3. /\ call' \in Calls /\ call'.stack_bottom = call.stack_bottom
        /\ call'.openers_bottom = call.openers_bottom
        /\ call'.closer = NextDelim(call.closer)
    BY <2>1, <2>2 DEF Calls
  <2> QED
    BY <2>1, <2>2, <2>3, TurnKeeps
<1>8. CASE NoOpener
  BY <1>8, NoOpenerKeeps
<1>9. CASE Match
  <2>1. PICK opener \in Openers :
           \/ InsertStrikethrough(opener, call.closer)
           \/ InsertEmph(opener, call.closer)
           \/ PairQuotes(opener, call.closer)
    BY <1>9 DEF Match
  <2>2. /\ Processing /\ call.closer \in Nat /\ opener \in Nat /\ opener < call.closer
    BY <1>1, <1>9, NextFound DEF Match, Openers, OpenersFrom, StacksOK
  <2>3. CASE InsertStrikethrough(opener, call.closer)
    <3> DEFINE ps == {p \in DOMAIN delims : opener <= p /\ p <= call.closer}
    <3>1. /\ delims' = RemoveDelims(ps) /\ input' = input /\ brackets' = brackets
          /\ call' = [call EXCEPT !.closer = NextDelim(@)]
      BY <2>3 DEF InsertStrikethrough
    <3>2. \A p \in ps : p <= call.closer
      OBVIOUS
    <3> HIDE DEF ps
    <3> QED
      BY <2>2, <3>1, <3>2, MatchKeeps
  <2>4. CASE PairQuotes(opener, call.closer)
    <3>1. /\ delims' = RemoveDelims({opener, call.closer})
          /\ input' = input /\ brackets' = brackets
          /\ call' = [call EXCEPT !.closer = NextDelim(@)]
      BY <2>4 DEF PairQuotes
    <3>2. \A p \in {opener, call.closer} : p <= call.closer
      BY <2>2
    <3> QED
      BY <2>2, <3>1, <3>2, MatchKeeps
  <2>5. CASE InsertEmph(opener, call.closer)
    <3>1. PICK used \in {1, 2} :
            /\ delims' = RemoveDelims(Spent(opener, call.closer, used))
            /\ call' = IF call.closer \in UsedUp(opener, call.closer, used)
                       THEN [call EXCEPT !.closer = NextDelim(@)] ELSE call
            /\ input' = input /\ brackets' = brackets
      BY <2>5 DEF InsertEmph
    <3>2. \A p \in Spent(opener, call.closer, used) : p <= call.closer
      BY <1>1, <2>2 DEF Spent, UsedUp, StacksOK
    <3>3. call.closer \notin UsedUp(opener, call.closer, used) =>
            call.closer \notin Spent(opener, call.closer, used)
      BY <2>2 DEF Spent
    <3> QED
      BY <2>2, <3>1, <3>2, <3>3, MatchKeeps
  <2> QED
    BY <2>1, <2>3, <2>4, <2>5
<1>10. CASE Return
  <2>1. /\ call' = NoCall /\ input' = input
        /\ delims' = RemoveDelims({p \in DOMAIN delims : p >= call.stack_bottom})
        /\ \/ brackets' = <<>>
           \/ brackets' = Front(brackets)
    BY <1>10 DEF Return
  <2>2. brackets' \in Seq(Brackets)
    <3>1. CASE brackets' = <<>>
      BY <3>1
    <3>2. CASE brackets' = Front(brackets)
      BY <1>1, <3>2, FrontLeaves DEF StacksOK
    <3> QED
      BY <2>1, <3>1, <3>2
  <2>3. DOMAIN delims' \subseteq DOMAIN delims /\ \A p \in DOMAIN delims' : delims'[p] = delims[p]
    BY <2>1, RemovedLeaves
  <2>4. StacksOK'
    BY <1>1, <2>1, <2>2, <2>3 DEF StacksOK
  <2> QED
    BY <2>1, <2>4 DEF IInv, CallOK, Barred
<1>11. CASE UNCHANGED vars
  BY <1>1, <1>11 DEF vars, IInv, StacksOK, CallOK, Barred, Matches
<1> QED
  BY <1>2, <1>3, <1>4, <1>5, <1>6, <1>7, <1>8, <1>9, <1>10, <1>11 DEF Next

-----------------------------------------------------------------------------
(* The lists of children                                                    *)

\* The lists of children: each node is on at most one, at one place, and the
\* block is on none.
Lists(k) ==
  /\ Block \in DOMAIN k /\ DOMAIN k \subseteq Nat
  /\ \A x \in DOMAIN k : k[x] \in Seq(DOMAIN k \ {Block}) /\ IsInjective(k[x])
  /\ \A x, y \in DOMAIN k : x # y => ToSet(k[x]) \cap ToSet(k[y]) = {}

\* No node is below itself.
Founded(k) ==
  \A S \in SUBSET DOMAIN k : S # {} => \E x \in S : ToSet(k[x]) \cap S = {}

\* What is below a node: the recursive definition in Subtree has a solution.
LEMMA SubtreeIs ==
  ASSUME NEW t, \A x \in DOMAIN t.kids : ToSet(t.kids[x]) \subseteq DOMAIN t.kids
  PROVE  \A x \in DOMAIN t.kids :
           Subtree(t, x) = {x} \cup UNION {Subtree(t, c) : c \in ToSet(t.kids[x])}
<1> DEFINE D == DOMAIN t.kids
           Closed(S) == \A z \in S : ToSet(t.kids[z]) \subseteq S
           R(x) == {y \in D : \A S \in SUBSET D : x \in S /\ Closed(S) => y \in S}
           Good(f) == f = [x \in D |-> {x} \cup UNION {f[c] : c \in ToSet(t.kids[x])}]
           B == CHOOSE f : Good(f)
<1>1. ASSUME NEW x \in D
      PROVE  R(x) = {x} \cup UNION {R(c) : c \in ToSet(t.kids[x])}
  <2> DEFINE U == {x} \cup UNION {R(c) : c \in ToSet(t.kids[x])}
  <2>1. \A z \in D : z \in R(z) /\ R(z) \in SUBSET D
    OBVIOUS
  <2>2. \A z \in D : \A y \in R(z) : ToSet(t.kids[y]) \subseteq R(z)
    OBVIOUS
  <2>3. ToSet(t.kids[x]) \subseteq D
    OBVIOUS
  <2>4. \A c \in ToSet(t.kids[x]) : R(c) \subseteq R(x)
    BY <2>3
  <2>5. U \subseteq R(x)
    BY <2>1, <2>4
  <2>6. Closed(U)
    <3> HIDE DEF R
    <3> SUFFICES ASSUME NEW z \in U, NEW c \in ToSet(t.kids[z]) PROVE c \in U
      OBVIOUS
    <3>1. CASE z = x
      BY <2>1, <2>3, <3>1
    <3>2. ASSUME NEW d \in ToSet(t.kids[x]), z \in R(d) PROVE c \in U
      BY <2>2, <2>3, <3>2
    <3> QED
      BY <3>1, <3>2
  <2>7. U \in SUBSET D /\ x \in U
    <3> HIDE DEF R
    <3> QED
      BY <2>1, <2>3
  <2>8. R(x) \subseteq U
    <3> HIDE DEF U
    <3> QED
      BY <2>6, <2>7
  <2> QED
    BY <2>5, <2>8
<1>2. Good([x \in D |-> R(x)])
  <2> HIDE DEF R
  <2> DEFINE f == [x \in D |-> R(x)]
  <2>1. ASSUME NEW x \in D
        PROVE  R(x) = {x} \cup UNION {f[c] : c \in ToSet(t.kids[x])}
    <3>1. ToSet(t.kids[x]) \subseteq D
      OBVIOUS
    <3>2. {R(c) : c \in ToSet(t.kids[x])} = {f[c] : c \in ToSet(t.kids[x])}
      BY <3>1
    <3> QED
      BY <1>1, <3>2
  <2> QED
    BY <2>1
<1>3. Good(B)
  <2> HIDE DEF Good
  <2> QED
    BY <1>2
<1>4. \A x \in D : Subtree(t, x) = B[x]
  BY DEF Subtree
<1> HIDE DEF R
<1> SUFFICES ASSUME NEW x \in D
             PROVE  Subtree(t, x) = {x} \cup UNION {Subtree(t, c) : c \in ToSet(t.kids[x])}
  OBVIOUS
<1>5. B[x] = {x} \cup UNION {B[c] : c \in ToSet(t.kids[x])}
  <2> HIDE DEF B
  <2> QED
    BY <1>3
<1>6. {B[c] : c \in ToSet(t.kids[x])} = {Subtree(t, c) : c \in ToSet(t.kids[x])}
  <2> HIDE DEF B
  <2> QED
    BY <1>4
<1> QED
  BY <1>4, <1>5, <1>6

\* A node without children is all there is below it.
LEMMA SubtreeOfLeaf ==
  ASSUME NEW t, Lists(t.kids), NEW n \in DOMAIN t.kids, t.kids[n] = <<>>
  PROVE  Subtree(t, n) = {n}
<1>1. \A x \in DOMAIN t.kids : ToSet(t.kids[x]) \subseteq DOMAIN t.kids
  BY DEF Lists, ToSet
<1>2. ToSet(t.kids[n]) = {}
  BY DEF ToSet
<1> QED
  BY <1>1, <1>2, SubtreeIs

\* What is below a node is closed under parents, up to the node, and the block
\* is not in it.
LEMMA SubtreeHas ==
  ASSUME NEW t, Lists(t.kids), Founded(t.kids), NEW n \in DOMAIN t.kids \ {Block}
  PROVE  /\ Block \notin Subtree(t, n)
         /\ \A x \in DOMAIN t.kids : \A c \in ToSet(t.kids[x]) :
              c \in Subtree(t, n) => c = n \/ x \in Subtree(t, n)
<1> DEFINE k == t.kids
           D == DOMAIN k
<1>1. \A x \in D : ToSet(k[x]) \subseteq D \ {Block}
  BY DEF Lists, ToSet
<1>2. \A x \in D : Subtree(t, x) = {x} \cup UNION {Subtree(t, c) : c \in ToSet(k[x])}
  BY <1>1, SubtreeIs
<1>3. Block \notin Subtree(t, n)
  <2> DEFINE S == {y \in D \ {Block} : Block \in Subtree(t, y)}
  <2>1. ASSUME NEW y \in S PROVE \E z \in ToSet(k[y]) : z \in S
    <3>1. PICK z \in ToSet(k[y]) : Block \in Subtree(t, z)
      BY <1>2
    <3> QED
      BY <1>1, <3>1
  <2>2. S \in SUBSET D
    OBVIOUS
  <2>3. S = {}
    <3> HIDE DEF S
    <3> QED
      BY <2>1, <2>2 DEF Founded
  <2> QED
    BY <2>3
<1>4. ASSUME NEW x \in D, NEW c \in ToSet(k[x]), c \in Subtree(t, n), c # n,
             x \notin Subtree(t, n)
      PROVE  FALSE
  <2> DEFINE S == {y \in D : c \in Subtree(t, y) /\ c # y /\ x \notin Subtree(t, y)}
  <2>1. ASSUME NEW y \in S PROVE \E z \in ToSet(k[y]) : z \in S
    <3>1. PICK z \in ToSet(k[y]) : c \in Subtree(t, z)
      BY <1>2
    <3>2. z \in D /\ x \notin Subtree(t, z)
      BY <1>1, <1>2, <3>1
    <3>3. z # c
      <4> SUFFICES ASSUME z = c PROVE FALSE
        OBVIOUS
      <4>1. x = y
        BY <3>1 DEF Lists
      <4> QED
        BY <1>2, <4>1
    <3> QED
      BY <3>1, <3>2, <3>3
  <2>2. S \in SUBSET D
    OBVIOUS
  <2>3. S = {}
    <3> HIDE DEF S
    <3> QED
      BY <2>1, <2>2 DEF Founded
  <2> QED
    BY <1>4, <2>3
<1> QED
  BY <1>3, <1>4

\* A list as one of a larger set.
LEMMA Wider ==
  ASSUME NEW k, Lists(k), NEW x \in DOMAIN k, NEW m
  PROVE  /\ k[x] \in Seq((DOMAIN k \cup {m}) \ {Block}) /\ IsInjective(k[x])
         /\ ToSet(k[x]) \subseteq DOMAIN k \ {Block}
<1>1. k[x] \in Seq(DOMAIN k \ {Block}) /\ IsInjective(k[x])
  BY DEF Lists
<1>2. DOMAIN k \ {Block} \subseteq (DOMAIN k \cup {m}) \ {Block}
  OBVIOUS
<1> QED
  BY <1>1, <1>2, SeqMonotonic, MembersByPlace

\* A child's parent and its place.
LEMMA WhereIs ==
  ASSUME NEW t, Lists(t.kids), NEW x \in DOMAIN t.kids, NEW g \in 1 .. Len(t.kids[x])
  PROVE  ParentOf(t, t.kids[x][g]) = x /\ Place(t, t.kids[x][g]) = g
<1> DEFINE n == t.kids[x][g]
<1>1. /\ t.kids[x] \in Seq(DOMAIN t.kids \ {Block}) /\ IsInjective(t.kids[x])
      /\ \A y \in DOMAIN t.kids : y # x => ToSet(t.kids[x]) \cap ToSet(t.kids[y]) = {}
  BY DEF Lists
<1>2. n \in ToSet(t.kids[x]) /\ Contains(t.kids[x], n)
  BY <1>1, MembersByPlace DEF Contains
<1>3. ASSUME NEW y \in DOMAIN t.kids, y # x PROVE ~Contains(t.kids[y], n)
  <2>1. n \notin ToSet(t.kids[y])
    BY <1>1, <1>2, <1>3
  <2>2. t.kids[y] \in Seq(DOMAIN t.kids \ {Block})
    BY DEF Lists
  <2> QED
    BY <2>1, <2>2, MembersByPlace DEF Contains
<1> HIDE DEF n
<1>4. ParentOf(t, n) = x
  BY <1>2, <1>3 DEF ParentOf
<1>5. Place(t, n) = g
  <2>1. t.kids[x][g] = n
    BY DEF n
  <2> QED
    BY <1>1, <1>4, <2>1, PlaceIs DEF Place, SelectInSeq
<1> QED
  BY <1>4, <1>5 DEF n

-----------------------------------------------------------------------------
(* Nodes put below another, and nodes freed                                 *)

\* w comes from k by putting the nodes of B, children of x, below the child m of
\* x, which may be new.
Nested(k, w, x, m, B) ==
  /\ DOMAIN w = DOMAIN k \cup {m}
  /\ \A y \in DOMAIN k \ {x, m} : w[y] = k[y]
  /\ w[x] \in Seq(DOMAIN w \ {Block}) /\ IsInjective(w[x])
  /\ ToSet(w[x]) = (ToSet(k[x]) \ B) \cup {m}
  /\ \A u, v \in ToSet(k[x]) \ B : Ahead(k[x], u, v) => Ahead(w[x], u, v)
  /\ Part(DOMAIN w \ {Block}, k[x], w[m], B)

\* What a text may be put below: a new node, or a child without children.
CanHold(k, x, m) ==
  /\ m \in Nat \ {Block} /\ m # x
  /\ m \notin DOMAIN k \/ (m \in ToSet(k[x]) /\ k[m] = <<>>)

\* The lists stay lists, and no node comes below itself.
LEMMA NestedKeeps ==
  ASSUME NEW k, Lists(k), Founded(k), NEW x \in DOMAIN k, NEW m, CanHold(k, x, m),
         NEW B, B \subseteq ToSet(k[x]) \ {m}, NEW w, Nested(k, w, x, m, B)
  PROVE  Lists(w) /\ Founded(w)
<1> DEFINE D == DOMAIN k
<1>1. \A y \in D : ToSet(k[y]) \subseteq D \ {Block}
  BY DEF Lists, ToSet
<1>2. DOMAIN w = D \cup {m} /\ x \in DOMAIN w /\ m \in DOMAIN w /\ m # x
  BY DEF Nested, CanHold
<1>3. /\ \A y \in D \ {x, m} : ToSet(w[y]) = ToSet(k[y])
      /\ ToSet(w[x]) = (ToSet(k[x]) \ B) \cup {m}
      /\ ToSet(w[m]) = B
  BY DEF Nested, Part
<1>4. ASSUME NEW y \in DOMAIN w PROVE w[y] \in Seq(DOMAIN w \ {Block}) /\ IsInjective(w[y])
  <2>1. CASE y \notin {x, m}
    <3>1. w[y] = k[y] /\ k[y] \in Seq(D \ {Block}) /\ IsInjective(k[y])
      BY <1>2, <2>1 DEF Nested, Lists
    <3>2. D \ {Block} \subseteq DOMAIN w \ {Block}
      BY <1>2
    <3> QED
      BY <3>1, <3>2, SeqMonotonic
  <2> QED
    BY <2>1 DEF Nested, Part
<1>5. m \notin D => \A y \in D : m \notin ToSet(k[y])
  BY <1>1
<1>6. m \in D => \A y \in D \ {x} : m \notin ToSet(k[y])
  BY DEF CanHold, Lists
<1>7. \A y, z \in DOMAIN w : y # z => ToSet(w[y]) \cap ToSet(w[z]) = {}
  <2>1. ASSUME NEW y \in D \ {x, m}, NEW z \in D \ {x, m}, y # z
        PROVE  ToSet(w[y]) \cap ToSet(w[z]) = {}
    BY <1>3, <2>1 DEF Lists
  <2>2. ASSUME NEW y \in D \ {x, m}
        PROVE  ToSet(w[y]) \cap ToSet(w[x]) = {} /\ ToSet(w[y]) \cap ToSet(w[m]) = {}
    <3>1. ToSet(k[y]) \cap ToSet(k[x]) = {} /\ m \notin ToSet(k[y])
      BY <1>5, <1>6, <2>2 DEF Lists
    <3> QED
      BY <1>3, <3>1
  <2>3. ToSet(w[x]) \cap ToSet(w[m]) = {}
    BY <1>3
  <2> QED
    BY <1>2, <2>1, <2>2, <2>3
<1>8. Lists(w)
  BY <1>2, <1>4, <1>7 DEF Lists, CanHold
<1>9. Founded(w)
  <2> SUFFICES ASSUME NEW S \in SUBSET DOMAIN w, S # {},
                      \A y \in S : ToSet(w[y]) \cap S # {}
               PROVE  FALSE
    BY DEF Founded
  <2> DEFINE U == S \ {m}
  <2>1. m \in S => B \cap U # {}
    BY <1>3
  <2>2. U # {}
    BY <2>1
  <2>3. PICK y \in U : ToSet(k[y]) \cap U = {}
    <3>1. U \in SUBSET D
      BY <1>2
    <3> QED
      BY <2>2, <3>1 DEF Founded
  <2>4. CASE y = x
    <3>1. ToSet(w[x]) \cap S # {}
      BY <2>4
    <3>2. m \in S
      BY <1>3, <2>3, <2>4, <3>1
    <3> QED
      BY <2>1, <2>3, <2>4, <3>2
  <2>5. CASE y # x
    <3>1. y \in D \ {x, m}
      BY <1>2, <2>5
    <3>2. ToSet(k[y]) \cap S # {}
      BY <1>3, <3>1
    <3>3. m \in ToSet(k[y])
      BY <2>3, <3>2
    <3> QED
      BY <1>5, <1>6, <3>1, <3>3
  <2> QED
    BY <2>4, <2>5
<1> QED
  BY <1>8, <1>9

\* w comes from k by freeing nodes.
Shrunk(k, w) ==
  /\ DOMAIN w \subseteq DOMAIN k /\ Block \in DOMAIN w
  /\ \A y \in DOMAIN w : ToSet(w[y]) \subseteq ToSet(k[y])
  /\ \A y \in DOMAIN w : Part(DOMAIN w \ {Block}, k[y], w[y], ToSet(w[y]))

\* The lists stay lists, and no node comes below itself.
LEMMA ShrunkKeeps ==
  ASSUME NEW k, Lists(k), Founded(k), NEW w, Shrunk(k, w)
  PROVE  Lists(w) /\ Founded(w)
<1>1. Lists(w)
  <2>1. DOMAIN w \subseteq Nat /\ Block \in DOMAIN w
    BY DEF Shrunk, Lists
  <2>2. \A x \in DOMAIN w : w[x] \in Seq(DOMAIN w \ {Block}) /\ IsInjective(w[x])
    BY DEF Shrunk, Part
  <2>3. \A x, y \in DOMAIN w : x # y => ToSet(w[x]) \cap ToSet(w[y]) = {}
    BY DEF Shrunk, Lists
  <2> QED
    BY <2>1, <2>2, <2>3 DEF Lists
<1>2. Founded(w)
  <2> SUFFICES ASSUME NEW S \in SUBSET DOMAIN w, S # {}
               PROVE  \E x \in S : ToSet(w[x]) \cap S = {}
    BY DEF Founded
  <2>1. S \in SUBSET DOMAIN k
    BY DEF Shrunk
  <2>2. PICK x \in S : ToSet(k[x]) \cap S = {}
    BY <2>1 DEF Founded
  <2>3. ToSet(w[x]) \subseteq ToSet(k[x])
    BY DEF Shrunk
  <2> QED
    BY <2>2, <2>3
<1> QED
  BY <1>1, <1>2

\* h is where the siblings after g that UpTo gives end: at stop, or at the end of
\* the list.
StopsAt(s, g, stop, h) ==
  /\ h \in g + 1 .. Len(s) + 1
  /\ IF h <= Len(s) THEN s[h] = stop ELSE stop \notin ToSet(s)

\* What UpTo gives.
LEMMA UpToIs ==
  ASSUME NEW t, Lists(t.kids), NEW x \in DOMAIN t.kids, NEW g \in 1 .. Len(t.kids[x]),
         NEW stop, NEW h \in Nat, StopsAt(t.kids[x], g, stop, h)
  PROVE  /\ UpTo(t, t.kids[x][g], stop) = SubSeq(t.kids[x], g + 1, h - 1)
         /\ Len(SubSeq(t.kids[x], g + 1, h - 1)) = h - g - 1
<1> DEFINE n == t.kids[x][g]
           s == t.kids[x]
           T == DOMAIN t.kids \ {Block}
           rest == SubSeq(s, g + 1, Len(s))
           I == {i \in 1 .. Len(rest) : rest[i] = stop}
<1>1. s \in Seq(T) /\ IsInjective(s)
  BY DEF Lists
<1>2. ParentOf(t, n) = x /\ Place(t, n) = g
  BY WhereIs
<1>3. UpTo(t, n, stop) = IF Contains(rest, stop)
                         THEN SubSeq(rest, 1, SelectInSeq(rest, LAMBDA y : y = stop) - 1)
                         ELSE rest
  BY <1>2 DEF UpTo
<1> HIDE DEF s, n, T
<1>4. Len(s) \in Nat /\ DOMAIN s = 1 .. Len(s) /\ \A i \in 1 .. Len(s) : s[i] \in T
  BY <1>1, MembersByPlace
<1>5. g \in 1 .. Len(s) /\ h \in g + 1 .. Len(s) + 1
      /\ (h <= Len(s) => s[h] = stop) /\ (h > Len(s) => stop \notin ToSet(s))
  BY <1>4 DEF StopsAt, s
<1>6. rest \in Seq(T) /\ Len(rest) = Len(s) - g
      /\ \A i \in 1 .. Len(s) - g : rest[i] = s[g + i]
  <2>0. Len(s) - g \in Nat
    BY <1>4, <1>5
  <2>1. PICK l \in Nat : l = Len(s) - g
    BY <2>0
  <2>2. g \in Nat /\ g + l = Len(s) /\ g + l <= Len(s)
    BY <1>4, <1>5, <2>1
  <2>3. /\ SubSeq(s, g + 1, g + l) \in Seq(T) /\ Len(SubSeq(s, g + 1, g + l)) = l
        /\ \A i \in 1 .. l : SubSeq(s, g + 1, g + l)[i] = s[g + i]
    BY <1>1, <2>2, PieceAt
  <2> QED
    BY <2>1, <2>2, <2>3
<1>7. /\ SubSeq(s, g + 1, h - 1) \in Seq(T)
      /\ Len(SubSeq(s, g + 1, h - 1)) = h - g - 1
      /\ \A i \in 1 .. h - g - 1 : SubSeq(s, g + 1, h - 1)[i] = s[g + i]
  <2>1. g \in Nat /\ h - g - 1 \in Nat /\ g + (h - g - 1) = h - 1 /\ h - 1 <= Len(s)
    BY <1>4, <1>5
  <2> QED
    BY <1>1, <2>1, PieceAt
<1> HIDE DEF rest
<1>8. CASE h > Len(s)
  <2>1. h - 1 = Len(s)
    BY <1>4, <1>5, <1>8
  <2>2. \A i \in 1 .. Len(s) - g : g + i \in 1 .. Len(s)
    BY <1>4, <1>5
  <2>3. ~Contains(rest, stop)
    <3>1. \A i \in 1 .. Len(s) : s[i] # stop
      BY <1>1, <1>5, <1>8, MembersByPlace
    <3> QED
      BY <1>6, <2>2, <3>1 DEF Contains
  <2> QED
    BY <1>3, <1>7, <2>1, <2>3 DEF rest, s, n
<1>9. CASE h <= Len(s)
  <2>1. h - g \in 1 .. Len(rest) /\ rest[h - g] = stop
    <3>1. h - g \in 1 .. Len(s) - g /\ g + (h - g) = h
      BY <1>4, <1>5, <1>9
    <3> QED
      BY <1>5, <1>6, <1>9, <3>1
  <2>2. IsInjective(rest)
    <3>1. g + 1 \in Nat \ {0} /\ Len(s) \in Nat /\ Len(s) <= Len(s)
      BY <1>4, <1>5
    <3> QED
      BY <1>1, <3>1, PieceIs DEF Part, rest
  <2>3. Contains(rest, stop)
    BY <2>1 DEF Contains
  <2>4. SelectInSeq(rest, LAMBDA y : y = stop) = h - g
    <3>1. I = {h - g} /\ Min(I) = h - g
      <4>1. PICK j \in 1 .. Len(rest) : j = h - g /\ rest[j] = stop
        BY <2>1
      <4>2. I = {j}
        BY <1>6, <2>2, <4>1 DEF IsInjective
      <4>3. Min({j}) = j
        BY DEF Min
      <4> QED
        BY <4>1, <4>2, <4>3
    <3> QED
      BY <3>1 DEF SelectInSeq
  <2> DEFINE r == SubSeq(rest, 1, h - g - 1)
             m == SubSeq(s, g + 1, h - 1)
  <2>5. UpTo(t, n, stop) = r
    BY <1>3, <2>3, <2>4
  <2>6. /\ r \in Seq(T) /\ Len(r) = h - g - 1
        /\ \A i \in 1 .. h - g - 1 : r[i] = rest[i]
    <3>1. /\ 0 \in Nat /\ h - g - 1 \in Nat /\ 0 + (h - g - 1) = h - g - 1
          /\ h - g - 1 <= Len(rest) /\ 0 + 1 = 1
      BY <1>4, <1>5, <1>6, <1>9
    <3>2. /\ SubSeq(rest, 0 + 1, 0 + (h - g - 1)) \in Seq(T)
          /\ Len(SubSeq(rest, 0 + 1, 0 + (h - g - 1))) = h - g - 1
          /\ \A i \in 1 .. h - g - 1 : SubSeq(rest, 0 + 1, 0 + (h - g - 1))[i] = rest[0 + i]
      BY <1>6, <3>1, PieceAt
    <3> QED
      BY <3>1, <3>2
  <2>7. \A i \in 1 .. h - g - 1 : r[i] = m[i]
    <3>1. \A i \in 1 .. h - g - 1 : i \in 1 .. Len(s) - g
      BY <1>4, <1>5
    <3> QED
      BY <1>6, <1>7, <2>6, <3>1
  <2>8. r = m
    <3>1. r \in Seq(T) /\ m \in Seq(T) /\ Len(r) = Len(m)
      BY <1>7, <2>6
    <3> HIDE DEF r, m
    <3> QED
      BY <1>7, <2>6, <2>7, <3>1, SeqEqual DEF m
  <2> QED
    BY <1>7, <2>5, <2>8 DEF s, n
<1> QED
  BY <1>4, <1>5, <1>8, <1>9

\* Wrap puts the siblings below the new node.
LEMMA WrapIs ==
  ASSUME NEW t, Lists(t.kids), NEW x \in DOMAIN t.kids, NEW g \in 1 .. Len(t.kids[x]),
         NEW stop, NEW h \in Nat, StopsAt(t.kids[x], g, stop, h),
         NEW m \in Nat \ {Block}, m \notin DOMAIN t.kids
  PROVE  Nested(t.kids, Wrap(t, t.kids[x][g], stop, m), x, m,
                Members(t.kids[x], g + 1, h - 1))
<1> DEFINE k == t.kids
           s == k[x]
           n == s[g]
           w == Wrap(t, n, stop, m)
           T == (DOMAIN k \cup {m}) \ {Block}
           B == Members(s, g + 1, h - 1)
           moved == SubSeq(s, g + 1, h - 1)
           r == SubSeq(s, 1, g) \o <<m>> \o SubSeq(s, h, Len(s))
<1>1. ParentOf(t, n) = x /\ Place(t, n) = g
  BY WhereIs
<1>2. UpTo(t, n, stop) = moved /\ Len(moved) = h - g - 1
  BY UpToIs
<1>3. s \in Seq(T) /\ IsInjective(s) /\ m \notin ToSet(s)
  BY Wider
<1>4. Len(s) \in Nat /\ g \in 1 .. Len(s) /\ h \in g + 1 .. Len(s) + 1
  BY <1>3 DEF StopsAt
<1>5. w = With([k EXCEPT ![x] = r], m, moved)
  <2> HIDE DEF moved
  <2>1. g + Len(moved) + 1 = h
    BY <1>2, <1>4
  <2> HIDE DEF moved
  <2> QED
    BY <1>1, <1>2, <2>1 DEF Wrap
<1>6. /\ DOMAIN w = DOMAIN k \cup {m}
      /\ w[x] = r /\ w[m] = moved
      /\ \A y \in DOMAIN k \ {x, m} : w[y] = k[y]
  <2> HIDE DEF r, moved, w
  <2> QED
    BY <1>5 DEF With
<1> HIDE DEF w
<1>7. /\ r \in Seq(T) /\ IsInjective(r) /\ ToSet(r) = (ToSet(s) \ B) \cup {m}
      /\ \A u, v \in ToSet(s) \ B : Ahead(s, u, v) => Ahead(r, u, v)
  <2>1. m \in T /\ g \in 0 .. Len(s)
    BY <1>4
  <2>2. ToSet(s) \ B = Members(s, 1, g) \cup Members(s, h, Len(s))
    BY <1>3, <1>4, <2>1, LeftOver
  <2> HIDE DEF T, s, B
  <2>3. /\ r \in Seq(T) /\ IsInjective(r)
        /\ ToSet(r) = (Members(s, 1, g) \cup Members(s, h, Len(s))) \cup {m}
        /\ \A u, v \in Members(s, 1, g) \cup Members(s, h, Len(s)) :
             Ahead(s, u, v) => Ahead(r, u, v)
    BY <1>3, <1>4, <2>1, FilledIs
  <2> QED
    BY <2>2, <2>3
<1>8. Part(T, s, moved, B)
  <2>1. g + 1 \in Nat \ {0} /\ h - 1 \in Nat /\ h - 1 <= Len(s)
    BY <1>4
  <2> HIDE DEF T, s
  <2> QED
    BY <1>3, <2>1, PieceIs
<1>9. DOMAIN w \ {Block} = T
  BY <1>6
<1>10. Nested(k, w, x, m, B)
  <2> HIDE DEF r, moved, B, T, s
  <2> QED
    BY <1>6, <1>7, <1>8, <1>9 DEF Nested, s
<1> QED
  BY <1>10 DEF w

\* WrapSelf puts them below the node itself.
LEMMA WrapSelfIs ==
  ASSUME NEW t, Lists(t.kids), NEW x \in DOMAIN t.kids, NEW g \in 1 .. Len(t.kids[x]),
         NEW stop, NEW h \in Nat, StopsAt(t.kids[x], g, stop, h), t.kids[x][g] # x
  PROVE  Nested(t.kids, WrapSelf(t, t.kids[x][g], stop), x, t.kids[x][g],
                Members(t.kids[x], g + 1, h - 1))
<1> DEFINE k == t.kids
           s == k[x]
           n == s[g]
           w == WrapSelf(t, n, stop)
           T == DOMAIN k \ {Block}
           B == Members(s, g + 1, h - 1)
           moved == SubSeq(s, g + 1, h - 1)
           r == SubSeq(s, 1, g) \o SubSeq(s, h, Len(s))
<1>1. ParentOf(t, n) = x /\ Place(t, n) = g
  BY WhereIs
<1>2. UpTo(t, n, stop) = moved /\ Len(moved) = h - g - 1
  BY UpToIs
<1>3. s \in Seq(T) /\ IsInjective(s)
  BY DEF Lists
<1>4. Len(s) \in Nat /\ g \in 1 .. Len(s) /\ h \in g + 1 .. Len(s) + 1
      /\ n \in ToSet(s) /\ n \in DOMAIN k /\ n # x
  BY <1>3, MembersByPlace DEF StopsAt
<1>5. w = [k EXCEPT ![x] = r, ![n] = moved]
  <2> HIDE DEF moved
  <2>1. g + Len(moved) + 1 = h
    BY <1>2, <1>4
  <2> HIDE DEF moved, n
  <2> QED
    BY <1>1, <1>2, <2>1 DEF WrapSelf
<1>6. /\ DOMAIN w = DOMAIN k \cup {n}
      /\ w[x] = r /\ w[n] = moved
      /\ \A y \in DOMAIN k \ {x, n} : w[y] = k[y]
  <2> HIDE DEF r, moved, w, n
  <2> QED
    BY <1>4, <1>5
<1> HIDE DEF w
<1>7. /\ r \in Seq(T) /\ IsInjective(r) /\ ToSet(r) = ToSet(s) \ B
      /\ \A u, v \in ToSet(s) \ B : Ahead(s, u, v) <=> Ahead(r, u, v)
  <2>1. g \in 0 .. Len(s)
    BY <1>4
  <2>2. ToSet(s) \ B = Members(s, 1, g) \cup Members(s, h, Len(s))
    BY <1>3, <1>4, <2>1, LeftOver
  <2> DEFINE S == ToSet(s) \ B
  <2>3. Part(T, s, r, S)
    <3>1. Part(T, s, r, Members(s, 1, g) \cup Members(s, h, Len(s)))
      <4> HIDE DEF T, s
      <4> QED
        BY <1>3, <1>4, <2>1, GapIs
    <3> QED
      BY <2>2, <3>1
  <2> QED
    BY <2>3 DEF Part
<1>8. Part(T, s, moved, B)
  <2>1. g + 1 \in Nat \ {0} /\ h - 1 \in Nat /\ h - 1 <= Len(s)
    BY <1>4
  <2> HIDE DEF T, s
  <2> QED
    BY <1>3, <2>1, PieceIs
<1>9. n \notin B
  <2>1. \A i \in g + 1 .. h - 1 : i \in DOMAIN s /\ i # g
    BY <1>4
  <2>2. g \in DOMAIN s
    BY <1>4
  <2> QED
    BY <1>3, <2>1, <2>2 DEF IsInjective, Members
<1>10. DOMAIN w \ {Block} = T
  BY <1>4, <1>6
<1>11. ToSet(r) = (ToSet(s) \ B) \cup {n}
  BY <1>4, <1>7, <1>9
<1>12. Nested(k, w, x, n, B)
  <2> HIDE DEF r, moved, n, B
  <2> QED
    BY <1>6, <1>7, <1>8, <1>10, <1>11 DEF Nested
<1> QED
  BY <1>12 DEF w

\* A child is added at the end of a list.
LEMMA AppendIs ==
  ASSUME NEW k, Lists(k), NEW x \in DOMAIN k, NEW m \in Nat \ {Block}, m \notin DOMAIN k
  PROVE  LET w == With([k EXCEPT ![x] = Append(@, m)], m, <<>>)
         IN  /\ Nested(k, w, x, m, {})
             /\ \A u \in ToSet(k[x]) : Ahead(w[x], u, m)
<1> DEFINE s == k[x]
           o == <<m>>
           T == (DOMAIN k \cup {m}) \ {Block}
           r == Append(s, m)
           w == With([k EXCEPT ![x] = r], m, <<>>)
<1>1. s \in Seq(T) /\ IsInjective(s) /\ m \notin ToSet(s) /\ m \in T
  BY Wider
<1>2. /\ o \in Seq(T) /\ IsInjective(o) /\ ToSet(o) = {m}
      /\ \A u, v : ~Ahead(o, u, v)
  BY <1>1, OnlyOne
<1>3. r = s \o o
  <2> HIDE DEF T, s
  <2> QED
    BY <1>1
<1>4. /\ DOMAIN w = DOMAIN k \cup {m}
      /\ w[x] = r /\ w[m] = <<>>
      /\ \A y \in DOMAIN k \ {x, m} : w[y] = k[y]
  <2> HIDE DEF r
  <2> QED
    BY DEF With
<1> HIDE DEF w, o, T, s, r
<1>5. /\ s \o o \in Seq(T) /\ IsInjective(s \o o) /\ ToSet(s \o o) = ToSet(s) \cup {m}
      /\ \A u, v : Ahead(s \o o, u, v) <=> Ahead(s, u, v) \/ (u \in ToSet(s) /\ v = m)
  <2>1. ToSet(s) \cap ToSet(o) = {}
    BY <1>1, <1>2
  <2> QED
    BY <1>1, <1>2, <2>1, JoinedIs
<1>6. /\ r \in Seq(T) /\ IsInjective(r) /\ ToSet(r) = (ToSet(s) \ {}) \cup {m}
      /\ \A u, v \in ToSet(s) \ {} : Ahead(s, u, v) => Ahead(r, u, v)
      /\ \A u \in ToSet(s) : Ahead(r, u, m)
  BY <1>3, <1>5
<1>7. Part(T, s, <<>>, {})
  BY DEF Part, IsInjective, ToSet
<1>8. DOMAIN w \ {Block} = T
  BY <1>4 DEF T
<1>9. Nested(k, w, x, m, {})
  BY <1>4, <1>6, <1>7, <1>8 DEF Nested, s
<1>10. \A u \in ToSet(k[x]) : Ahead(w[x], u, m)
  BY <1>4, <1>6 DEF s
<1> QED
  BY <1>9, <1>10 DEF w, r, s

\* A child is put in a list.
LEMMA InsertIs ==
  ASSUME NEW k, Lists(k), NEW x \in DOMAIN k, NEW m \in Nat \ {Block}, m \notin DOMAIN k,
         NEW g \in 1 .. Len(k[x])
  PROVE  Nested(k, With([k EXCEPT ![x] = InsertAt(@, g, m)], m, <<>>), x, m, {})
<1> DEFINE s == k[x]
           T == (DOMAIN k \cup {m}) \ {Block}
           r == InsertAt(s, g, m)
           w == With([k EXCEPT ![x] = r], m, <<>>)
<1>1. s \in Seq(T) /\ IsInjective(s) /\ m \notin ToSet(s) /\ m \in T
  BY Wider
<1>2. /\ Len(s) \in Nat /\ g - 1 \in 0 .. Len(s) /\ g \in (g - 1) + 1 .. Len(s) + 1
      /\ (g - 1) + 1 = g
  BY <1>1
<1>3. r = SubSeq(s, 1, g - 1) \o <<m>> \o SubSeq(s, g, Len(s))
  BY DEF InsertAt
<1>4. /\ DOMAIN w = DOMAIN k \cup {m}
      /\ w[x] = r /\ w[m] = <<>>
      /\ \A y \in DOMAIN k \ {x, m} : w[y] = k[y]
  <2> HIDE DEF r
  <2> QED
    BY DEF With
<1> HIDE DEF w, T, s
<1>5. ToSet(s) = Members(s, 1, g - 1) \cup Members(s, g, Len(s))
  <2>1. Members(s, (g - 1) + 1, g - 1) = {}
    BY <1>2 DEF Members
  <2>2. ToSet(s) \ Members(s, (g - 1) + 1, g - 1) =
          Members(s, 1, g - 1) \cup Members(s, g, Len(s))
    BY <1>1, <1>2, LeftOver
  <2> QED
    BY <2>1, <2>2
<1>6. /\ r \in Seq(T) /\ IsInjective(r) /\ ToSet(r) = (ToSet(s) \ {}) \cup {m}
      /\ \A u, v \in ToSet(s) \ {} : Ahead(s, u, v) => Ahead(r, u, v)
  BY <1>1, <1>2, <1>3, <1>5, FilledIs
<1>7. Part(T, s, <<>>, {})
  BY DEF Part, IsInjective, ToSet
<1>8. DOMAIN w \ {Block} = T
  BY <1>4 DEF T
<1> HIDE DEF r
<1>9. Nested(k, w, x, m, {})
  BY <1>4, <1>6, <1>7, <1>8 DEF Nested, s
<1> QED
  BY <1>9 DEF w, r, s

\* cmark_node_free of a node without children takes just this node.
LEMMA FreeNodeIs ==
  ASSUME NEW t, Lists(t.kids), NEW n \in DOMAIN t.kids \ {Block}, t.kids[n] = <<>>
  PROVE  LET u == FreeNode(t, n)
         IN  /\ DOMAIN u.node = DOMAIN t.node \ {n}
             /\ \A y \in DOMAIN t.node \ {n} : u.node[y] = t.node[y]
             /\ Shrunk(t.kids, u.kids)
             /\ DOMAIN u.kids = DOMAIN t.kids \ {n}
             /\ \A y \in DOMAIN t.kids \ {n} : ToSet(u.kids[y]) = ToSet(t.kids[y]) \ {n}
<1> DEFINE k == t.kids
           u == FreeNode(t, n)
           w == u.kids
<1>1. Subtree(t, n) = {n}
  BY SubtreeOfLeaf
<1>2. /\ DOMAIN u.node = DOMAIN t.node \ {n}
      /\ \A y \in DOMAIN t.node \ {n} : u.node[y] = t.node[y]
      /\ DOMAIN w = DOMAIN k \ {n}
      /\ \A y \in DOMAIN k \ {n} : w[y] = RemoveFirst(k[y], n)
  BY <1>1 DEF FreeNode
<1> HIDE DEF u
<1>3. ASSUME NEW y \in DOMAIN w
      PROVE  /\ ToSet(w[y]) = ToSet(k[y]) \ {n}
             /\ Part(DOMAIN w \ {Block}, k[y], w[y], ToSet(w[y]))
  <2>1. k[y] \in Seq(DOMAIN k \ {Block}) /\ IsInjective(k[y])
    BY <1>2 DEF Lists
  <2>2. Part(DOMAIN k \ {Block}, k[y], w[y], ToSet(k[y]) \ {n})
    BY <1>2, <2>1, TakenOut
  <2>3. ToSet(w[y]) \subseteq DOMAIN w \ {Block}
    BY <1>2, <2>1, <2>2, MembersByPlace DEF Part
  <2>4. w[y] \in Seq(DOMAIN w \ {Block})
    BY <2>2, <2>3, Narrower DEF Part
  <2> QED
    BY <2>2, <2>4 DEF Part
<1>4. Block \in DOMAIN w
  BY <1>2 DEF Lists
<1>5. Shrunk(k, w)
  <2> HIDE DEF w
  <2> QED
    BY <1>2, <1>3, <1>4 DEF Shrunk
<1> QED
  BY <1>2, <1>3, <1>5 DEF u

\* cmark_node_free of a child of the block and those after it.
LEMMA FreeFromIs ==
  ASSUME NEW t, Lists(t.kids), Founded(t.kids), DOMAIN t.node = DOMAIN t.kids \ {Block},
         NEW g \in 1 .. Len(t.kids[Block])
  PROVE  LET u == FreeFrom(t, t.kids[Block][g])
         IN  /\ DOMAIN u.node = DOMAIN u.kids \ {Block}
             /\ \A y \in DOMAIN u.node : u.node[y] = t.node[y]
             /\ Shrunk(t.kids, u.kids)
             /\ Members(t.kids[Block], 1, g - 1) \subseteq DOMAIN u.kids
             /\ ToSet(u.kids[Block]) = Members(t.kids[Block], 1, g - 1)
<1> DEFINE k == t.kids
           D == DOMAIN k
           s == k[Block]
           n == s[g]
           u == FreeFrom(t, n)
           w == u.kids
           last == SubSeq(s, g, Len(s))
           M == Members(s, g, Len(s))
           gone == UNION {Subtree(t, m) : m \in M}
           left == SubSeq(s, 1, g - 1)
<1>1. s \in Seq(D \ {Block}) /\ IsInjective(s) /\ Block \in D
  BY DEF Lists
<1>2. ParentOf(t, n) = Block /\ Place(t, n) = g
  BY <1>1, WhereIs
<1>3. Len(s) \in Nat /\ DOMAIN s = 1 .. Len(s) /\ g \in Nat \ {0} /\ g - 1 \in Nat
      /\ g - 1 <= Len(s) /\ \A i \in 1 .. Len(s) : s[i] \in D \ {Block} /\ s[i] \in ToSet(s)
  BY <1>1, MembersByPlace
<1>4. ToSet(last) = M
  <2>1. Part(D \ {Block}, s, last, M)
    <3>1. Len(s) <= Len(s)
      BY <1>3
    <3> HIDE DEF s
    <3> QED
      BY <1>1, <1>3, <3>1, PieceIs
  <2> QED
    BY <2>1 DEF Part
<1>5. /\ DOMAIN u.node = DOMAIN t.node \ gone
      /\ \A y \in DOMAIN u.node : u.node[y] = t.node[y]
      /\ DOMAIN w = D \ gone
      /\ \A y \in DOMAIN w : w[y] = IF y = Block THEN left ELSE k[y]
  <2> HIDE DEF M, s, n
  <2> QED
    BY <1>2, <1>4 DEF FreeFrom, s
<1> HIDE DEF u
<1>6. M \subseteq D \ {Block}
  BY <1>3 DEF Members
<1>7. Block \notin gone
  BY <1>6, SubtreeHas
<1>8. ASSUME NEW y \in D, NEW c \in ToSet(k[y]), c \in gone, y \notin gone
      PROVE  c \in M
  <2>1. PICK m \in M : c \in Subtree(t, m)
    BY <1>8
  <2>2. c = m \/ y \in Subtree(t, m)
    BY <1>6, <2>1, SubtreeHas
  <2> QED
    BY <1>8, <2>1, <2>2
<1>9. M \subseteq ToSet(s) /\ Members(s, 1, g - 1) \cap M = {}
  <2>1. M \subseteq ToSet(s)
    BY <1>3 DEF Members
  <2>2. ASSUME NEW i \in 1 .. g - 1, NEW j \in g .. Len(s), s[i] = s[j] PROVE FALSE
    <3>1. i \in DOMAIN s /\ j \in DOMAIN s /\ i # j
      BY <1>3
    <3> QED
      BY <1>1, <2>2, <3>1 DEF IsInjective
  <2> QED
    BY <2>1, <2>2 DEF Members
<1>10. Part(D \ {Block}, s, left, Members(s, 1, g - 1))
  <2>1. 1 \in Nat \ {0}
    OBVIOUS
  <2> HIDE DEF s
  <2> QED
    BY <1>1, <1>3, <2>1, PieceIs
<1> HIDE DEF gone, M, left, last, n
<1>11. Members(s, 1, g - 1) \subseteq ToSet(s)
  BY <1>3 DEF Members
<1>12. Members(s, 1, g - 1) \subseteq D \ gone
  <2>1. \A c \in Members(s, 1, g - 1) : c \in ToSet(s) /\ c \in D /\ c \notin M
    BY <1>1, <1>9, <1>11, MembersByPlace
  <2> QED
    BY <1>1, <1>7, <1>8, <2>1
<1>13. ASSUME NEW y \in DOMAIN w
       PROVE  /\ ToSet(w[y]) \subseteq ToSet(k[y])
              /\ Part(DOMAIN w \ {Block}, k[y], w[y], ToSet(w[y]))
  <2>1. CASE y = Block
    <3>1. w[y] = left
      BY <1>5, <2>1
    <3>2. ToSet(left) \subseteq DOMAIN w \ {Block}
      BY <1>3, <1>5, <1>10, <1>12 DEF Part, Members
    <3>3. left \in Seq(DOMAIN w \ {Block})
      BY <1>10, <3>2, Narrower DEF Part
    <3> QED
      BY <1>10, <1>11, <2>1, <3>1, <3>3 DEF Part
  <2>2. CASE y # Block
    <3>1. w[y] = k[y] /\ y \in D /\ y \notin gone
      BY <1>5, <2>2
    <3>2. k[y] \in Seq(D \ {Block}) /\ IsInjective(k[y]) /\ ToSet(k[y]) \cap ToSet(s) = {}
      BY <1>1, <2>2, <3>1 DEF Lists
    <3>3. ToSet(k[y]) \subseteq DOMAIN w \ {Block}
      <4>1. \A c \in ToSet(k[y]) : c \in D \ {Block} /\ c \notin M
        BY <1>9, <3>2, MembersByPlace
      <4> QED
        BY <1>5, <1>8, <3>1, <4>1
    <3>4. k[y] \in Seq(DOMAIN w \ {Block})
      BY <3>2, <3>3, Narrower
    <3> QED
      BY <3>1, <3>2, <3>4 DEF Part
  <2> QED
    BY <2>1, <2>2
<1>14. Shrunk(k, w)
  <2> HIDE DEF w
  <2> QED
    BY <1>1, <1>5, <1>7, <1>13 DEF Shrunk
<1>15. ToSet(w[Block]) = Members(s, 1, g - 1)
  BY <1>1, <1>5, <1>7, <1>10 DEF Part
<1>16. DOMAIN u.node = DOMAIN w \ {Block}
  BY <1>5
<1>17. Members(s, 1, g - 1) \subseteq DOMAIN w
  BY <1>5, <1>12
<1> QED
  BY <1>5, <1>14, <1>15, <1>16, <1>17 DEF u, n

\* The nodes below a block of n tokens: those of tokens have their numbers, the
\* numbers of others are above those of all tokens.
Tree(t, n) ==
  /\ Lists(t.kids) /\ Founded(t.kids)
  /\ DOMAIN t.node = DOMAIN t.kids \ {Block}
  /\ \A x \in DOMAIN t.node : x <= n \/ x > MaxTokens
  /\ \E b \in Nat : \A x \in DOMAIN t.node : x <= b

\* The new number is not in use.
LEMMA NextIdIsNew ==
  ASSUME NEW t, NEW n, Tree(t, n)
  PROVE  NextId(t) \in Nat /\ NextId(t) > MaxTokens /\ NextId(t) \notin DOMAIN t.node
<1> DEFINE S == DOMAIN t.node \cup {MaxTokens}
<1>1. PICK b \in Nat : \A x \in DOMAIN t.node : x <= b
  BY DEF Tree
<1>2. MaxTokens \in Nat /\ DOMAIN t.node \subseteq Nat
  BY MaxTokensAssumption DEF Tree, Lists
<1>3. PICK d \in Nat : b <= d /\ MaxTokens <= d
  <2>1. b <= MaxTokens \/ MaxTokens <= b
    BY <1>2
  <2> QED
    BY <1>2, <2>1
<1>4. S \in SUBSET (0 .. d) /\ S # {}
  BY <1>1, <1>2, <1>3
<1> HIDE DEF S
<1>5. \E m \in S : \A y \in S : y <= m
  BY <1>4, GreatestNumber
<1>6. PICK m \in S : \A y \in S : y <= m
  BY <1>5
<1>7. \A y \in S : m >= y
  BY <1>4, <1>6
<1>8. Max(S) \in S /\ \A y \in S : Max(S) >= y
  BY <1>7 DEF Max
<1>9. NextId(t) = Max(S) + 1
  BY DEF NextId, S
<1>10. S \subseteq Nat /\ MaxTokens \in S /\ DOMAIN t.node \subseteq S
  BY <1>2 DEF S
<1>11. NextId(t) \notin DOMAIN t.node
  <2>1. Max(S) + 1 \notin S
    BY <1>8, <1>10
  <2> QED
    BY <1>9, <1>10, <2>1
<1>12. Max(S) \in Nat /\ Max(S) >= MaxTokens
  BY <1>8, <1>10
<1> QED
  BY <1>2, <1>9, <1>11, <1>12

\* A new node, and siblings put below it.
LEMMA TreeNested ==
  ASSUME NEW t, NEW n, Tree(t, n), NEW l, NEW x \in DOMAIN t.kids, NEW m,
         CanHold(t.kids, x, m), NEW B, B \subseteq ToSet(t.kids[x]) \ {m},
         NEW u, Nested(t.kids, u.kids, x, m, B),
         DOMAIN u.node = DOMAIN t.node \cup {m},
         n \in Nat, l \in Nat, n <= l, m <= l \/ m > MaxTokens
  PROVE  Tree(u, l)
<1>1. Lists(t.kids) /\ Founded(t.kids) /\ DOMAIN t.node = DOMAIN t.kids \ {Block}
  BY DEF Tree
<1>2. Lists(u.kids) /\ Founded(u.kids)
  BY <1>1, NestedKeeps
<1>3. DOMAIN u.node = DOMAIN u.kids \ {Block} /\ m \in Nat
  BY <1>1 DEF Nested, CanHold
<1>4. \A y \in DOMAIN u.node : y <= l \/ y > MaxTokens
  BY <1>1, <1>3, MaxTokensAssumption DEF Tree, Lists
<1>5. \E b \in Nat : \A y \in DOMAIN u.node : y <= b
  <2>1. PICK b \in Nat : \A y \in DOMAIN t.node : y <= b
    BY DEF Tree
  <2>2. b + m \in Nat /\ DOMAIN t.node \subseteq Nat
    BY <1>1, <1>3 DEF Lists
  <2>3. \A y \in DOMAIN u.node : y <= b + m
    BY <1>3, <2>1, <2>2
  <2> QED
    BY <2>2, <2>3
<1> QED
  BY <1>2, <1>3, <1>4, <1>5 DEF Tree

\* Nodes freed.
LEMMA TreeShrunk ==
  ASSUME NEW t, NEW n, Tree(t, n), NEW u, Shrunk(t.kids, u.kids),
         DOMAIN u.node = DOMAIN u.kids \ {Block}
  PROVE  Tree(u, n)
<1>1. Lists(u.kids) /\ Founded(u.kids)
  BY ShrunkKeeps DEF Tree
<1>2. DOMAIN u.node \subseteq DOMAIN t.node
  BY DEF Tree, Shrunk
<1> QED
  BY <1>1, <1>2 DEF Tree

-----------------------------------------------------------------------------
(* Texts in the order of a stack                                            *)

\* The texts P stand on the list of x, in their order, and nothing is below them.
Row(k, x, P) ==
  /\ \A p \in P : p \in DOMAIN k /\ k[p] = <<>> /\ p \in ToSet(k[x])
  /\ \A p, q \in P : p < q => Ahead(k[x], p, q)

\* Some of them do so, too.
LEMMA RowOfFewer ==
  ASSUME NEW k, NEW x, NEW P, NEW Q, Q \subseteq P, Row(k, x, P)
  PROVE  Row(k, x, Q)
  BY DEF Row

\* Texts stay on their list when others go below m.
LEMMA RowStays ==
  ASSUME NEW k, NEW x \in DOMAIN k, NEW m, NEW B, NEW w, Nested(k, w, x, m, B),
         NEW P, Row(k, x, P), P \cap B = {}, m \notin P
  PROVE  Row(w, x, P)
<1>1. \A p \in P : p \in DOMAIN k \ {x, m} /\ k[p] = <<>> /\ p \in ToSet(k[x]) \ B
  BY DEF Row, ToSet
<1>2. \A p \in P : p \in DOMAIN w /\ w[p] = <<>> /\ p \in ToSet(w[x])
  BY <1>1 DEF Nested
<1>3. \A p, q \in P : p < q => Ahead(w[x], p, q)
  BY <1>1 DEF Nested, Row
<1> QED
  BY <1>2, <1>3 DEF Row

\* Texts that go below m are there in the same order.
LEMMA RowSinks ==
  ASSUME NEW k, NEW x \in DOMAIN k, NEW m, NEW B, NEW w, Nested(k, w, x, m, B),
         NEW P, Row(k, x, P), P \subseteq B, m \notin P
  PROVE  Row(w, m, P)
<1>1. \A p \in P : p \in DOMAIN k \ {x, m} /\ k[p] = <<>>
  BY DEF Row, ToSet
<1>2. \A p \in P : p \in DOMAIN w /\ w[p] = <<>> /\ p \in ToSet(w[m])
  BY <1>1 DEF Nested, Part
<1>3. \A p, q \in P : p < q => Ahead(w[m], p, q)
  BY <1>1 DEF Nested, Part, Row
<1> QED
  BY <1>2, <1>3 DEF Row

\* Texts on another list are not touched.
LEMMA RowElsewhere ==
  ASSUME NEW k, NEW x \in DOMAIN k, NEW m, NEW B, NEW w, Nested(k, w, x, m, B),
         NEW y \in DOMAIN k \ {x, m}, NEW P, Row(k, y, P), m \notin P, x \notin P
  PROVE  Row(w, y, P)
  BY DEF Nested, Row

\* Texts that are not freed stay in order.
LEMMA RowShrinks ==
  ASSUME NEW k, NEW w, Shrunk(k, w), NEW x \in DOMAIN w, NEW P, Row(k, x, P),
         P \subseteq DOMAIN w, P \subseteq ToSet(w[x])
  PROVE  Row(w, x, P)
<1>1. ASSUME NEW p \in P PROVE w[p] = <<>>
  <2>1. k[p] = <<>> /\ p \in DOMAIN w
    BY DEF Row
  <2>2. ToSet(k[p]) = {}
    BY <2>1 DEF ToSet
  <2>3. ToSet(w[p]) = {} /\ w[p] \in Seq(DOMAIN w \ {Block})
    BY <2>1, <2>2 DEF Shrunk, Part
  <2> QED
    BY <2>3, NoneIn
<1>2. \A p, q \in P : p < q => Ahead(w[x], p, q)
  BY DEF Shrunk, Part, Row
<1> QED
  BY <1>1, <1>2 DEF Row

\* A text that is freed leaves the others alone.
LEMMA TextFreed ==
  ASSUME NEW t, NEW n, Tree(t, n), NEW c \in DOMAIN t.node, t.kids[c] = <<>>
  PROVE  LET u == FreeNode(t, c)
         IN  /\ Tree(u, n)
             /\ DOMAIN u.kids = DOMAIN t.kids \ {c}
             /\ \A y \in DOMAIN t.node \ {c} : u.node[y] = t.node[y]
             /\ \A x \in DOMAIN t.kids \ {c} : \A P :
                  Row(t.kids, x, P) /\ c \notin P => Row(u.kids, x, P)
             /\ \A y \in DOMAIN t.kids \ {c} : t.kids[y] = <<>> => u.kids[y] = <<>>
<1> DEFINE u == FreeNode(t, c)
<1>1. Lists(t.kids) /\ c \in DOMAIN t.kids \ {Block} /\ DOMAIN t.node = DOMAIN t.kids \ {Block}
  BY DEF Tree
<1>2. /\ DOMAIN u.node = DOMAIN t.node \ {c}
      /\ \A y \in DOMAIN t.node \ {c} : u.node[y] = t.node[y]
      /\ Shrunk(t.kids, u.kids)
      /\ DOMAIN u.kids = DOMAIN t.kids \ {c}
      /\ \A y \in DOMAIN t.kids \ {c} : ToSet(u.kids[y]) = ToSet(t.kids[y]) \ {c}
  BY <1>1, FreeNodeIs
<1> HIDE DEF u
<1>3. Tree(u, n)
  BY <1>1, <1>2, TreeShrunk
<1>4. ASSUME NEW x \in DOMAIN t.kids \ {c}, NEW P, Row(t.kids, x, P), c \notin P
      PROVE  Row(u.kids, x, P)
  <2>1. P \subseteq DOMAIN u.kids /\ P \subseteq ToSet(u.kids[x])
    BY <1>2, <1>4 DEF Row
  <2>2. x \in DOMAIN u.kids
    BY <1>2
  <2> QED
    BY <1>2, <1>4, <2>1, <2>2, RowShrinks
<1>5. ASSUME NEW y \in DOMAIN t.kids \ {c}, t.kids[y] = <<>> PROVE u.kids[y] = <<>>
  <2>1. ToSet(u.kids[y]) = {} /\ y \in DOMAIN u.kids
    <3>1. ToSet(t.kids[y]) = {}
      BY <1>5 DEF ToSet
    <3> QED
      BY <1>2, <3>1
  <2>2. u.kids[y] \in Seq(DOMAIN u.kids \ {Block})
    BY <1>3, <2>1 DEF Tree, Lists
  <2> QED
    BY <2>1, <2>2, NoneIn
<1> QED
  BY <1>2, <1>3, <1>4, <1>5 DEF u

\* The order of a row is the order of its list.
LEMMA RowOrders ==
  ASSUME NEW k, Lists(k), NEW x \in DOMAIN k, NEW P, P \subseteq Nat, Row(k, x, P)
  PROVE  \A p, q \in P : Ahead(k[x], p, q) => p < q
<1> SUFFICES ASSUME NEW p \in P, NEW q \in P, Ahead(k[x], p, q), ~(p < q) PROVE FALSE
  OBVIOUS
<1>1. p # q /\ ~Ahead(k[x], q, p)
  BY AheadOrders DEF Lists
<1>2. q < p
  BY <1>1
<1> QED
  BY <1>1, <1>2 DEF Row

\* Two texts of a row have the same parent, the lower one the lower place.
LEMMA RowPlaces ==
  ASSUME NEW t, Lists(t.kids), NEW x \in DOMAIN t.kids, NEW P, Row(t.kids, x, P)
  PROVE  /\ \A p \in P : ParentOf(t, p) = x
         /\ \A p, q \in P : p < q => Place(t, p) < Place(t, q)
<1> DEFINE s == t.kids[x]
<1>1. s \in Seq(DOMAIN t.kids \ {Block}) /\ IsInjective(s)
  BY DEF Lists
<1>2. DOMAIN s = 1 .. Len(s) /\ Len(s) \in Nat
  BY <1>1, MembersByPlace
<1>3. \A g \in 1 .. Len(s) : ParentOf(t, s[g]) = x /\ Place(t, s[g]) = g
  BY WhereIs
<1>4. ASSUME NEW p \in P PROVE ParentOf(t, p) = x
  <2>1. p \in ToSet(s)
    BY DEF Row
  <2>2. PICK g \in 1 .. Len(s) : s[g] = p
    BY <1>1, <2>1, MembersByPlace
  <2> QED
    BY <1>3, <2>2
<1>5. ASSUME NEW p \in P, NEW q \in P, p < q PROVE Place(t, p) < Place(t, q)
  <2>1. Ahead(s, p, q)
    BY <1>5 DEF Row
  <2>2. PICK i, j \in DOMAIN s : i < j /\ s[i] = p /\ s[j] = q
    BY <2>1 DEF Ahead
  <2>3. Place(t, p) = i /\ Place(t, q) = j
    BY <1>2, <1>3, <2>2
  <2> QED
    BY <2>2, <2>3
<1> QED
  BY <1>4, <1>5

-----------------------------------------------------------------------------
(* Where the texts are that the stacks refer to                             *)

\* The delimiters that were put into the link being made.
Enclosed == {p \in DOMAIN delims : call.after = "link" /\ p >= call.stack_bottom}

\* The texts of brackets that stay in place: not after the end of the block, and
\* not that of the link being made.
Held ==
  {brackets[i].position :
     i \in {i \in DOMAIN brackets :
              call.after # "end" /\ ~(call.after = "link" /\ i = Len(brackets))}}

\* The other texts that the stacks refer to.
Outside == (DOMAIN delims \ Enclosed) \cup Held

\* The lists of children.
TreeOK == Tree(tree, Len(input)) /\ Len(input) <= MaxTokens

\* Brackets stand in the order of their texts, and a call for a link or a
\* footnote reference goes down to the text of the last.
BracketsOK ==
  /\ \A i \in DOMAIN brackets :
       brackets[i].position \in 1 .. Len(input) /\ brackets[i].position \notin DOMAIN delims
  /\ \A i, j \in DOMAIN brackets : i < j => brackets[i].position < brackets[j].position
  /\ call.after \in {"link", "footnote"} =>
       brackets # <<>> /\ call.stack_bottom = Top.position
  /\ call.after = "end" => call.stack_bottom = 0

\* A text that has characters left.
Texts == [type : {"text"}, char : Chars, len : Nat \ {0}]

\* The texts of delimiters have characters left.
TextsOK == \A p \in DOMAIN delims : p \in 1 .. Len(input) /\ tree.node[p] \in Texts

\* Texts that may be paired stand in one list, in the order of the stack.
RowsOK ==
  /\ Row(tree.kids, Block, Outside)
  /\ call.after = "link" =>
       /\ Len(input) \in DOMAIN tree.kids \ {Block}
       /\ Row(tree.kids, Len(input), Enclosed)

\* The invariant: where the texts are that the two stacks refer to.
Positions == TreeOK /\ BracketsOK /\ TextsOK /\ RowsOK

\* The places of the texts are numbers of tokens.
LEMMA PlacesAreTokens ==
  ASSUME StacksOK, BracketsOK, TextsOK
  PROVE  /\ Outside \subseteq 1 .. Len(input) /\ Enclosed \subseteq 1 .. Len(input)
         /\ Len(input) \in Nat /\ DOMAIN brackets = 1 .. Len(brackets)
         /\ Len(brackets) \in Nat
<1>1. Len(input) \in Nat /\ DOMAIN brackets = 1 .. Len(brackets) /\ Len(brackets) \in Nat
  BY DEF StacksOK
<1> QED
  BY <1>1 DEF Outside, Enclosed, Held, BracketsOK, TextsOK

-----------------------------------------------------------------------------
(* Scanning keeps it                                                        *)

\* A text is added.
LEMMA TextAdded ==
  ASSUME StacksOK, Positions, NEW c, NEW k, Text(c, k), Len(input) < MaxTokens
  PROVE  /\ here \in Nat /\ here = Len(input) + 1 /\ Len(input') = here
         /\ Tree(tree', here) /\ here \notin DOMAIN tree.node
         /\ Row(tree'.kids, Block, Outside \cup {here})
         /\ tree'.node[here] = [type |-> "text", char |-> c, len |-> k]
         /\ \A p \in DOMAIN tree.node : tree'.node[p] = tree.node[p]
<1> DEFINE m == here
           k2 == With([tree.kids EXCEPT ![Block] = Append(@, m)], m, <<>>)
<1>1. /\ Len(input) \in Nat /\ m = Len(input) + 1 /\ m \in Nat \ {Block} /\ m <= MaxTokens
      /\ Outside \subseteq 1 .. Len(input)
  BY PlacesAreTokens, MaxTokensAssumption DEF here, Block, Positions
<1>2. /\ Lists(tree.kids) /\ Founded(tree.kids) /\ Block \in DOMAIN tree.kids
      /\ DOMAIN tree.node = DOMAIN tree.kids \ {Block}
      /\ \A x \in DOMAIN tree.node : x <= Len(input) \/ x > MaxTokens
      /\ Tree(tree, Len(input)) /\ DOMAIN tree.node \subseteq Nat
  BY DEF Positions, TreeOK, Tree, Lists
<1>3. m \notin DOMAIN tree.node
  BY <1>1, <1>2, MaxTokensAssumption
<1>4. Len(input') = m
  BY <1>1 DEF Text, StacksOK
<1>5. /\ tree'.kids = k2
      /\ tree'.node = With(tree.node, m, [type |-> "text", char |-> c, len |-> k])
  BY DEF Text, AppendText
<1>6. m \notin DOMAIN tree.kids
  BY <1>1, <1>2, <1>3
<1>7. /\ Nested(tree.kids, k2, Block, m, {})
      /\ \A u \in ToSet(tree.kids[Block]) : Ahead(k2[Block], u, m)
  BY <1>1, <1>2, <1>6, AppendIs
<1> HIDE DEF k2, m
<1>8. /\ DOMAIN tree'.node = DOMAIN tree.node \cup {m}
      /\ tree'.node[m] = [type |-> "text", char |-> c, len |-> k]
      /\ \A p \in DOMAIN tree.node : tree'.node[p] = tree.node[p]
  BY <1>3, <1>5 DEF With
<1>9. Tree(tree', m)
  <2>1. CanHold(tree.kids, Block, m)
    BY <1>1, <1>6 DEF CanHold
  <2>2. Len(input) <= m /\ m <= m /\ m \in Nat
    BY <1>1
  <2>3. {} \subseteq ToSet(tree.kids[Block]) \ {m}
    OBVIOUS
  <2> QED
    BY <1>1, <1>2, <1>5, <1>7, <1>8, <2>1, <2>2, <2>3, TreeNested
<1>10. Row(tree'.kids, Block, Outside \cup {m})
  <2>1. Row(tree.kids, Block, Outside)
    BY DEF Positions, RowsOK
  <2>2. Row(k2, Block, Outside)
    <3>1. Outside \cap {} = {} /\ m \notin Outside
      BY <1>1
    <3> QED
      BY <1>2, <1>7, <2>1, <3>1, RowStays
  <2>3. m \in DOMAIN k2 /\ k2[m] = <<>> /\ m \in ToSet(k2[Block])
    <3>1. k2[m] \in Seq(DOMAIN k2 \ {Block}) /\ ToSet(k2[m]) = {}
      BY <1>7 DEF Nested, Part
    <3> QED
      BY <1>7, <3>1, NoneIn DEF Nested
  <2>4. \A p \in Outside : Ahead(k2[Block], p, m)
    BY <1>7, <2>1 DEF Row
  <2>5. \A p \in Outside : ~(m < p)
    BY <1>1
  <2>6. ~(m < m)
    BY <1>1
  <2> QED
    BY <1>5, <2>2, <2>3, <2>4, <2>5, <2>6 DEF Row
<1> QED
  BY <1>1, <1>3, <1>4, <1>8, <1>9, <1>10 DEF m

\* The stack of brackets after a token: entries keep their places, and a new one
\* is last.
Restacked ==
  \A i \in DOMAIN brackets' :
    \/ i \in DOMAIN brackets /\ brackets'[i].position = brackets[i].position
    \/ /\ i = Len(brackets) + 1
       /\ brackets'[i].position = here /\ here \notin DOMAIN delims'

\* An opening bracket.
LEMMA BracketPushed ==
  ASSUME StacksOK, NEW image \in BOOLEAN, brackets' = PushBracket(image),
         here \notin DOMAIN delims'
  PROVE  Restacked
<1> DEFINE marked == [i \in DOMAIN brackets |->
             IF i = Len(brackets) THEN [brackets[i] EXCEPT !.bracket_after = TRUE]
             ELSE brackets[i]]
           new == [image |-> image, position |-> here, bracket_after |-> FALSE]
<1>1. /\ Len(brackets) \in Nat /\ DOMAIN brackets = 1 .. Len(brackets)
      /\ \A i \in 1 .. Len(brackets) : brackets[i] \in Brackets
  BY DEF StacksOK
<1>2. marked \in [1 .. Len(brackets) -> Brackets]
  BY <1>1 DEF Brackets
<1>3. marked \in Seq(Brackets) /\ Len(marked) = Len(brackets)
  BY <1>1, <1>2, SeqDef
<1>4. \A i \in DOMAIN brackets : marked[i].position = brackets[i].position
  BY <1>1 DEF Brackets
<1>5. new.position = here
  OBVIOUS
<1> HIDE DEF marked, new
<1>6. brackets' = Append(marked, new)
  BY DEF PushBracket, marked, new
<1>7. /\ DOMAIN brackets' = 1 .. Len(brackets) + 1
      /\ \A i \in 1 .. Len(brackets) : brackets'[i] = marked[i]
      /\ brackets'[Len(brackets) + 1] = new
  BY <1>1, <1>3, <1>6
<1>8. \A i \in DOMAIN brackets' : i \in DOMAIN brackets \/ i = Len(brackets) + 1
  BY <1>1, <1>7
<1> QED
  BY <1>1, <1>4, <1>5, <1>7, <1>8 DEF Restacked

\* The stack without its last bracket.
LEMMA FrontPlaces ==
  ASSUME StacksOK, brackets # <<>>
  PROVE  /\ Len(Front(brackets)) = Len(brackets) - 1
         /\ DOMAIN Front(brackets) = 1 .. Len(brackets) - 1
         /\ Len(brackets) \in 1 .. Len(brackets) /\ DOMAIN brackets = 1 .. Len(brackets)
         /\ \A i \in 1 .. Len(brackets) - 1 : Front(brackets)[i] = brackets[i]
<1>1. Len(brackets) \in Nat /\ DOMAIN brackets = 1 .. Len(brackets)
      /\ \A i \in 1 .. Len(brackets) : brackets[i] \in Brackets
  BY DEF StacksOK
<1>2. Len(brackets) # 0
  BY EmptySeq DEF StacksOK
<1> QED
  BY <1>1, <1>2 DEF Front

\* A token that is scanned, outside of any call.
LEMMA ScanPlaces ==
  ASSUME StacksOK, Positions, call = NoCall, call' = NoCall, StacksOK',
         NEW c, NEW k, Text(c, k), Len(input) < MaxTokens, Restacked,
         \/ delims' = delims
         \/ c \in Chars /\ k \in Nat \ {0} /\ \E r : delims' = PushDelim(r)
  PROVE  Positions'
<1>1. /\ here \in Nat /\ here = Len(input) + 1 /\ Len(input') = here
      /\ Tree(tree', here) /\ here \notin DOMAIN tree.node
      /\ Row(tree'.kids, Block, Outside \cup {here})
      /\ tree'.node[here] = [type |-> "text", char |-> c, len |-> k]
      /\ \A p \in DOMAIN tree.node : tree'.node[p] = tree.node[p]
  BY TextAdded
<1>2. /\ Outside \subseteq 1 .. Len(input) /\ Len(input) \in Nat
      /\ DOMAIN brackets = 1 .. Len(brackets) /\ Len(brackets) \in Nat
  BY PlacesAreTokens DEF Positions
<1>3. call.after = "none" /\ call'.after = "none"
  BY DEF NoCall
<1>4. DOMAIN delims' \subseteq DOMAIN delims \cup {here}
  BY DEF PushDelim, With
<1>5. TreeOK'
  BY <1>1, <1>2, MaxTokensAssumption DEF TreeOK
<1>6. BracketsOK'
  <2>1. \A i \in DOMAIN brackets :
          /\ brackets[i].position \in 1 .. Len(input)
          /\ brackets[i].position \notin DOMAIN delims
    BY DEF Positions, BracketsOK
  <2>2. ASSUME NEW i \in DOMAIN brackets'
        PROVE  /\ brackets'[i].position \in 1 .. Len(input')
               /\ brackets'[i].position \notin DOMAIN delims'
    <3>1. CASE i \in DOMAIN brackets /\ brackets'[i].position = brackets[i].position
      <4>1. brackets[i].position \in 1 .. Len(input) /\ brackets[i].position # here
        BY <1>1, <1>2, <2>1, <3>1
      <4> QED
        BY <1>1, <1>2, <1>4, <2>1, <3>1, <4>1
    <3>2. CASE brackets'[i].position = here /\ here \notin DOMAIN delims'
      BY <1>1, <1>2, <3>2
    <3> QED
      BY <3>1, <3>2 DEF Restacked
  <2>3. ASSUME NEW i \in DOMAIN brackets', NEW j \in DOMAIN brackets', i < j
        PROVE  brackets'[i].position < brackets'[j].position
    <3>1. CASE j \in DOMAIN brackets /\ brackets'[j].position = brackets[j].position
      <4>1. i \in DOMAIN brackets /\ brackets'[i].position = brackets[i].position
        BY <1>2, <2>3, <3>1 DEF Restacked
      <4> QED
        BY <2>3, <3>1, <4>1 DEF Positions, BracketsOK
    <3>2. CASE j = Len(brackets) + 1 /\ brackets'[j].position = here
      <4>1. i \in DOMAIN brackets /\ brackets'[i].position = brackets[i].position
        <5>1. i # Len(brackets) + 1
          BY <1>2, <2>3, <3>2
        <5> QED
          BY <5>1 DEF Restacked
      <4> QED
        BY <1>1, <1>2, <2>1, <3>2, <4>1
    <3> QED
      BY <3>1, <3>2 DEF Restacked
  <2> QED
    BY <1>3, <2>2, <2>3 DEF BracketsOK
<1>7. TextsOK'
  <2> SUFFICES ASSUME NEW p \in DOMAIN delims'
               PROVE  p \in 1 .. Len(input') /\ tree'.node[p] \in Texts
    BY DEF TextsOK
  <2>1. CASE p \in DOMAIN delims
    <3>1. p \in 1 .. Len(input) /\ tree.node[p] \in Texts
      BY <2>1 DEF Positions, TextsOK
    <3>2. p \in Outside
      BY <1>3, <2>1 DEF Outside, Enclosed
    <3>3. p \in DOMAIN tree.node
      <4>1. p \in DOMAIN tree.kids /\ p # Block
        BY <3>1, <3>2 DEF Positions, RowsOK, Row, Block
      <4> QED
        BY <4>1 DEF Positions, TreeOK, Tree
    <3> QED
      BY <1>1, <1>2, <3>1, <3>3
  <2>2. CASE p \notin DOMAIN delims
    <3>1. p = here /\ c \in Chars /\ k \in Nat \ {0}
      BY <1>4, <2>2
    <3> QED
      BY <1>1, <1>2, <3>1 DEF Texts
  <2> QED
    BY <2>1, <2>2
<1>8. RowsOK'
  <2>1. Held' \subseteq Held \cup {here}
    BY <1>3 DEF Held, Restacked
  <2>2. Outside' \subseteq Outside \cup {here}
    BY <1>3, <1>4, <2>1 DEF Outside, Enclosed
  <2>3. Row(tree'.kids, Block, Outside')
    BY <1>1, <2>2, RowOfFewer
  <2> QED
    BY <1>3, <2>3 DEF RowsOK
<1> QED
  BY <1>5, <1>6, <1>7, <1>8 DEF Positions

\* The top bracket, outside of any call.
LEMMA TopPlace ==
  ASSUME StacksOK, Positions, call = NoCall, brackets # <<>>
  PROVE  /\ Top.position \in Held /\ Top.position \in Outside
         /\ Top.position \notin DOMAIN delims
         /\ Top.position \in 1 .. Len(input)
         /\ \A p \in Held : p <= Top.position
<1>1. /\ Len(brackets) \in 1 .. Len(brackets) /\ DOMAIN brackets = 1 .. Len(brackets)
      /\ Len(brackets) \in Nat
  BY FrontPlaces DEF StacksOK
<1>2. call.after = "none"
  BY DEF NoCall
<1>3. Held = {brackets[i].position : i \in DOMAIN brackets}
  BY <1>2 DEF Held
<1>4. \A i \in DOMAIN brackets : brackets[i].position \in 1 .. Len(input)
                                /\ brackets[i].position \notin DOMAIN delims
  BY DEF Positions, BracketsOK
<1>5. \A i \in DOMAIN brackets : brackets[i].position <= Top.position
  <2> TAKE i \in DOMAIN brackets
  <2>1. CASE i = Len(brackets)
    <3>1. brackets[i].position \in Nat
      BY <1>4
    <3> QED
      BY <2>1, <3>1 DEF Top
  <2>2. CASE i # Len(brackets)
    <3>1. i < Len(brackets)
      BY <1>1, <2>2
    <3>2. brackets[i].position < brackets[Len(brackets)].position
      BY <1>1, <3>1 DEF Positions, BracketsOK
    <3>3. brackets[i].position \in Nat /\ brackets[Len(brackets)].position \in Nat
      BY <1>1, <1>4
    <3> QED
      BY <3>2, <3>3 DEF Top
  <2> QED
    BY <2>1, <2>2
<1> QED
  BY <1>1, <1>3, <1>4, <1>5 DEF Top, Outside

\* The number of the next token is not in use.
LEMMA HereIsNew ==
  ASSUME StacksOK, Positions, Len(input) < MaxTokens
  PROVE  /\ here \in Nat \ {Block} /\ here = Len(input) + 1 /\ here <= MaxTokens
         /\ here \notin DOMAIN tree.kids /\ here \notin DOMAIN tree.node
         /\ here \notin Outside /\ Len(input) \in Nat
<1>1. /\ Outside \subseteq 1 .. Len(input) /\ Len(input) \in Nat
  BY PlacesAreTokens DEF Positions
<1>2. /\ DOMAIN tree.node = DOMAIN tree.kids \ {Block}
      /\ \A x \in DOMAIN tree.node : x <= Len(input) \/ x > MaxTokens
      /\ DOMAIN tree.node \subseteq Nat
  BY DEF Positions, TreeOK, Tree, Lists
<1> QED
  BY <1>1, <1>2, MaxTokensAssumption DEF here, Block

\* A link is made of what follows its opener.
LEMMA LinkPlaces ==
  ASSUME StacksOK, Positions, call = NoCall, StacksOK', brackets # <<>>,
         Len(input) < MaxTokens, NEW closing, CloseLink(closing)
  PROVE  Positions'
<1> DEFINE opener == Top.position
           link == [type |-> IF Top.image THEN "image" ELSE "link",
                    char |-> closing, len |-> 1]
           made == [node |-> With(tree.node, here, link),
                    kids |-> Wrap(tree, opener, NULL, here)]
           s == tree.kids[Block]
           Low == {p \in Outside : p <= opener}
           High == {p \in Outside : opener < p}
<1>1. /\ Outside \subseteq 1 .. Len(input) /\ Len(input) \in Nat
      /\ DOMAIN brackets = 1 .. Len(brackets) /\ Len(brackets) \in Nat
  BY PlacesAreTokens DEF Positions
<1>2. /\ here \in Nat \ {Block} /\ here = Len(input) + 1 /\ here <= MaxTokens
      /\ here \notin DOMAIN tree.kids /\ here \notin DOMAIN tree.node
      /\ here \notin Outside
  BY HereIsNew
<1>3. /\ opener \in Held /\ opener \in Outside /\ opener \notin DOMAIN delims
      /\ opener \in 1 .. Len(input) /\ \A p \in Held : p <= opener
  BY TopPlace
<1>4. /\ Lists(tree.kids) /\ Founded(tree.kids) /\ Block \in DOMAIN tree.kids
      /\ DOMAIN tree.node = DOMAIN tree.kids \ {Block}
      /\ Tree(tree, Len(input))
      /\ s \in Seq(DOMAIN tree.kids \ {Block}) /\ IsInjective(s)
      /\ Row(tree.kids, Block, Outside)
  BY DEF Positions, TreeOK, RowsOK, Tree, Lists
<1>5. /\ tree' = FreeNode(made, opener)
      /\ call' = ProcessEmphasis(opener, "link")
      /\ delims' = delims /\ brackets' = brackets
      /\ Len(input') = here
  BY <1>1, <1>2 DEF CloseLink, StacksOK
<1>6. PICK g \in 1 .. Len(s) : s[g] = opener
  BY <1>3, <1>4, MembersByPlace DEF Row
<1>7. /\ DOMAIN delims \cap Outside = DOMAIN delims
      /\ High = {p \in DOMAIN delims : p >= opener}
  <2>1. DOMAIN delims \subseteq Outside
    BY DEF Outside, Enclosed, NoCall
  <2>2. \A p \in Outside : p \in Nat /\ (p \in DOMAIN delims \/ p <= opener)
    BY <1>1, <1>3 DEF Outside
  <2>3. opener \in Nat
    BY <1>3
  <2> HIDE DEF opener
  <2>4. ASSUME NEW p \in High PROVE p \in DOMAIN delims /\ p >= opener
    BY <2>2, <2>3
  <2>5. ASSUME NEW p \in DOMAIN delims, p >= opener PROVE p \in High
    <3>1. p \in Outside /\ p \in Nat /\ p # opener
      BY <1>3, <2>1, <2>2
    <3> QED
      BY <2>3, <2>5, <3>1
  <2>6. High = {p \in DOMAIN delims : p >= opener}
    BY <2>4, <2>5
  <2> QED
    BY <2>1, <2>6
<1> HIDE DEF opener, s, link
<1> DEFINE h == Len(s) + 1
           B == Members(s, g + 1, h - 1)
<1>8. h \in Nat /\ StopsAt(s, g, NULL, h)
  <2>1. Len(s) \in Nat /\ NULL \notin ToSet(s)
    BY <1>4, MembersByPlace DEF NULL, Block
  <2> QED
    BY <2>1 DEF StopsAt
<1>9. Nested(tree.kids, made.kids, Block, here, B)
  <2>1. Nested(tree.kids, Wrap(tree, s[g], NULL, here), Block, here, B)
    <3> HIDE DEF h, made
    <3> QED
      BY <1>2, <1>4, <1>8, WrapIs DEF s
  <2> QED
    BY <1>6, <2>1
<1>10. \A p \in Outside : p \in B <=> opener < p
  <2> TAKE p \in Outside
  <2>1. p \in Nat /\ opener \in Nat /\ p \in ToSet(s)
    BY <1>1, <1>3, <1>4 DEF Row, s
  <2>2. Ahead(s, opener, p) => opener < p
    <3>1. Outside \subseteq Nat
      BY <1>1
    <3> QED
      BY <1>3, <1>4, <3>1, RowOrders DEF s
  <2>3. opener < p => Ahead(s, opener, p)
    BY <1>3, <1>4 DEF Row, s
  <2>4. p \in B <=> Ahead(s, opener, p)
    <3>1. Len(s) \in Nat /\ h \in g + 1 .. Len(s) + 1 /\ ~(h <= Len(s))
      BY <1>4
    <3> HIDE DEF h
    <3> QED
      BY <1>4, <1>6, <3>1, BetweenPlaces
  <2> QED
    BY <2>2, <2>3, <2>4
<1>11. /\ B \subseteq ToSet(s) /\ here \notin B
  <2>1. B \subseteq ToSet(s)
    <3>1. Len(s) \in Nat /\ h \in g + 1 .. Len(s) + 1
      BY <1>4
    <3> HIDE DEF h
    <3> QED
      BY <1>4, <3>1, BetweenPlaces
  <2> QED
    BY <1>2, <1>4, <2>1, MembersByPlace
<1>12. /\ DOMAIN made.node = DOMAIN tree.node \cup {here}
       /\ \A y \in DOMAIN tree.node : made.node[y] = tree.node[y]
  BY <1>2 DEF With
<1> HIDE DEF made, B, h
<1>13. Tree(made, here)
  <2>1. CanHold(tree.kids, Block, here)
    BY <1>2 DEF CanHold
  <2>2. Len(input) \in Nat /\ here \in Nat /\ Len(input) <= here /\ here <= here
    BY <1>1, <1>2
  <2>3. B \subseteq ToSet(tree.kids[Block]) \ {here}
    BY <1>11 DEF s
  <2> QED
    BY <1>4, <1>9, <1>12, <2>1, <2>2, <2>3, TreeNested
<1>14. Row(made.kids, Block, Low) /\ Row(made.kids, here, High)
  <2>1. Row(tree.kids, Block, Low) /\ Row(tree.kids, Block, High)
    BY <1>4, RowOfFewer
  <2>2. Low \cap B = {} /\ here \notin Low /\ High \subseteq B /\ here \notin High
    BY <1>1, <1>2, <1>3, <1>10
  <2> HIDE DEF Low, High
  <2> QED
    BY <1>4, <1>9, <2>1, <2>2, RowStays, RowSinks
<1>15. opener \in DOMAIN made.node /\ made.kids[opener] = <<>> /\ opener # here
       /\ here \in DOMAIN made.kids /\ Block \in DOMAIN made.kids /\ opener # Block
  <2>1. opener \in Low /\ opener # Block
    BY <1>3 DEF Block
  <2>2. opener \in DOMAIN made.kids /\ made.kids[opener] = <<>>
    BY <1>14, <2>1 DEF Row
  <2>3. here \in DOMAIN made.kids /\ Block \in DOMAIN made.kids
    BY <1>4, <1>9 DEF Nested
  <2> QED
    BY <1>2, <1>3, <1>13, <2>1, <2>2, <2>3 DEF Tree
<1>16. /\ Tree(tree', here)
       /\ DOMAIN tree'.kids = DOMAIN made.kids \ {opener}
       /\ \A y \in DOMAIN made.node \ {opener} : tree'.node[y] = made.node[y]
       /\ \A x \in DOMAIN made.kids \ {opener} : \A P :
            Row(made.kids, x, P) /\ opener \notin P => Row(tree'.kids, x, P)
  BY <1>5, <1>13, <1>15, TextFreed
<1>17. Row(tree'.kids, Block, Low \ {opener}) /\ Row(tree'.kids, here, High)
  <2>1. Row(made.kids, Block, Low \ {opener})
    <3> HIDE DEF Low
    <3> QED
      BY <1>14, RowOfFewer
  <2>2. opener \notin High /\ opener \notin Low \ {opener}
    BY <1>3
  <2> HIDE DEF Low, High
  <2> QED
    BY <1>14, <1>15, <1>16, <2>1, <2>2
<1>18. call'.after = "link" /\ call'.stack_bottom = opener
  BY <1>5 DEF ProcessEmphasis
<1>19. Enclosed' = High
  BY <1>5, <1>7, <1>18 DEF Enclosed
<1>20. Outside' \subseteq Low \ {opener}
  <2>1. Held' = {brackets[i].position : i \in {i \in DOMAIN brackets : i # Len(brackets)}}
    BY <1>5, <1>18 DEF Held
  <2>2. \A i \in DOMAIN brackets : i # Len(brackets) =>
          /\ brackets[i].position \in Outside /\ brackets[i].position < opener
    <3> SUFFICES ASSUME NEW i \in DOMAIN brackets, i # Len(brackets)
                 PROVE  /\ brackets[i].position \in Outside
                        /\ brackets[i].position < opener
      OBVIOUS
    <3>1. i < Len(brackets) /\ Len(brackets) \in DOMAIN brackets
      BY <1>1
    <3>2. brackets[i].position < opener
      BY <3>1 DEF Positions, BracketsOK, Top, opener
    <3> QED
      BY <3>2 DEF Outside, Held, NoCall
  <2>3. \A p \in Held' : p \in Outside /\ p < opener
    BY <2>1, <2>2
  <2>4. \A p \in DOMAIN delims : p \in Outside /\ p # opener
    BY <1>3, <1>7
  <2>5. Outside' \subseteq Held' \cup {p \in DOMAIN delims : ~(p >= opener)}
    BY <1>5, <1>18 DEF Outside, Enclosed
  <2>6. opener \in Nat /\ Outside \subseteq Nat
    BY <1>1, <1>3
  <2>7. ASSUME NEW p \in Outside' PROVE p \in Outside /\ p <= opener /\ p # opener
    <3>1. CASE p \in Held'
      <4>1. p \in Outside /\ p < opener
        BY <2>3, <3>1
      <4>2. p \in Nat /\ opener \in Nat
        BY <2>6, <4>1
      <4> HIDE DEF opener
      <4> QED
        BY <4>1, <4>2
    <3>2. CASE p \in DOMAIN delims /\ ~(p >= opener)
      <4>1. p \in Outside /\ p # opener
        BY <2>4, <3>2
      <4>2. p \in Nat /\ opener \in Nat
        BY <2>6, <4>1
      <4> HIDE DEF opener
      <4> QED
        BY <3>2, <4>1, <4>2
    <3> QED
      BY <2>5, <3>1, <3>2
  <2> QED
    BY <2>7
<1>21. TreeOK'
  BY <1>2, <1>5, <1>16 DEF TreeOK
<1>22. BracketsOK'
  <2>1. \A i \in DOMAIN brackets : brackets[i].position \in 1 .. here
                                  /\ brackets[i].position \notin DOMAIN delims
    BY <1>1, <1>2 DEF Positions, BracketsOK
  <2>2. \A i, j \in DOMAIN brackets : i < j => brackets[i].position < brackets[j].position
    BY DEF Positions, BracketsOK
  <2>3. Top' = Top
    BY <1>5 DEF Top
  <2> QED
    BY <1>5, <1>18, <2>1, <2>2, <2>3 DEF BracketsOK, opener
<1>23. TextsOK'
  <2> SUFFICES ASSUME NEW p \in DOMAIN delims
               PROVE  p \in 1 .. here /\ tree'.node[p] \in Texts
    BY <1>5 DEF TextsOK
  <2>1. p \in 1 .. Len(input) /\ tree.node[p] \in Texts
    BY DEF Positions, TextsOK
  <2>2. p \in DOMAIN tree.node /\ p # opener
    <3>1. p \in Outside
      BY <1>7
    <3> QED
      BY <1>3, <1>4, <2>1, <3>1 DEF Row, Block
  <2> QED
    BY <1>1, <1>2, <1>12, <1>16, <2>1, <2>2
<1>24. RowsOK'
  <2>1. Row(tree'.kids, Block, Outside')
    <3> HIDE DEF Low
    <3> QED
      BY <1>17, <1>20, RowOfFewer
  <2>2. here \in DOMAIN tree'.kids \ {Block}
    BY <1>2, <1>15, <1>16
  <2> QED
    BY <1>5, <1>17, <1>19, <2>1, <2>2 DEF RowsOK
<1> QED
  BY <1>21, <1>22, <1>23, <1>24 DEF Positions

\* A footnote reference is put before its opener.
LEMMA FootnotePlaces ==
  ASSUME StacksOK, Positions, call = NoCall, StacksOK', brackets # <<>>,
         Len(input) < MaxTokens, NEW closing, CloseFootnote(closing)
  PROVE  Positions'
<1> DEFINE opener == Top.position
           fnref == [type |-> "footnote_reference", char |-> closing,
                     len |-> here - opener]
           s == tree.kids[Block]
<1>1. /\ Outside \subseteq 1 .. Len(input) /\ Len(input) \in Nat
      /\ DOMAIN brackets = 1 .. Len(brackets) /\ Len(brackets) \in Nat
  BY PlacesAreTokens DEF Positions
<1>2. /\ here \in Nat \ {Block} /\ here = Len(input) + 1 /\ here <= MaxTokens
      /\ here \notin DOMAIN tree.kids /\ here \notin DOMAIN tree.node
      /\ here \notin Outside
  BY HereIsNew
<1>3. opener \in Outside
  BY TopPlace
<1>4. /\ Lists(tree.kids) /\ Block \in DOMAIN tree.kids
      /\ DOMAIN tree.node = DOMAIN tree.kids \ {Block}
      /\ Tree(tree, Len(input))
      /\ s \in Seq(DOMAIN tree.kids \ {Block})
      /\ Row(tree.kids, Block, Outside)
  BY DEF Positions, TreeOK, RowsOK, Tree, Lists
<1>5. PICK g \in 1 .. Len(s) : s[g] = opener
  BY <1>3, <1>4, MembersByPlace DEF Row
<1>6. Place(tree, opener) = g
  BY <1>4, <1>5, WhereIs
<1>7. /\ tree'.node = With(tree.node, here, fnref)
      /\ tree'.kids = With([tree.kids EXCEPT ![Block] = InsertAt(@, g, here)], here, <<>>)
      /\ call' = ProcessEmphasis(opener, "footnote")
      /\ delims' = delims /\ brackets' = brackets
      /\ Len(input') = here
  BY <1>1, <1>2, <1>6 DEF CloseFootnote, StacksOK
<1>8. Nested(tree.kids, tree'.kids, Block, here, {})
  BY <1>2, <1>4, <1>7, InsertIs
<1>9. /\ DOMAIN tree'.node = DOMAIN tree.node \cup {here}
      /\ \A y \in DOMAIN tree.node : tree'.node[y] = tree.node[y]
  BY <1>2, <1>7 DEF With
<1>10. call'.after = "footnote" /\ call'.stack_bottom = opener /\ call.after = "none"
  BY <1>7 DEF ProcessEmphasis, NoCall
<1> HIDE DEF opener, s, fnref
<1>11. Tree(tree', here)
  <2>1. CanHold(tree.kids, Block, here)
    BY <1>2 DEF CanHold
  <2>2. Len(input) \in Nat /\ here \in Nat /\ Len(input) <= here /\ here <= here
    BY <1>1, <1>2
  <2>3. {} \subseteq ToSet(tree.kids[Block]) \ {here}
    OBVIOUS
  <2> QED
    BY <1>4, <1>8, <1>9, <2>1, <2>2, <2>3, TreeNested
<1>12. Row(tree'.kids, Block, Outside)
  <2>1. Outside \cap {} = {}
    OBVIOUS
  <2> QED
    BY <1>2, <1>4, <1>8, <2>1, RowStays
<1>13. Outside' = Outside
  BY <1>7, <1>10 DEF Outside, Enclosed, Held
<1>14. TreeOK'
  BY <1>2, <1>7, <1>11 DEF TreeOK
<1>15. BracketsOK'
  <2>1. \A i \in DOMAIN brackets : brackets[i].position \in 1 .. here
                                  /\ brackets[i].position \notin DOMAIN delims
    BY <1>1, <1>2 DEF Positions, BracketsOK
  <2>2. \A i, j \in DOMAIN brackets : i < j => brackets[i].position < brackets[j].position
    BY DEF Positions, BracketsOK
  <2>3. Top' = Top
    BY <1>7 DEF Top
  <2> QED
    BY <1>7, <1>10, <2>1, <2>2, <2>3 DEF BracketsOK, opener
<1>16. TextsOK'
  <2> SUFFICES ASSUME NEW p \in DOMAIN delims
               PROVE  p \in 1 .. here /\ tree'.node[p] \in Texts
    BY <1>7 DEF TextsOK
  <2>1. p \in 1 .. Len(input) /\ tree.node[p] \in Texts
    BY DEF Positions, TextsOK
  <2>2. p \in DOMAIN tree.node
    <3>1. p \in Outside
      BY <1>10 DEF Outside, Enclosed
    <3> QED
      BY <1>4, <2>1, <3>1 DEF Row, Block
  <2> QED
    BY <1>1, <1>2, <1>9, <2>1, <2>2
<1>17. RowsOK'
  BY <1>10, <1>12, <1>13 DEF RowsOK
<1> QED
  BY <1>14, <1>15, <1>16, <1>17 DEF Positions

-----------------------------------------------------------------------------
(* So do the turns and the end of a call                                    *)

\* A call, or a turn of one, that takes nothing but delimiters.
LEMMA TurnPlaces ==
  ASSUME StacksOK, Positions, input' = input, tree' = tree, brackets' = brackets,
         DOMAIN delims' \subseteq DOMAIN delims,
         \/ call'.after = call.after /\ call'.stack_bottom = call.stack_bottom
         \/ call.after = "none" /\ call'.after = "end" /\ call'.stack_bottom = 0
  PROVE  Positions'
<1>1. Top' = Top
  BY DEF Top
<1>2. TreeOK' /\ TextsOK'
  BY DEF Positions, TreeOK, TextsOK
<1>3. BracketsOK'
  BY <1>1 DEF Positions, BracketsOK
<1>4. Enclosed' \subseteq Enclosed /\ (call'.after = "link" => call.after = "link")
  BY DEF Enclosed
<1>5. Outside' \subseteq Outside
  <2>1. Held' \subseteq Held
    BY DEF Held
  <2>2. DOMAIN delims' \ Enclosed' \subseteq DOMAIN delims \ Enclosed
    BY DEF Enclosed
  <2> QED
    BY <2>1, <2>2 DEF Outside
<1>6. Row(tree.kids, Block, Outside')
  BY <1>5, RowOfFewer DEF Positions, RowsOK
<1>7. ASSUME call'.after = "link"
      PROVE  /\ Len(input) \in DOMAIN tree.kids \ {Block}
             /\ Row(tree.kids, Len(input), Enclosed')
  BY <1>4, <1>7, RowOfFewer DEF Positions, RowsOK
<1>8. RowsOK'
  BY <1>6, <1>7 DEF RowsOK
<1> QED
  BY <1>2, <1>3, <1>8 DEF Positions

\* The list that the call in progress works on.
Home == IF call.after = "link" THEN Len(input) ELSE Block

\* These texts.
Movable == IF call.after = "link" THEN Enclosed ELSE Outside

\* The bracket that a call was made for is the last of those held.
LEMMA HeldBelow ==
  ASSUME StacksOK, Positions, CallOK, call # NoCall, NEW p \in Held
  PROVE  p \in Nat /\ p <= call.stack_bottom
<1>1. PICK i \in DOMAIN brackets : p = brackets[i].position /\ call.after # "end"
  BY DEF Held
<1>2. call.after \in {"link", "footnote"} /\ call.stack_bottom \in Nat
  BY <1>1 DEF CallOK, Calls
<1>3. brackets # <<>> /\ call.stack_bottom = brackets[Len(brackets)].position
  BY <1>2 DEF Positions, BracketsOK, Top
<1>4. /\ Len(brackets) \in DOMAIN brackets /\ DOMAIN brackets = 1 .. Len(brackets)
      /\ Len(brackets) \in Nat
  BY <1>3, FrontPlaces DEF StacksOK
<1>5. p \in Nat
  BY <1>1 DEF Positions, BracketsOK
<1>6. CASE i = Len(brackets)
  BY <1>1, <1>3, <1>5, <1>6
<1>7. CASE i # Len(brackets)
  <2>1. i < Len(brackets)
    BY <1>4, <1>7
  <2>2. p < call.stack_bottom
    BY <1>1, <1>3, <1>4, <2>1 DEF Positions, BracketsOK
  <2> QED
    BY <1>2, <1>5, <2>2
<1> QED
  BY <1>6, <1>7

\* Two delimiters above the bottom stand on that list, the lower one first, and
\* what is in order between them are delimiters.
LEMMA PairPlaces ==
  ASSUME StacksOK, Positions, CallOK, call # NoCall,
         NEW o \in DOMAIN delims, NEW c \in DOMAIN delims, o < c, call.stack_bottom <= o
  PROVE  /\ Home \in DOMAIN tree.kids /\ Row(tree.kids, Home, Movable)
         /\ o \in Movable /\ c \in Movable /\ Movable \subseteq 1 .. Len(input)
         /\ Home \notin Movable /\ Home \notin Outside
         /\ Home # Block => o \notin Outside /\ c \notin Outside
         /\ \A p \in Movable : o < p /\ p < c => p \in DOMAIN delims
         /\ \E g \in 1 .. Len(tree.kids[Home]) : \E h \in 1 .. Len(tree.kids[Home]) :
              /\ g < h /\ tree.kids[Home][g] = o /\ tree.kids[Home][h] = c
              /\ \A p \in Movable :
                   p \in Members(tree.kids[Home], g + 1, h - 1) <=> o < p /\ p < c
<1> DEFINE s == tree.kids[Home]
<1>1. /\ Outside \subseteq 1 .. Len(input) /\ Enclosed \subseteq 1 .. Len(input)
      /\ Len(input) \in Nat
  BY PlacesAreTokens DEF Positions
<1>2. call \in Calls /\ call.stack_bottom \in Nat /\ o \in Nat /\ c \in Nat
  BY DEF CallOK, Calls, StacksOK
<1>3. call.stack_bottom <= c
  BY <1>2
<1>4. Home \in DOMAIN tree.kids /\ Row(tree.kids, Home, Movable)
  BY DEF Positions, RowsOK, TreeOK, Tree, Lists, Home, Movable
<1>5. o \in Movable /\ c \in Movable /\ Movable \subseteq 1 .. Len(input)
  BY <1>1, <1>2, <1>3 DEF Movable, Outside, Enclosed
<1>6. /\ Lists(tree.kids)
      /\ s \in Seq(DOMAIN tree.kids \ {Block}) /\ IsInjective(s)
  BY <1>4 DEF Positions, TreeOK, Tree, Lists
<1>7. s # <<>>
  <2>1. o \in ToSet(s)
    BY <1>4, <1>5 DEF Row
  <2> QED
    BY <2>1 DEF ToSet
<1>8. Home \notin Movable /\ Home \notin Outside
  <2>1. \A p \in Movable \cup Outside : tree.kids[p] = <<>>
    BY <1>4 DEF Row, Positions, RowsOK
  <2> QED
    BY <1>7, <2>1
<1>9. ASSUME Home # Block PROVE o \notin Outside /\ c \notin Outside
  <2>1. o \in Enclosed /\ c \in Enclosed
    BY <1>5, <1>9 DEF Home, Movable
  <2>2. o \notin Held /\ c \notin Held
    BY DEF Held, Positions, BracketsOK
  <2> QED
    BY <2>1, <2>2 DEF Outside
<1>10. ASSUME NEW p \in Movable, o < p, p < c PROVE p \in DOMAIN delims
  <2>1. p \notin Held
    <3> SUFFICES ASSUME p \in Held PROVE FALSE
      OBVIOUS
    <3>1. p \in Nat /\ p <= call.stack_bottom
      BY HeldBelow
    <3> QED
      BY <1>2, <1>10, <3>1
  <2> QED
    BY <2>1 DEF Movable, Outside, Enclosed
<1> HIDE DEF s
<1>11. PICK g \in 1 .. Len(s) : s[g] = o
  BY <1>4, <1>5, <1>6, MembersByPlace DEF Row, s
<1>12. PICK h \in 1 .. Len(s) : s[h] = c
  BY <1>4, <1>5, <1>6, MembersByPlace DEF Row, s
<1>13. Movable \subseteq Nat /\ Len(s) \in Nat /\ DOMAIN s = 1 .. Len(s)
  BY <1>5, <1>6, MembersByPlace
<1>14. \A p, q \in Movable : Ahead(s, p, q) <=> p < q
  <2>1. \A p, q \in Movable : Ahead(s, p, q) => p < q
    BY <1>4, <1>6, <1>13, RowOrders DEF s
  <2>2. \A p, q \in Movable : p < q => Ahead(s, p, q)
    BY <1>4 DEF Row, s
  <2> QED
    BY <2>1, <2>2
<1>15. g < h
  <2>1. Ahead(s, o, c)
    BY <1>5, <1>14
  <2>2. PICK i, j \in DOMAIN s : i < j /\ s[i] = o /\ s[j] = c
    BY <2>1 DEF Ahead
  <2>3. i = g /\ j = h
    BY <1>6, <1>11, <1>12, <1>13, <2>2 DEF IsInjective
  <2> QED
    BY <2>2, <2>3
<1>16. ASSUME NEW p \in Movable
       PROVE  p \in Members(s, g + 1, h - 1) <=> o < p /\ p < c
  <2>1. p \in Members(s, g + 1, h - 1) <=> Ahead(s, o, p) /\ Ahead(s, p, c)
    <3>1. h \in g + 1 .. Len(s) + 1 /\ h <= Len(s)
      BY <1>13, <1>15
    <3> QED
      BY <1>6, <1>11, <1>12, <3>1, BetweenPlaces
  <2> QED
    BY <1>5, <1>14, <2>1
<1> QED
  BY <1>4, <1>5, <1>8, <1>9, <1>10, <1>11, <1>12, <1>15, <1>16 DEF s

\* Nodes are gone, and the rows without them are left.
Spared(k, w, gone) ==
  /\ DOMAIN w = DOMAIN k \ gone
  /\ \A x \in DOMAIN w : \A P : Row(k, x, P) /\ P \cap gone = {} => Row(w, x, P)

\* The rows after what is between two delimiters was put below m, and some texts
\* were freed.
LEMMA RowsAfter ==
  ASSUME RowsOK, NEW w, NEW m, NEW B, Nested(tree.kids, w.kids, Home, m, B),
         Home \in DOMAIN tree.kids, Block \in DOMAIN tree.kids, Home \notin Outside,
         NEW gone, Spared(w.kids, tree'.kids, gone),
         Movable' \subseteq Movable, Outside' \subseteq Outside,
         m \notin Movable', Movable' \cap B = {}, Movable' \cap gone = {},
         Home \notin gone, Block \notin gone, m # Block,
         Home # Block => m \notin Outside /\ Outside \cap gone = {},
         call'.after = call.after, Len(input') = Len(input)
  PROVE  RowsOK'
<1>1. Home' = Home
  BY DEF Home
<1>2. Row(tree.kids, Home, Movable) /\ Row(tree.kids, Block, Outside)
  BY DEF RowsOK, Home, Movable
<1>3. Row(w.kids, Home, Movable')
  BY <1>2, RowOfFewer, RowStays
<1>4. DOMAIN w.kids = DOMAIN tree.kids \cup {m}
  BY DEF Nested
<1>5. Row(tree'.kids, Home, Movable')
  BY <1>3, <1>4 DEF Spared
<1>6. CASE call.after # "link"
  BY <1>5, <1>6 DEF RowsOK, Home, Movable
<1>7. CASE call.after = "link"
  <2>1. Home = Len(input) /\ Home # Block /\ Movable' = Enclosed'
    BY <1>7 DEF RowsOK, Home, Movable
  <2>2. Row(w.kids, Block, Outside)
    BY <1>2, <2>1, RowElsewhere
  <2>3. Row(tree'.kids, Block, Outside)
    BY <1>4, <2>1, <2>2 DEF Spared
  <2>4. Row(tree'.kids, Block, Outside')
    BY <2>3, RowOfFewer
  <2> QED
    BY <1>4, <1>5, <1>7, <2>1, <2>4 DEF RowsOK, Spared
<1> QED
  BY <1>6, <1>7

\* Some of two texts are freed.
Freed(t, o, c, gone) ==
  LET u == IF o \in gone THEN FreeNode(t, o) ELSE t
  IN  IF c \in gone THEN FreeNode(u, c) ELSE u

\* The others are left alone.
LEMMA PairFreed ==
  ASSUME NEW t, NEW n, Tree(t, n), NEW o \in DOMAIN t.node, NEW c \in DOMAIN t.node, o # c,
         t.kids[o] = <<>>, t.kids[c] = <<>>, NEW gone, gone \subseteq {o, c}
  PROVE  LET u == Freed(t, o, c, gone)
         IN  /\ Tree(u, n) /\ Spared(t.kids, u.kids, gone)
             /\ \A y \in DOMAIN t.node \ gone : u.node[y] = t.node[y]
<1> DEFINE u == Freed(t, o, c, gone)
           v == IF o \in gone THEN FreeNode(t, o) ELSE t
           a == gone \cap {o}
<1> SUFFICES /\ Tree(u, n) /\ Spared(t.kids, u.kids, gone)
             /\ \A y \in DOMAIN t.node \ gone : u.node[y] = t.node[y]
  OBVIOUS
<1>1. DOMAIN t.node = DOMAIN t.kids \ {Block}
  BY DEF Tree
<1>2. /\ Tree(v, n) /\ DOMAIN v.kids = DOMAIN t.kids \ a
      /\ \A y \in DOMAIN t.node \ a : v.node[y] = t.node[y]
      /\ \A x \in DOMAIN t.kids \ a : \A P :
           Row(t.kids, x, P) /\ P \cap a = {} => Row(v.kids, x, P)
      /\ v.kids[c] = <<>>
  <2>1. CASE o \notin gone
    <3>1. a = {} /\ v = t
      BY <2>1
    <3> HIDE DEF a, v
    <3> QED
      BY <3>1
  <2>2. CASE o \in gone
    <3>1. a = {o} /\ v = FreeNode(t, o)
      BY <2>2
    <3>2. /\ Tree(FreeNode(t, o), n)
          /\ DOMAIN FreeNode(t, o).kids = DOMAIN t.kids \ {o}
          /\ \A y \in DOMAIN t.node \ {o} : FreeNode(t, o).node[y] = t.node[y]
          /\ \A x \in DOMAIN t.kids \ {o} : \A P :
               Row(t.kids, x, P) /\ o \notin P => Row(FreeNode(t, o).kids, x, P)
          /\ \A y \in DOMAIN t.kids \ {o} : t.kids[y] = <<>> => FreeNode(t, o).kids[y] = <<>>
      BY TextFreed
    <3>3. c \in DOMAIN t.kids \ {o}
      BY <1>1
    <3> HIDE DEF a, v
    <3> QED
      BY <3>1, <3>2, <3>3
  <2> QED
    BY <2>1, <2>2
<1>3. u = IF c \in gone THEN FreeNode(v, c) ELSE v
  BY DEF Freed
<1>4. c \in DOMAIN v.kids /\ DOMAIN v.node = DOMAIN v.kids \ {Block} /\ c # Block
  BY <1>1, <1>2 DEF Tree
<1>5. DOMAIN v.node = DOMAIN t.node \ a
  BY <1>1, <1>2, <1>4
<1> HIDE DEF v, u
<1>6. CASE c \notin gone
  <2>1. a = gone /\ u = v
    BY <1>3, <1>6
  <2> HIDE DEF a
  <2> QED
    <3>1. ASSUME NEW x \in DOMAIN v.kids, NEW P, Row(t.kids, x, P), P \cap a = {}
          PROVE  Row(v.kids, x, P)
      BY <1>2, <3>1
    <3>2. Spared(t.kids, v.kids, a)
      BY <1>2, <3>1 DEF Spared
    <3> QED
      BY <1>2, <2>1, <3>2
<1>7. CASE c \in gone
  <2>1. gone = a \cup {c} /\ u = FreeNode(v, c)
    BY <1>3, <1>7
  <2>2. /\ Tree(u, n) /\ DOMAIN u.kids = DOMAIN v.kids \ {c}
        /\ \A y \in DOMAIN v.node \ {c} : u.node[y] = v.node[y]
        /\ \A x \in DOMAIN v.kids \ {c} : \A P :
             Row(v.kids, x, P) /\ c \notin P => Row(u.kids, x, P)
    BY <1>2, <1>4, <2>1, TextFreed
  <2> HIDE DEF a
  <2>3. \A y \in DOMAIN t.node \ gone : u.node[y] = t.node[y]
    BY <1>2, <1>5, <2>1, <2>2
  <2>4. ASSUME NEW x \in DOMAIN t.kids \ gone, NEW P, Row(t.kids, x, P), P \cap gone = {}
        PROVE  Row(u.kids, x, P)
    <3>1. P \cap a = {} /\ c \notin P /\ x \notin a /\ x # c
      BY <2>1, <2>4
    <3>2. Row(v.kids, x, P)
      BY <1>2, <2>4, <3>1
    <3> QED
      BY <1>2, <2>2, <2>4, <3>1, <3>2
  <2>5. DOMAIN u.kids = DOMAIN t.kids \ gone
    BY <1>2, <2>1, <2>2
  <2> QED
    <3>1. ASSUME NEW x \in DOMAIN u.kids, NEW P, Row(t.kids, x, P), P \cap gone = {}
          PROVE  Row(u.kids, x, P)
      BY <2>4, <2>5, <3>1
    <3>2. Spared(t.kids, u.kids, gone)
      BY <2>5, <3>1 DEF Spared
    <3> QED
      BY <2>2, <2>3, <3>2
<1> QED
  BY <1>6, <1>7

\* The delimiters left are those that were not taken off.
LEMMA LeftInPlace ==
  ASSUME StacksOK, NEW gone, delims' = RemoveDelims(gone), brackets' = brackets,
         call'.after = call.after, call'.stack_bottom = call.stack_bottom
  PROVE  /\ DOMAIN delims' = DOMAIN delims \ gone
         /\ Movable' \subseteq Movable /\ Outside' \subseteq Outside
         /\ Movable' \cap (DOMAIN delims \cap gone) \subseteq Held
<1>1. DOMAIN delims' = DOMAIN delims \ gone
  BY DEF RemoveDelims
<1>2. Enclosed' = Enclosed \ gone /\ Held' = Held
  BY <1>1 DEF Enclosed, Held
<1> QED
  BY <1>1, <1>2 DEF Movable, Outside, Enclosed

\* Emphasis is put between two delimiters.
LEMMA EmphPlaces ==
  ASSUME StacksOK, Positions, CallOK, Processing, NEW o \in Openers,
         InsertEmph(o, call.closer)
  PROVE  Positions'
<1> DEFINE c == call.closer
           e == NextId(tree)
           s == tree.kids[Home]
<1>1. /\ call # NoCall /\ c \in DOMAIN delims /\ o \in DOMAIN delims /\ o < c
      /\ call.stack_bottom <= o /\ o \in Nat /\ c \in Nat /\ call \in Calls
  BY DEF Processing, CallOK, Calls, Openers, OpenersFrom, StacksOK
<1>2. PICK used \in {1, 2} :
        /\ used <= tree.node[o].len /\ used <= tree.node[c].len
        /\ \E t \in {Emphasized(tree, o, c, used, e)} :
             \E u \in {IF o \in UsedUp(o, c, used) THEN FreeNode(t, o) ELSE t} :
               tree' = IF c \in UsedUp(o, c, used) THEN FreeNode(u, c) ELSE u
        /\ delims' = RemoveDelims(Spent(o, c, used))
        /\ call' = IF c \in UsedUp(o, c, used)
                   THEN [call EXCEPT !.closer = NextDelim(@)] ELSE call
        /\ input' = input /\ brackets' = brackets
  <2>1. tree.node[o].len \in Nat \ {0} /\ tree.node[c].len \in Nat \ {0}
    BY <1>1 DEF Positions, TextsOK, Texts
  <2>2. CASE tree.node[o].len >= 2 /\ tree.node[c].len >= 2
    <3>1. 2 <= tree.node[o].len /\ 2 <= tree.node[c].len
      BY <2>1, <2>2
    <3> QED
      BY <2>2, <3>1 DEF InsertEmph
  <2>3. CASE ~(tree.node[o].len >= 2 /\ tree.node[c].len >= 2)
    <3>1. 1 <= tree.node[o].len /\ 1 <= tree.node[c].len
      BY <2>1
    <3> QED
      BY <2>3, <3>1 DEF InsertEmph
  <2> QED
    BY <2>2, <2>3
<1> DEFINE gone == UsedUp(o, c, used)
           w == Emphasized(tree, o, c, used, e)
<1>3. call'.after = call.after /\ call'.stack_bottom = call.stack_bottom
  BY <1>1, <1>2 DEF Calls
<1>4. /\ Home \in DOMAIN tree.kids /\ Row(tree.kids, Home, Movable)
      /\ o \in Movable /\ c \in Movable /\ Movable \subseteq 1 .. Len(input)
      /\ Home \notin Movable /\ Home \notin Outside
      /\ Home # Block => o \notin Outside /\ c \notin Outside
      /\ \A p \in Movable : o < p /\ p < c => p \in DOMAIN delims
      /\ \E g \in 1 .. Len(tree.kids[Home]) : \E h \in 1 .. Len(tree.kids[Home]) :
           /\ g < h /\ tree.kids[Home][g] = o /\ tree.kids[Home][h] = c
           /\ \A p \in Movable :
                p \in Members(tree.kids[Home], g + 1, h - 1) <=> o < p /\ p < c
  BY <1>1, PairPlaces
<1>5. PICK g \in 1 .. Len(s), h \in 1 .. Len(s) :
        /\ g < h /\ s[g] = o /\ s[h] = c
        /\ \A p \in Movable : p \in Members(s, g + 1, h - 1) <=> o < p /\ p < c
  BY <1>4
<1> DEFINE B == Members(s, g + 1, h - 1)
<1>6. /\ Tree(tree, Len(input)) /\ Lists(tree.kids) /\ Block \in DOMAIN tree.kids
      /\ DOMAIN tree.node = DOMAIN tree.kids \ {Block}
      /\ s \in Seq(DOMAIN tree.kids \ {Block}) /\ IsInjective(s) /\ Len(s) \in Nat
      /\ Len(input) <= MaxTokens
  <2>1. /\ Tree(tree, Len(input)) /\ Lists(tree.kids) /\ Block \in DOMAIN tree.kids
        /\ DOMAIN tree.node = DOMAIN tree.kids \ {Block} /\ Len(input) <= MaxTokens
    BY DEF Positions, TreeOK, Tree, Lists
  <2>2. s \in Seq(DOMAIN tree.kids \ {Block}) /\ IsInjective(s)
    BY <1>4, <2>1 DEF Lists
  <2>3. Len(s) \in Nat
    BY <2>2, MembersByPlace
  <2> QED
    BY <2>1, <2>2, <2>3
<1>7. /\ Outside \subseteq 1 .. Len(input) /\ Len(input) \in Nat
  BY PlacesAreTokens DEF Positions
<1>8. /\ e \in Nat /\ e > MaxTokens /\ e \notin DOMAIN tree.node
  BY <1>6, NextIdIsNew
<1>9. e \in Nat \ {Block} /\ e \notin DOMAIN tree.kids
  BY <1>6, <1>8, MaxTokensAssumption DEF Block
<1>10. e \notin Movable /\ e \notin Outside
  <2>1. PICK i \in Nat : i = e /\ i > MaxTokens
    BY <1>8
  <2> QED
    BY <1>4, <1>6, <1>7, <2>1, MaxTokensAssumption
<1>11. Nested(tree.kids, w.kids, Home, e, B)
  <2>1. StopsAt(s, g, c, h)
    BY <1>5, <1>6 DEF StopsAt
  <2>2. g \in 1 .. Len(s) /\ h \in Nat
    BY <1>6
  <2> HIDE DEF e, c
  <2>3. Nested(tree.kids, Wrap(tree, s[g], c, e), Home, e, B)
    BY <1>4, <1>6, <1>9, <2>1, <2>2, WrapIs
  <2> QED
    BY <1>5, <2>3 DEF Emphasized
<1>12. B \subseteq ToSet(s) \ {e}
  <2>1. B \subseteq ToSet(s)
    <3>1. h \in g + 1 .. Len(s) + 1
      BY <1>5, <1>6
    <3> HIDE DEF s
    <3> QED
      BY <1>6, <3>1, BetweenPlaces
  <2>2. ToSet(s) \subseteq DOMAIN tree.kids
    BY <1>6, MembersByPlace
  <2> QED
    BY <1>9, <2>1, <2>2
<1>13. o \in DOMAIN tree.node /\ c \in DOMAIN tree.node /\ o # c
  <2>1. o # Block /\ c # Block
    BY <1>4, <1>7 DEF Block
  <2> QED
    BY <1>1, <1>4, <1>6, <2>1 DEF Row
<1>14. /\ DOMAIN w.node = DOMAIN tree.node \cup {e}
       /\ \A y \in DOMAIN tree.node \ {o, c} : w.node[y] = tree.node[y]
       /\ w.node[o] = [tree.node[o] EXCEPT !.len = @ - used]
       /\ w.node[c] = [tree.node[c] EXCEPT !.len = @ - used]
  <2> HIDE DEF e, c
  <2> QED
    BY <1>8, <1>13 DEF Emphasized, With
<1>15. w.kids[o] = <<>> /\ w.kids[c] = <<>>
  BY <1>4, <1>10, <1>11 DEF Nested, Row
<1> HIDE DEF w, B, e, s
<1>16. Tree(w, Len(input))
  <2>1. CanHold(tree.kids, Home, e)
    BY <1>4, <1>9 DEF CanHold
  <2>2. Len(input) <= Len(input)
    BY <1>7
  <2> QED
    BY <1>4, <1>6, <1>7, <1>8, <1>11, <1>12, <1>14, <2>1, <2>2, TreeNested DEF s
<1>17. gone \subseteq {o, c} /\ \A p \in {o, c} \ gone : tree.node[p].len # used
  BY DEF UsedUp
<1>18. tree' = Freed(w, o, c, gone)
  <2>1. PICK u \in {IF o \in gone THEN FreeNode(w, o) ELSE w} :
          tree' = IF c \in gone THEN FreeNode(u, c) ELSE u
    BY <1>2 DEF w
  <2> QED
    BY <2>1 DEF Freed
<1>19. o \in DOMAIN w.node /\ c \in DOMAIN w.node
  BY <1>13, <1>14
<1> HIDE DEF gone
<1>20. /\ Tree(tree', Len(input)) /\ Spared(w.kids, tree'.kids, gone)
       /\ \A y \in DOMAIN w.node \ gone : tree'.node[y] = w.node[y]
  <2> HIDE DEF c
  <2> QED
    BY <1>13, <1>15, <1>16, <1>17, <1>18, <1>19, PairFreed
<1>21. /\ DOMAIN delims' = DOMAIN delims \ Spent(o, c, used)
       /\ Movable' \subseteq Movable /\ Outside' \subseteq Outside
       /\ Movable' \cap (DOMAIN delims \cap Spent(o, c, used)) \subseteq Held
  BY <1>2, <1>3, LeftInPlace
<1>22. Spent(o, c, used) = {p \in DOMAIN delims : o < p /\ p < c} \cup gone
  BY DEF Spent, gone
<1>23. \A p \in DOMAIN delims : p \notin Held
  BY DEF Held, Positions, BracketsOK
<1>24. Movable' \cap B = {} /\ Movable' \cap gone = {}
  <2>1. ASSUME NEW p \in Movable', p \in B PROVE FALSE
    <3>1. p \in DOMAIN delims /\ o < p /\ p < c
      BY <1>4, <1>5, <1>21, <2>1 DEF B
    <3> QED
      BY <1>21, <1>22, <1>23, <3>1
  <2>2. ASSUME NEW p \in Movable', p \in gone PROVE FALSE
    <3>1. p \in DOMAIN delims
      BY <1>1, <1>17, <2>2
    <3> QED
      BY <1>21, <1>22, <1>23, <2>2, <3>1
  <2> QED
    BY <2>1, <2>2
<1>25. TreeOK'
  BY <1>2, <1>6, <1>20 DEF TreeOK
<1>26. BracketsOK'
  <2>1. Top' = Top
    BY <1>2 DEF Top
  <2> QED
    BY <1>2, <1>3, <1>21, <2>1 DEF Positions, BracketsOK
<1>27. TextsOK'
  <2> SUFFICES ASSUME NEW p \in DOMAIN delims'
               PROVE  p \in 1 .. Len(input) /\ tree'.node[p] \in Texts
    BY <1>2 DEF TextsOK
  <2>1. /\ p \in DOMAIN delims /\ p \notin gone
        /\ p \in 1 .. Len(input) /\ tree.node[p] \in Texts
    BY <1>21, <1>22 DEF Positions, TextsOK
  <2>2. CASE p \in {o, c}
    <3>1. w.node[p] = [tree.node[p] EXCEPT !.len = @ - used] /\ used <= tree.node[p].len
      BY <1>2, <1>14, <2>2
    <3>2. tree.node[p].len # used
      BY <1>17, <2>1, <2>2
    <3>3. tree'.node[p] = w.node[p]
      BY <1>19, <1>20, <2>1, <2>2
    <3>4. tree.node[p].len - used \in Nat \ {0}
      BY <2>1, <3>1, <3>2 DEF Texts
    <3> QED
      BY <2>1, <3>1, <3>3, <3>4 DEF Texts
  <2>3. CASE p \notin {o, c}
    <3>1. p \in DOMAIN tree.node
      <4>1. p \in Movable \cup Outside
        BY <2>1 DEF Movable, Outside, Enclosed
      <4>2. Row(tree.kids, Block, Outside)
        BY DEF Positions, RowsOK
      <4>3. p \in DOMAIN tree.kids
        BY <1>4, <4>1, <4>2 DEF Row
      <4> QED
        BY <1>6, <2>1, <4>3 DEF Block
    <3> QED
      BY <1>14, <1>20, <2>1, <2>3, <3>1
  <2> QED
    BY <2>2, <2>3
<1>28. RowsOK'
  <2>1. Home \notin gone /\ Block \notin gone /\ e # Block
    BY <1>4, <1>6, <1>9, <1>13, <1>17
  <2>2. Home # Block => e \notin Outside /\ Outside \cap gone = {}
    BY <1>4, <1>10, <1>17
  <2>3. e \notin Movable' /\ Len(input') = Len(input) /\ RowsOK
    BY <1>2, <1>10, <1>21 DEF Positions
  <2> QED
    BY <1>3, <1>4, <1>6, <1>11, <1>20, <1>21, <1>24, <2>1, <2>2, <2>3, RowsAfter
<1> QED
  BY <1>25, <1>26, <1>27, <1>28 DEF Positions

\* Strikethrough of two runs of the same length.
LEMMA StrikePlaces ==
  ASSUME StacksOK, Positions, CallOK, Processing, NEW o \in Openers,
         InsertStrikethrough(o, call.closer)
  PROVE  Positions'
<1> DEFINE c == call.closer
           s == tree.kids[Home]
           gone == {p \in DOMAIN delims : o <= p /\ p <= c}
           w == [node |-> [tree.node EXCEPT ![o].type = "strikethrough"],
                 kids |-> WrapSelf(tree, o, c)]
<1>1. /\ call # NoCall /\ c \in DOMAIN delims /\ o \in DOMAIN delims /\ o < c
      /\ call.stack_bottom <= o /\ o \in Nat /\ c \in Nat /\ call \in Calls
  BY DEF Processing, CallOK, Calls, Openers, OpenersFrom, StacksOK
<1>2. /\ tree' = IF tree.node[o].len = tree.node[c].len THEN FreeNode(w, c) ELSE tree
      /\ delims' = RemoveDelims(gone)
      /\ call' = [call EXCEPT !.closer = NextDelim(@)]
      /\ input' = input /\ brackets' = brackets
  BY DEF InsertStrikethrough
<1>3. call'.after = call.after /\ call'.stack_bottom = call.stack_bottom
  BY <1>1, <1>2 DEF Calls
<1>4. /\ DOMAIN delims' = DOMAIN delims \ gone
      /\ Movable' \subseteq Movable /\ Outside' \subseteq Outside
      /\ Movable' \cap (DOMAIN delims \cap gone) \subseteq Held
  <2> HIDE DEF gone
  <2> QED
    BY <1>2, <1>3, LeftInPlace
<1>5. CASE tree.node[o].len # tree.node[c].len
  BY <1>2, <1>3, <1>4, <1>5, TurnPlaces
<1> SUFFICES ASSUME tree' = FreeNode(w, c) PROVE Positions'
  BY <1>2, <1>5
<1>6. /\ Home \in DOMAIN tree.kids /\ Row(tree.kids, Home, Movable)
      /\ o \in Movable /\ c \in Movable /\ Movable \subseteq 1 .. Len(input)
      /\ Home \notin Movable /\ Home \notin Outside
      /\ Home # Block => o \notin Outside /\ c \notin Outside
      /\ \A p \in Movable : o < p /\ p < c => p \in DOMAIN delims
      /\ \E g \in 1 .. Len(tree.kids[Home]) : \E h \in 1 .. Len(tree.kids[Home]) :
           /\ g < h /\ tree.kids[Home][g] = o /\ tree.kids[Home][h] = c
           /\ \A p \in Movable :
                p \in Members(tree.kids[Home], g + 1, h - 1) <=> o < p /\ p < c
  BY <1>1, PairPlaces
<1>7. PICK g \in 1 .. Len(s), h \in 1 .. Len(s) :
        /\ g < h /\ s[g] = o /\ s[h] = c
        /\ \A p \in Movable : p \in Members(s, g + 1, h - 1) <=> o < p /\ p < c
  BY <1>6
<1> DEFINE B == Members(s, g + 1, h - 1)
<1>8. /\ Tree(tree, Len(input)) /\ Lists(tree.kids) /\ Block \in DOMAIN tree.kids
      /\ DOMAIN tree.node = DOMAIN tree.kids \ {Block}
      /\ s \in Seq(DOMAIN tree.kids \ {Block}) /\ IsInjective(s) /\ Len(s) \in Nat
      /\ Len(input) <= MaxTokens
  <2>1. /\ Tree(tree, Len(input)) /\ Lists(tree.kids) /\ Block \in DOMAIN tree.kids
        /\ DOMAIN tree.node = DOMAIN tree.kids \ {Block} /\ Len(input) <= MaxTokens
    BY DEF Positions, TreeOK, Tree, Lists
  <2>2. s \in Seq(DOMAIN tree.kids \ {Block}) /\ IsInjective(s)
    BY <1>6, <2>1 DEF Lists
  <2>3. Len(s) \in Nat
    BY <2>2, MembersByPlace
  <2> QED
    BY <2>1, <2>2, <2>3
<1>9. Len(input) \in Nat
  BY PlacesAreTokens DEF Positions
<1>10. /\ o \in Nat \ {Block} /\ o <= Len(input) /\ o # Home /\ c # Home
       /\ o \in DOMAIN tree.node /\ c \in DOMAIN tree.node /\ o # c /\ c # Block
       /\ tree.kids[o] = <<>> /\ tree.kids[c] = <<>> /\ o \in ToSet(s)
  <2>1. o # Block /\ c # Block
    BY <1>6, <1>9 DEF Block
  <2> QED
    BY <1>1, <1>6, <1>8, <1>9, <2>1 DEF Row
<1>11. Nested(tree.kids, w.kids, Home, o, B)
  <2>1. StopsAt(s, g, c, h)
    BY <1>7, <1>8 DEF StopsAt
  <2>2. g \in 1 .. Len(s) /\ h \in Nat /\ s[g] # Home
    BY <1>7, <1>8, <1>10
  <2> HIDE DEF c
  <2>3. Nested(tree.kids, WrapSelf(tree, s[g], c), Home, s[g], B)
    BY <1>6, <1>8, <2>1, <2>2, WrapSelfIs
  <2> QED
    BY <1>7, <2>3
<1>12. B \subseteq ToSet(s) \ {o}
  <2>1. B \subseteq ToSet(s)
    <3>1. h \in g + 1 .. Len(s) + 1
      BY <1>7, <1>8
    <3> HIDE DEF s
    <3> QED
      BY <1>8, <3>1, BetweenPlaces
  <2>2. o \notin B
    BY <1>1, <1>6, <1>7
  <2> QED
    BY <2>1, <2>2
<1>13. /\ DOMAIN w.node = DOMAIN tree.node \cup {o}
       /\ \A y \in DOMAIN tree.node \ {o} : w.node[y] = tree.node[y]
  BY <1>10
<1>14. w.kids[c] = <<>>
  BY <1>8, <1>10, <1>11 DEF Nested
<1> HIDE DEF w, B, s
<1>15. Tree(w, Len(input))
  <2>1. CanHold(tree.kids, Home, o)
    BY <1>10 DEF CanHold, s
  <2>2. Len(input) <= Len(input)
    BY <1>9
  <2> QED
    BY <1>6, <1>8, <1>9, <1>10, <1>11, <1>12, <1>13, <2>1, <2>2, TreeNested DEF s
<1>16. c \in DOMAIN w.node /\ DOMAIN w.node = DOMAIN w.kids \ {Block}
  BY <1>10, <1>13, <1>15 DEF Tree
<1>17. /\ Tree(tree', Len(input)) /\ Spared(w.kids, tree'.kids, {c})
       /\ \A y \in DOMAIN w.node \ {c} : tree'.node[y] = w.node[y]
  <2>1. /\ Tree(FreeNode(w, c), Len(input))
        /\ DOMAIN FreeNode(w, c).kids = DOMAIN w.kids \ {c}
        /\ \A y \in DOMAIN w.node \ {c} : FreeNode(w, c).node[y] = w.node[y]
        /\ \A x \in DOMAIN w.kids \ {c} : \A P :
             Row(w.kids, x, P) /\ c \notin P => Row(FreeNode(w, c).kids, x, P)
    <3> HIDE DEF c
    <3> QED
      BY <1>14, <1>15, <1>16, TextFreed
  <2>2. ASSUME NEW x \in DOMAIN tree'.kids, NEW P, Row(w.kids, x, P), P \cap {c} = {}
        PROVE  Row(tree'.kids, x, P)
    <3>1. c \notin P
      BY <2>2
    <3> QED
      BY <2>1, <2>2, <3>1
  <2>3. Spared(w.kids, tree'.kids, {c})
    BY <2>1, <2>2 DEF Spared
  <2> QED
    BY <2>1, <2>3
<1>18. \A p \in DOMAIN delims : p \notin Held
  BY DEF Held, Positions, BracketsOK
<1>19. \A p \in Movable' : p \notin gone
  <2> TAKE p \in Movable'
  <2>1. gone \subseteq DOMAIN delims
    OBVIOUS
  <2> HIDE DEF gone
  <2> QED
    BY <1>4, <1>18, <2>1
<1>20. Movable' \cap B = {} /\ Movable' \cap {c} = {} /\ o \notin Movable'
  <2>1. ASSUME NEW p \in Movable', p \in B PROVE FALSE
    <3>1. p \in DOMAIN delims /\ o < p /\ p < c /\ p \in Nat
      BY <1>4, <1>6, <1>7, <2>1 DEF B, StacksOK
    <3>2. p \in gone
      BY <1>1, <3>1
    <3> QED
      BY <1>19, <2>1, <3>2
  <2>2. o \in gone /\ c \in gone
    BY <1>1
  <2> QED
    BY <1>19, <2>1, <2>2
<1>21. TreeOK'
  BY <1>2, <1>8, <1>17 DEF TreeOK
<1>22. BracketsOK'
  <2>1. Top' = Top
    BY <1>2 DEF Top
  <2> QED
    BY <1>2, <1>3, <1>4, <2>1 DEF Positions, BracketsOK
<1>23. TextsOK'
  <2> SUFFICES ASSUME NEW p \in DOMAIN delims'
               PROVE  p \in 1 .. Len(input) /\ tree'.node[p] \in Texts
    BY <1>2 DEF TextsOK
  <2>1. p \in DOMAIN delims /\ p \notin gone /\ p \in 1 .. Len(input) /\ tree.node[p] \in Texts
    BY <1>4 DEF Positions, TextsOK
  <2>2. p # o /\ p # c
    BY <1>1, <2>1
  <2>3. p \in DOMAIN tree.node
    <3>1. p \in Movable \cup Outside
      BY <2>1 DEF Movable, Outside, Enclosed
    <3>2. Row(tree.kids, Block, Outside)
      BY DEF Positions, RowsOK
    <3>3. p \in DOMAIN tree.kids
      BY <1>6, <3>1, <3>2 DEF Row
    <3> QED
      BY <1>8, <2>1, <3>3 DEF Block
  <2> QED
    BY <1>13, <1>17, <2>1, <2>2, <2>3
<1>24. RowsOK'
  <2>1. Home \notin {c} /\ Block \notin {c} /\ o # Block
    BY <1>10
  <2>2. Home # Block => o \notin Outside /\ Outside \cap {c} = {}
    BY <1>6
  <2>3. Len(input') = Len(input) /\ RowsOK
    BY <1>2 DEF Positions
  <2> HIDE DEF c, gone
  <2> QED
    BY <1>3, <1>4, <1>6, <1>8, <1>11, <1>17, <1>20, <2>1, <2>2, <2>3, RowsAfter
<1> QED
  BY <1>21, <1>22, <1>23, <1>24 DEF Positions

\* The end of a call.
LEMMA ReturnPlaces ==
  ASSUME StacksOK, Positions, CallOK, Return
  PROVE  Positions'
<1> DEFINE s == tree.kids[Block]
           opener == Top.position
<1>1. /\ call \in Calls /\ call' = NoCall /\ call'.after = "none" /\ input' = input
      /\ delims' = RemoveDelims({p \in DOMAIN delims : p >= call.stack_bottom})
      /\ call.after \in {"link", "footnote", "end"}
  BY DEF Return, CallOK, Calls, NoCall
<1>2. /\ Outside \subseteq 1 .. Len(input) /\ Enclosed \subseteq 1 .. Len(input)
      /\ Len(input) \in Nat
      /\ DOMAIN brackets = 1 .. Len(brackets) /\ Len(brackets) \in Nat
  BY PlacesAreTokens DEF Positions
<1>3. /\ DOMAIN delims' = {p \in DOMAIN delims : ~(p >= call.stack_bottom)}
      /\ Enclosed' = {} /\ Outside' = DOMAIN delims' \cup Held'
      /\ Held' = {brackets'[i].position : i \in DOMAIN brackets'}
  BY <1>1 DEF RemoveDelims, Enclosed, Outside, Held
<1>4. TextsOK /\ BracketsOK /\ TreeOK /\ Row(tree.kids, Block, Outside)
  BY DEF Positions, RowsOK
<1>5. CASE call.after = "end"
  <2>1. call.stack_bottom = 0 /\ brackets' = <<>> /\ tree' = tree
    BY <1>4, <1>5 DEF BracketsOK, Return
  <2>2. DOMAIN delims' = {}
    BY <1>3, <2>1 DEF StacksOK
  <2>3. Outside' = {}
    BY <1>3, <2>1, <2>2
  <2>4. TreeOK' /\ TextsOK'
    BY <1>1, <1>4, <2>1, <2>2 DEF TreeOK, TextsOK
  <2>5. BracketsOK'
    BY <1>1, <2>1 DEF BracketsOK
  <2>6. RowsOK'
    BY <1>1, <2>3 DEF RowsOK, Row
  <2> QED
    BY <2>4, <2>5, <2>6 DEF Positions
<1> SUFFICES ASSUME call.after \in {"link", "footnote"} PROVE Positions'
  BY <1>1, <1>5
<1>6. brackets # <<>> /\ call.stack_bottom = opener /\ brackets' = Front(brackets)
  BY <1>4 DEF BracketsOK, Return
<1>7. /\ DOMAIN brackets' = 1 .. Len(brackets) - 1
      /\ Len(brackets) \in 1 .. Len(brackets)
      /\ \A i \in 1 .. Len(brackets) - 1 : brackets'[i] = brackets[i]
  BY <1>6, FrontPlaces
<1>8. opener = brackets[Len(brackets)].position /\ opener \in Nat
  <2>1. opener = brackets[Len(brackets)].position
    BY DEF Top
  <2>2. brackets[Len(brackets)].position \in 1 .. Len(input)
    BY <1>2, <1>4, <1>7 DEF BracketsOK
  <2> QED
    BY <2>1, <2>2
<1> HIDE DEF opener
<1>9. BracketsOK'
  <2>1. \A i \in DOMAIN brackets' : i \in DOMAIN brackets /\ brackets'[i] = brackets[i]
    BY <1>2, <1>7
  <2>2. DOMAIN delims' \subseteq DOMAIN delims
    BY <1>3
  <2>3. \A i \in DOMAIN brackets' : /\ brackets'[i].position \in 1 .. Len(input)
                                   /\ brackets'[i].position \notin DOMAIN delims'
    BY <1>4, <2>1, <2>2 DEF BracketsOK
  <2>4. \A i, j \in DOMAIN brackets' : i < j => brackets'[i].position < brackets'[j].position
    BY <1>4, <2>1 DEF BracketsOK
  <2> QED
    BY <1>1, <2>3, <2>4 DEF BracketsOK
<1>10. \A p \in Held' : p \in Held /\ p < opener
  <2> TAKE p \in Held'
  <2> PICK i \in DOMAIN brackets' : p = brackets'[i].position
    BY <1>3
  <2>1. p = brackets[i].position
    BY <1>7
  <2>2. i \in DOMAIN brackets /\ i # Len(brackets) /\ i < Len(brackets)
    BY <1>2, <1>7
  <2>3. p \in Held
    BY <2>1, <2>2 DEF Held
  <2>4. p < opener
    BY <1>2, <1>4, <1>7, <1>8, <2>1, <2>2 DEF BracketsOK
  <2> QED
    BY <2>3, <2>4
<1>11. \A p \in Outside' : p \in Outside /\ p < opener
  <2> TAKE p \in Outside'
  <2>1. CASE p \in Held'
    BY <1>10, <2>1 DEF Outside
  <2>2. CASE p \in DOMAIN delims'
    <3>1. p \in DOMAIN delims /\ ~(p >= opener) /\ p \in Nat
      BY <1>3, <1>6, <2>2 DEF StacksOK
    <3>2. p \notin Enclosed
      BY <1>6, <3>1 DEF Enclosed
    <3> QED
      BY <1>8, <3>1, <3>2 DEF Outside
  <2> QED
    BY <1>3, <2>1, <2>2
<1>12. CASE call.after = "link"
  <2>1. tree' = tree
    BY <1>12 DEF Return
  <2>2. Row(tree.kids, Block, Outside')
    BY <1>4, <1>11, RowOfFewer
  <2>3. TreeOK' /\ TextsOK'
    BY <1>1, <1>3, <1>4, <2>1 DEF TreeOK, TextsOK
  <2>4. RowsOK'
    BY <1>1, <2>1, <2>2 DEF RowsOK
  <2> QED
    BY <1>9, <2>3, <2>4 DEF Positions
<1>13. CASE call.after = "footnote"
  <2>1. /\ Tree(tree, Len(input)) /\ Lists(tree.kids) /\ Founded(tree.kids)
        /\ DOMAIN tree.node = DOMAIN tree.kids \ {Block}
        /\ s \in Seq(DOMAIN tree.kids \ {Block}) /\ IsInjective(s)
        /\ Len(input) <= MaxTokens
    BY <1>4 DEF TreeOK, Tree, Lists
  <2>2. opener \in Outside
    <3>1. opener \in Held
      BY <1>2, <1>7, <1>8, <1>13 DEF Held
    <3> QED
      BY <3>1 DEF Outside
  <2>3. PICK g \in 1 .. Len(s) : s[g] = opener
    BY <1>4, <2>1, <2>2, MembersByPlace DEF Row
  <2>4. tree' = FreeFrom(tree, s[g])
    BY <1>13, <2>3 DEF Return, opener
  <2>5. /\ DOMAIN tree'.node = DOMAIN tree'.kids \ {Block}
        /\ \A y \in DOMAIN tree'.node : tree'.node[y] = tree.node[y]
        /\ Shrunk(tree.kids, tree'.kids)
        /\ Members(s, 1, g - 1) \subseteq DOMAIN tree'.kids
        /\ ToSet(tree'.kids[Block]) = Members(s, 1, g - 1)
    BY <2>1, <2>4, FreeFromIs
  <2> HIDE DEF s
  <2>6. Outside' \subseteq Members(s, 1, g - 1)
    <3> SUFFICES ASSUME NEW p \in Outside' PROVE p \in Members(s, 1, g - 1)
      OBVIOUS
    <3>1. Ahead(s, p, opener)
      BY <1>4, <1>11, <2>2 DEF Row, s
    <3>2. PICK i, j \in DOMAIN s : i < j /\ s[i] = p /\ s[j] = opener
      BY <3>1 DEF Ahead
    <3>3. DOMAIN s = 1 .. Len(s) /\ Len(s) \in Nat
      BY <2>1, MembersByPlace
    <3>4. j = g
      BY <2>1, <2>3, <3>2, <3>3 DEF IsInjective
    <3>5. i \in 1 .. g - 1
      BY <3>2, <3>3, <3>4
    <3> QED
      BY <3>2, <3>5 DEF Members
  <2>7. Row(tree'.kids, Block, Outside')
    <3>1. Row(tree.kids, Block, Outside')
      BY <1>4, <1>11, RowOfFewer
    <3>2. Block \in DOMAIN tree'.kids
      BY <2>5 DEF Shrunk
    <3>3. Outside' \subseteq DOMAIN tree'.kids /\ Outside' \subseteq ToSet(tree'.kids[Block])
      BY <2>5, <2>6
    <3> QED
      BY <2>5, <3>1, <3>2, <3>3, RowShrinks
  <2>8. Tree(tree', Len(input))
    BY <2>1, <2>5, TreeShrunk
  <2>9. TreeOK'
    BY <1>1, <2>1, <2>8 DEF TreeOK
  <2>10. TextsOK'
    <3> SUFFICES ASSUME NEW p \in DOMAIN delims'
                 PROVE  p \in 1 .. Len(input) /\ tree'.node[p] \in Texts
      BY <1>1 DEF TextsOK
    <3>1. p \in 1 .. Len(input) /\ tree.node[p] \in Texts
      BY <1>3, <1>4 DEF TextsOK
    <3>2. p \in DOMAIN tree'.node
      <4>1. p \in DOMAIN tree'.kids
        BY <1>3, <2>5, <2>6
      <4> QED
        BY <2>5, <3>1, <4>1 DEF Block
    <3> QED
      BY <2>5, <3>1, <3>2
  <2>11. RowsOK'
    BY <1>1, <2>7 DEF RowsOK
  <2> QED
    BY <1>9, <2>9, <2>10, <2>11 DEF Positions
<1> QED
  BY <1>12, <1>13

-----------------------------------------------------------------------------
(* Every step                                                               *)

\* Each step leaves the texts where the stacks say.
LEMMA NextPlaces == IInv /\ Positions /\ [Next]_vars => Positions'
<1> SUFFICES ASSUME IInv, Positions, [Next]_vars PROVE Positions'
  OBVIOUS
<1>1. StacksOK /\ CallOK
  BY DEF IInv
<1>2. StacksOK'
  BY NextKeeps DEF IInv
<1>3. Scanning => /\ call = NoCall /\ Len(input) < MaxTokens
                  /\ here \notin DOMAIN delims /\ here \in Nat
  <2>1. Len(input) \in Nat /\ \A p \in DOMAIN delims : p \in 1 .. Len(input)
    BY <1>1, PlacesAreTokens DEF Positions, TextsOK
  <2> QED
    BY <2>1 DEF Scanning, here
<1>4. brackets' = brackets => Restacked
  BY DEF Restacked
<1>5. ASSUME NEW r \in Runs, ScanRun(r) PROVE Positions'
  <2>1. r.char \in Chars /\ r.length \in Nat \ {0}
    BY RunsAssumption DEF Delimiter
  <2>2. Scanning /\ call' = call /\ Restacked /\ Text(r.char, r.length)
        /\ (delims' = delims \/ delims' = PushDelim(r))
    BY <1>4, <1>5 DEF ScanRun
  <2> QED
    BY <1>1, <1>2, <1>3, <2>1, <2>2, ScanPlaces
<1>6. ASSUME NEW k \in Carets, ScanCaret(k) PROVE Positions'
  <2>1. Scanning /\ call' = call /\ Restacked /\ Text("^", k) /\ delims' = delims
    BY <1>4, <1>6 DEF ScanCaret
  <2> QED
    BY <1>1, <1>2, <1>3, <2>1, ScanPlaces
<1>7. ASSUME NEW image \in BOOLEAN, OpenBracket(image) PROVE Positions'
  <2>1. /\ Scanning /\ call' = call /\ delims' = delims
        /\ brackets' = PushBracket(image)
    BY <1>7 DEF OpenBracket
  <2>2. PICK c : Text(c, 1)
    BY <1>7 DEF OpenBracket
  <2>3. Restacked
    BY <1>1, <1>3, <2>1, BracketPushed
  <2> QED
    BY <1>1, <1>2, <1>3, <2>1, <2>2, <2>3, ScanPlaces
<1>8. ASSUME NEW closing \in Closings, CloseBracket(closing) PROVE Positions'
  <2>1. Scanning
    BY <1>8 DEF CloseBracket
  <2>2. CASE LiteralClose(closing)
    <3>1. Restacked
      <4>1. CASE brackets = <<>>
        BY <1>4, <2>2, <4>1 DEF LiteralClose
      <4>2. CASE brackets # <<>>
        <5>1. brackets' = Front(brackets)
          BY <2>2, <4>2 DEF LiteralClose
        <5>2. /\ DOMAIN brackets' = 1 .. Len(brackets) - 1 /\ DOMAIN brackets = 1 .. Len(brackets)
              /\ \A i \in 1 .. Len(brackets) - 1 : brackets'[i] = brackets[i]
              /\ Len(brackets) \in Nat
          BY <1>1, <4>2, <5>1, FrontPlaces DEF StacksOK
        <5> QED
          BY <5>2 DEF Restacked
      <4> QED
        BY <4>1, <4>2
    <3>2. Text(closing, 1) /\ call' = call /\ delims' = delims
      BY <2>2 DEF LiteralClose
    <3> QED
      BY <1>1, <1>2, <1>3, <2>1, <3>1, <3>2, ScanPlaces
  <2>3. CASE brackets # <<>> /\ CloseLink(closing)
    BY <1>1, <1>2, <1>3, <2>1, <2>3, LinkPlaces
  <2>4. CASE brackets # <<>> /\ CloseFootnote(closing)
    BY <1>1, <1>2, <1>3, <2>1, <2>4, FootnotePlaces
  <2> QED
    BY <1>8, <2>2, <2>3, <2>4 DEF CloseBracket
<1>9. CASE End
  <2>1. /\ call.after = "none" /\ call'.after = "end" /\ call'.stack_bottom = 0
        /\ input' = input /\ tree' = tree /\ brackets' = brackets /\ delims' = delims
    BY <1>9 DEF End, ProcessEmphasis, NoCall
  <2> QED
    BY <1>1, <2>1, TurnPlaces
<1>10. Processing => /\ call \in Calls /\ call.closer \in DOMAIN delims
  BY <1>1 DEF Processing, CallOK
<1>11. CASE PassOver
  <2>1. /\ Processing /\ call' = [call EXCEPT !.closer = NextDelim(@)]
        /\ input' = input /\ tree' = tree /\ brackets' = brackets /\ delims' = delims
    BY <1>11 DEF PassOver
  <2>2. call'.after = call.after /\ call'.stack_bottom = call.stack_bottom
    BY <1>10, <2>1 DEF Calls
  <2> QED
    BY <1>1, <2>1, <2>2, TurnPlaces
<1>12. CASE NoOpener
  <2>1. /\ Processing
        /\ call' = [call EXCEPT
                      !.closer = NextDelim(@),
                      !.openers_bottom[<<Closer.length % 3, Closer.char>>] = call.closer]
        /\ input' = input /\ tree' = tree /\ brackets' = brackets
        /\ delims' = delims \/ delims' = RemoveDelims({call.closer})
    BY <1>12 DEF NoOpener
  <2>2. call'.after = call.after /\ call'.stack_bottom = call.stack_bottom
    BY <1>10, <2>1 DEF Calls
  <2>3. DOMAIN delims' \subseteq DOMAIN delims
    BY <2>1 DEF RemoveDelims
  <2> QED
    BY <1>1, <2>1, <2>2, <2>3, TurnPlaces
<1>13. CASE Match
  <2>1. PICK opener \in Openers :
           \/ InsertStrikethrough(opener, call.closer)
           \/ InsertEmph(opener, call.closer)
           \/ PairQuotes(opener, call.closer)
    BY <1>13 DEF Match
  <2>2. Processing
    BY <1>13 DEF Match
  <2>3. CASE PairQuotes(opener, call.closer)
    <3>1. /\ DOMAIN delims' \subseteq DOMAIN delims
          /\ call' = [call EXCEPT !.closer = NextDelim(@)]
          /\ input' = input /\ tree' = tree /\ brackets' = brackets
      BY <2>3 DEF PairQuotes, RemoveDelims
    <3>2. call'.after = call.after /\ call'.stack_bottom = call.stack_bottom
      BY <1>10, <2>2, <3>1 DEF Calls
    <3> QED
      BY <1>1, <3>1, <3>2, TurnPlaces
  <2> QED
    BY <1>1, <2>1, <2>2, <2>3, EmphPlaces, StrikePlaces
<1>14. CASE Return
  BY <1>1, <1>14, ReturnPlaces
<1>15. CASE UNCHANGED vars
  <2>1. /\ call' = call /\ input' = input /\ tree' = tree /\ brackets' = brackets
        /\ delims' = delims
    BY <1>15 DEF vars
  <2> QED
    BY <1>1, <2>1, TurnPlaces
<1> QED
  BY <1>5, <1>6, <1>7, <1>8, <1>9, <1>11, <1>12, <1>13, <1>14, <1>15 DEF Next

\* An empty block.
LEMMA InitPlaces == Init => Positions
<1> SUFFICES ASSUME Init PROVE Positions
  OBVIOUS
<1>1. /\ input = <<>> /\ brackets = <<>> /\ call.after = "none" /\ DOMAIN delims = {}
      /\ DOMAIN tree.node = {} /\ tree.kids = [n \in {Block} |-> <<>>]
  BY DEF Init, NoCall
<1>2. Len(input) = 0
  BY <1>1
<1>3. /\ DOMAIN tree.kids = {Block} /\ tree.kids[Block] = <<>>
      /\ tree.kids[Block] \in Seq(DOMAIN tree.kids \ {Block})
      /\ IsInjective(tree.kids[Block]) /\ ToSet(tree.kids[Block]) = {}
  BY <1>1 DEF IsInjective, ToSet
<1>4. Lists(tree.kids) /\ Founded(tree.kids)
  <2>1. \A x \in DOMAIN tree.kids : x = Block
    BY <1>3
  <2>2. DOMAIN tree.kids \subseteq Nat
    BY <1>3 DEF Block
  <2>3. Founded(tree.kids)
    BY <1>3, <2>1 DEF Founded
  <2> QED
    BY <1>3, <2>1, <2>2, <2>3 DEF Lists
<1>5. TreeOK
  BY <1>1, <1>2, <1>3, <1>4, MaxTokensAssumption DEF TreeOK, Tree
<1>6. BracketsOK /\ TextsOK
  BY <1>1 DEF BracketsOK, TextsOK
<1>7. Outside = {}
  BY <1>1 DEF Outside, Held
<1>8. RowsOK
  BY <1>1, <1>7 DEF RowsOK, Row
<1> QED
  BY <1>5, <1>6, <1>8 DEF Positions

\* So the stacks match the tree.
LEMMA PositionsMatch == IInv /\ Positions => StackMatchesTree
<1> SUFFICES ASSUME IInv, Positions PROVE StackMatchesTree
  OBVIOUS
<1>1. /\ Lists(tree.kids) /\ Block \in DOMAIN tree.kids
      /\ DOMAIN tree.node = DOMAIN tree.kids \ {Block}
      /\ tree.kids[Block] \in Seq(DOMAIN tree.kids \ {Block})
  BY DEF Positions, TreeOK, Tree, Lists
<1>2. /\ \A p \in Outside : ParentOf(tree, p) = Block /\ p \in ToSet(tree.kids[Block])
      /\ \A p, q \in Outside : p < q => Place(tree, p) < Place(tree, q)
  <2>1. Row(tree.kids, Block, Outside)
    BY DEF Positions, RowsOK
  <2> QED
    BY <1>1, <2>1, RowPlaces DEF Row
<1>3. call.after = "link" =>
        /\ Len(input) \in DOMAIN tree.kids
        /\ \A p \in Enclosed : ParentOf(tree, p) = Len(input)
        /\ \A p, q \in Enclosed : p < q => Place(tree, p) < Place(tree, q)
  <2> SUFFICES ASSUME call.after = "link"
               PROVE  /\ Len(input) \in DOMAIN tree.kids
                      /\ \A p \in Enclosed : ParentOf(tree, p) = Len(input)
                      /\ \A p, q \in Enclosed : p < q => Place(tree, p) < Place(tree, q)
    OBVIOUS
  <2>1. Len(input) \in DOMAIN tree.kids /\ Row(tree.kids, Len(input), Enclosed)
    BY DEF Positions, RowsOK
  <2> QED
    BY <1>1, <2>1, RowPlaces
<1>4. ASSUME NEW p \in DOMAIN delims
      PROVE  /\ p \in DOMAIN tree.node
             /\ tree.node[p].type = "text" /\ tree.node[p].len > 0
  <2>1. p \in 1 .. Len(input) /\ tree.node[p] \in Texts
    BY DEF Positions, TextsOK
  <2>2. p \in DOMAIN tree.kids
    <3>1. p \in Enclosed \cup Outside
      BY DEF Outside
    <3>2. CASE p \in Outside
      BY <3>2 DEF Positions, RowsOK, Row
    <3>3. CASE p \in Enclosed
      BY <3>3 DEF Positions, RowsOK, Row, Enclosed
    <3> QED
      BY <3>1, <3>2, <3>3
  <2> QED
    BY <1>1, <2>1, <2>2 DEF Block, Texts
<1>5. ASSUME NEW p \in DOMAIN delims, NEW q \in DOMAIN delims, p < q,
             call = NoCall \/ (p >= call.stack_bottom <=> q >= call.stack_bottom)
      PROVE  /\ ParentOf(tree, p) = ParentOf(tree, q)
             /\ Place(tree, p) < Place(tree, q)
  <2>1. CASE p \in Enclosed
    <3>1. q \in Enclosed /\ call.after = "link"
      BY <1>5, <2>1 DEF Enclosed, NoCall
    <3> QED
      BY <1>3, <1>5, <2>1, <3>1
  <2>2. CASE p \notin Enclosed
    <3>1. q \notin Enclosed
      BY <1>5, <2>2 DEF Enclosed, NoCall
    <3> QED
      BY <1>2, <1>5, <2>2, <3>1 DEF Outside
  <2> QED
    BY <2>1, <2>2
<1>6. ASSUME call.after # "end"
      PROVE  LET open == {i \in DOMAIN brackets :
                            ~(call.after = "link" /\ i = Len(brackets))}
             IN  \A i, j \in open :
                   /\ Contains(tree.kids[Block], brackets[i].position)
                   /\ i < j => Place(tree, brackets[i].position)
                                 < Place(tree, brackets[j].position)
  <2> DEFINE open == {i \in DOMAIN brackets : ~(call.after = "link" /\ i = Len(brackets))}
  <2>1. \A i \in open : brackets[i].position \in Outside
    BY <1>6 DEF Outside, Held
  <2>2. \A i, j \in open : i < j => brackets[i].position < brackets[j].position
    BY DEF Positions, BracketsOK
  <2>3. \A i \in open : Contains(tree.kids[Block], brackets[i].position)
    BY <1>1, <1>2, <2>1 DEF Contains, ToSet
  <2> HIDE DEF open
  <2>4. ASSUME NEW i \in open, NEW j \in open, i < j
        PROVE  Place(tree, brackets[i].position) < Place(tree, brackets[j].position)
    BY <1>2, <2>1, <2>2, <2>4
  <2> QED
    BY <2>3, <2>4 DEF open
<1> QED
  BY <1>4, <1>5, <1>6 DEF StackMatchesTree

-----------------------------------------------------------------------------
(* The theorems                                                             *)

\* No bound of process_emphasis is above an opener that a closer of its kind
\* could still use, however the calls for links and for the block follow one
\* another.
THEOREM BoundsHideNothing == Spec => []IInv
<1>1. Init => IInv
  BY DEF Init, IInv, StacksOK, CallOK, Barred
<1> QED
  BY <1>1, NextKeeps, PTL DEF Spec

\* process_emphasis gives up on a closer that may open as well only when no
\* delimiter above the bottom of the stack matches it: the shortcut through
\* openers_bottom loses no emphasis.
THEOREM SearchIsComplete == Spec => []SearchComplete
  BY BoundsHideNothing, BarredComplete, PTL

\* Whatever is scanned and however the calls follow one another, the texts that
\* the stacks refer to are in the tree, in the order of the stacks.
THEOREM TextsInPlace == Spec => [](IInv /\ Positions)
<1>1. Init => IInv /\ Positions
  BY InitPlaces DEF Init, IInv, StacksOK, CallOK, Barred
<1>2. IInv /\ Positions /\ [Next]_vars => IInv' /\ Positions'
  BY NextKeeps, NextPlaces
<1> QED
  BY <1>1, <1>2, PTL DEF Spec

\* process_emphasis and handle_close_bracket walk from one text to another that
\* is on the same list after it, and free no text that a stack still refers to.
THEOREM StacksMatchTree == Spec => []StackMatchesTree
  BY TextsInPlace, PositionsMatch, PTL
=============================================================================
