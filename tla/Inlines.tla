------------------------------- MODULE Inlines -------------------------------
(***************************************************************************)
(* The inline parser's two stacks (inlines.c): delimiter runs waiting to   *)
(* become emphasis, strikethrough or quotes, and brackets waiting to       *)
(* become links, images or footnote references.  Scanning appends texts to *)
(* the block and pushes on the stacks; a closing bracket, and the end of   *)
(* the block, run process_emphasis over the delimiters above a bottom.     *)
(*                                                                         *)
(* A token is a run of delimiters, a bracket or a text.  The number of a   *)
(* token is its position and the identity of the text made from it: the    *)
(* code compares positions only with each other.  Ordinary text between    *)
(* tokens is left out, no step reads it.  What a destination, a label or a *)
(* flanking character looks like is left to the choice of the token.       *)
(***************************************************************************)
EXTENDS SequencesExt, Naturals

CONSTANTS
  MaxTokens,   \* how many tokens a block has at most
  Runs,        \* the delimiter runs: [char, length, can_open, can_close]
  Carets,      \* the lengths of texts that start with '^'
  Closings,    \* the closing brackets: "]", "](u)", "]s" (s: label defined)
  Footnotes    \* CMARK_OPT_FOOTNOTES

ASSUME MaxTokensAssumption == MaxTokens \in Nat
ASSUME FootnotesAssumption == Footnotes \in BOOLEAN

Quotes == {"'", "\""}
Emphases == {"*", "_"}
Extensions == {"~"}     \* special characters of the strikethrough extension
Chars == Quotes \cup Emphases \cup Extensions

Delimiter ==
  [char : Chars, length : Nat \ {0}, can_open : BOOLEAN, can_close : BOOLEAN]

Token == [char : Chars \cup {"^", "[", "!["} \cup Closings, len : Nat]

ASSUME RunsAssumption == Runs \subseteq Delimiter /\ Carets \subseteq Nat

VARIABLES
  input,            \* the tokens scanned so far, as [char, len]
  tree,             \* the inlines: node : id -> [type, char, len], kids : id -> list
  delims,           \* the delimiter stack: position -> run
  brackets,         \* the bracket stack, last bracket last
  no_link_openers,
  call,             \* the process_emphasis call in progress
  done              \* whether cmark_parse_inlines has returned

vars == <<input, tree, delims, brackets, no_link_openers, call, done>>

Block == 0   \* the node whose content is parsed
NULL == 0    \* no delimiter; positions start at 1

NoCall == [after |-> "none"]

Init ==
  /\ input = <<>>
  /\ tree = [node |-> << >>, kids |-> [n \in {Block} |-> <<>>]]
  /\ delims = << >>
  /\ brackets = <<>>
  /\ no_link_openers = FALSE
  /\ call = NoCall
  /\ done = FALSE

-----------------------------------------------------------------------------
(***************************************************************************)
(* The tree.                                                               *)
(***************************************************************************)
ParentOf(t, n) == CHOOSE p \in DOMAIN t.kids : Contains(t.kids[p], n)

Place(t, n) == SelectInSeq(t.kids[ParentOf(t, n)], LAMBDA x : x = n)

\* f, and v at x, which is new.
With(f, x, v) == [y \in DOMAIN f \cup {x} |-> IF y = x THEN v ELSE f[y]]

\* make_str and append_child: a text with the given content ends the block.
AppendText(t, n, c, k) ==
  [node |-> With(t.node, n, [type |-> "text", char |-> c, len |-> k]),
   kids |-> With([t.kids EXCEPT ![Block] = Append(@, n)], n, <<>>)]

\* The siblings after n up to stop, or to the end if stop is not among them.
UpTo(t, n, stop) ==
  LET rest == SubSeq(t.kids[ParentOf(t, n)], Place(t, n) + 1,
                     Len(t.kids[ParentOf(t, n)]))
  IN  IF Contains(rest, stop)
      THEN SubSeq(rest, 1, SelectInSeq(rest, LAMBDA x : x = stop) - 1)
      ELSE rest

\* A new node m right after n, and below it the siblings of n up to stop.
Wrap(t, n, stop, m) ==
  LET list == t.kids[ParentOf(t, n)]
      moved == UpTo(t, n, stop)
      rest == SubSeq(list, Place(t, n) + Len(moved) + 1, Len(list))
      left == SubSeq(list, 1, Place(t, n)) \o <<m>> \o rest
  IN  With([t.kids EXCEPT ![ParentOf(t, n)] = left], m, moved)

\* Mutant: the walk does not stop at the closer.
WrapSelfToEnd(t, n, stop) ==
  LET list == t.kids[ParentOf(t, n)]
  IN  [t.kids EXCEPT ![ParentOf(t, n)] = SubSeq(list, 1, Place(t, n)),
                     ![n] = UpTo(t, n, NULL)]

\* The siblings of n up to stop go below n.
WrapSelf(t, n, stop) ==
  LET list == t.kids[ParentOf(t, n)]
      moved == UpTo(t, n, stop)
      rest == SubSeq(list, Place(t, n) + Len(moved) + 1, Len(list))
  IN  [t.kids EXCEPT ![ParentOf(t, n)] = SubSeq(list, 1, Place(t, n)) \o rest,
                     ![n] = moved]

\* n and what is below it.
Subtree(t, n) ==
  LET Below[x \in DOMAIN t.kids] ==
        {x} \cup UNION {Below[c] : c \in ToSet(t.kids[x])}
  IN  Below[n]

\* cmark_node_free
FreeNode(t, n) ==
  LET gone == Subtree(t, n)
  IN  [node |-> [x \in DOMAIN t.node \ gone |-> t.node[x]],
       kids |-> [x \in DOMAIN t.kids \ gone |-> RemoveFirst(t.kids[x], n)]]

\* cmark_node_free of n and all siblings after it
FreeFrom(t, n) ==
  LET p == ParentOf(t, n)
      list == t.kids[p]
      last == SubSeq(list, Place(t, n), Len(list))
      gone == UNION {Subtree(t, m) : m \in ToSet(last)}
  IN  [node |-> [x \in DOMAIN t.node \ gone |-> t.node[x]],
       kids |-> [x \in DOMAIN t.kids \ gone |->
                   IF x = p THEN SubSeq(list, 1, Place(t, n) - 1) ELSE t.kids[x]]]

\* An address that is not in use: emphasis nodes are no tokens.
NextId(t) == Max(DOMAIN t.node \cup {MaxTokens}) + 1

-----------------------------------------------------------------------------
(***************************************************************************)
(* Scanning (parse_inline).                                                *)
(***************************************************************************)
Scanning == call = NoCall /\ ~done /\ Len(input) < MaxTokens

here == Len(input) + 1

Text(c, k) ==
  /\ input' = Append(input, [char |-> c, len |-> k])
  /\ tree' = AppendText(tree, here, c, k)

PushDelim(r) == With(delims, here, r)

\* handle_delim, and match of the strikethrough extension: the text of the
\* run, and an entry on the stack if it may open or close something.
ScanRun(r) ==
  /\ Scanning
  /\ Text(r.char, r.length)
  /\ delims' = IF (r.can_open \/ r.can_close) /\ (r.char = "~" => r.length <= 2)
               THEN PushDelim(r) ELSE delims
  /\ UNCHANGED <<brackets, no_link_openers, call, done>>

\* "![^" opens no image.
ScanCaret(k) ==
  /\ Scanning
  /\ input # <<>> => Last(input).char # "!["
  /\ Text("^", k)
  /\ UNCHANGED <<delims, brackets, no_link_openers, call, done>>

Top == brackets[Len(brackets)]

PushBracket(image) ==
  Append([i \in DOMAIN brackets |->
            IF i = Len(brackets) THEN [brackets[i] EXCEPT !.bracket_after = TRUE]
            ELSE brackets[i]],
         [image |-> image, position |-> here, bracket_after |-> FALSE])

OpenBracket(image) ==
  /\ Scanning
  /\ Text(IF image THEN "![" ELSE "[", 1)
  /\ brackets' = PushBracket(image)
  /\ no_link_openers' = (image /\ no_link_openers)
  /\ UNCHANGED <<delims, call, done>>

\* process_emphasis up to its loop: the closer is the lowest delimiter at or
\* above the bottom.
Lowest(ds, bottom) ==
  LET above == {p \in DOMAIN ds : p >= bottom}
  IN  IF above = {} THEN NULL ELSE CHOOSE p \in above : \A q \in above : p <= q

ProcessEmphasis(bottom, after) ==
  [after |-> after,
   stack_bottom |-> bottom,
   closer |-> Lowest(delims, bottom),
   openers_bottom |-> [x \in (0 .. 2) \X Chars |->
                         IF x[2] \in Extensions THEN 0 ELSE bottom]]

\* A ']' that closes nothing: no bracket is open, or links are off, or
\* neither a link nor a footnote reference matches.
LiteralClose(closing) ==
  /\ Text(closing, 1)
  /\ brackets' = IF brackets = <<>> THEN brackets ELSE Front(brackets)
  /\ UNCHANGED <<delims, no_link_openers, call, done>>

Inactive == ~Top.image /\ no_link_openers

\* An inline link or full reference always matches, a shortcut reference only
\* if its label has no brackets.
LinkMatches(closing) ==
  \/ closing = "](u)"
  \/ closing = "]s" /\ ~Top.bracket_after

\* The text after the opener starts with '^' and more follows it.
FootnoteMatches ==
  LET after == UpTo(tree, Top.position, NULL)
  IN  /\ Footnotes
      /\ after # <<>>
      /\ tree.node[after[1]].type = "text"
      /\ tree.node[after[1]].char = "^"
      /\ tree.node[after[1]].len > 1 \/ Len(after) > 1

CloseLink(closing) ==
  LET opener == Top.position
      link == [type |-> IF Top.image THEN "image" ELSE "link",
               char |-> closing, len |-> 1]
      made == [node |-> With(tree.node, here, link),
               kids |-> Wrap(tree, opener, NULL, here)]
  IN  /\ input' = Append(input, [char |-> closing, len |-> 1])
      /\ tree' = FreeNode(made, opener)
      /\ call' = ProcessEmphasis(opener, "link")
      /\ UNCHANGED <<delims, brackets, no_link_openers, done>>

\* The reference goes before the opener; its literal is the source from the
\* opener to the closing bracket, len tokens after it.
CloseFootnote(closing) ==
  LET opener == Top.position
      fnref == [type |-> "footnote_reference", char |-> closing,
                len |-> here - opener]
  IN  /\ input' = Append(input, [char |-> closing, len |-> 1])
      /\ tree' = [node |-> With(tree.node, here, fnref),
                  kids |-> With([tree.kids EXCEPT
                                   ![Block] = InsertAt(@, Place(tree, opener), here)],
                                here, <<>>)]
      /\ call' = ProcessEmphasis(opener, "footnote")
      /\ UNCHANGED <<delims, brackets, no_link_openers, done>>

\* handle_close_bracket
CloseBracket(closing) ==
  /\ Scanning
  /\ IF brackets = <<>> \/ Inactive THEN LiteralClose(closing)
     ELSE IF LinkMatches(closing) THEN CloseLink(closing)
     ELSE IF FootnoteMatches THEN CloseFootnote(closing)
     ELSE LiteralClose(closing)

\* The end of the block.
End ==
  /\ call = NoCall
  /\ ~done
  /\ call' = ProcessEmphasis(0, "end")
  /\ UNCHANGED <<input, tree, delims, brackets, no_link_openers, done>>

-----------------------------------------------------------------------------
(***************************************************************************)
(* One turn of the loop of process_emphasis.                               *)
(***************************************************************************)
Processing == call # NoCall /\ call.closer # NULL

Closer == delims[call.closer]

NextDelim(p) == Lowest(delims, p + 1)

\* May o open what c closes?  The third line is the "multiple of 3" rule.
Matches(o, c) ==
  /\ o.can_open
  /\ o.char = c.char
  /\ c.can_open \/ o.can_close =>
       c.length % 3 = 0 \/ (o.length + c.length) % 3 # 0

\* The delimiters from low up that match the closer.
OpenersFrom(low) ==
  {p \in DOMAIN delims : low <= p /\ p < call.closer /\ Matches(delims[p], Closer)}

SearchBottom == call.openers_bottom[<<Closer.length % 3, Closer.char>>]

Openers == OpenersFrom(call.stack_bottom) \cap OpenersFrom(SearchBottom)

RemoveDelims(ps) == [p \in DOMAIN delims \ ps |-> delims[p]]

\* A delimiter that may not close anything.
PassOver ==
  /\ Processing
  /\ ~Closer.can_close
  /\ call' = [call EXCEPT !.closer = NextDelim(@)]
  /\ UNCHANGED <<input, tree, delims, brackets, no_link_openers, done>>

\* Mutant: the bound is kept for all lengths together.
NoOpenerAnyLength ==
  /\ Processing
  /\ Closer.can_close
  /\ Openers = {}
  /\ call' = [call EXCEPT
                !.closer = NextDelim(@),
                !.openers_bottom = [x \in DOMAIN @ |->
                   IF x[2] = Closer.char THEN call.closer ELSE @[x]]]
  /\ delims' = IF Closer.can_open THEN delims ELSE RemoveDelims({call.closer})
  /\ UNCHANGED <<input, tree, brackets, no_link_openers, done>>

\* Mutant: the search starts again from the same closer.
NoOpenerStays ==
  /\ Processing
  /\ Closer.can_close
  /\ Openers = {}
  /\ call' = [call EXCEPT !.openers_bottom[<<Closer.length % 3, Closer.char>>] = call.closer]
  /\ UNCHANGED <<input, tree, delims, brackets, no_link_openers, done>>

NoOpener ==
  /\ Processing
  /\ Closer.can_close
  /\ Openers = {}
  /\ call' = [call EXCEPT
                !.closer = NextDelim(@),
                !.openers_bottom[<<Closer.length % 3, Closer.char>>] = call.closer]
  /\ delims' = IF Closer.can_open THEN delims ELSE RemoveDelims({call.closer})
  /\ UNCHANGED <<input, tree, brackets, no_link_openers, done>>

\* The two texts of a match that have no more than the markers it uses.
UsedUp(o, c, used) == {p \in {o, c} : tree.node[p].len = used}

\* Mutant: the delimiters between the two are left on the stack.
SpentKeepsInner(o, c, used) == UsedUp(o, c, used)

\* The delimiters S_insert_emph takes off the stack.
Spent(o, c, used) == {p \in DOMAIN delims : o < p /\ p < c} \cup UsedUp(o, c, used)

\* S_insert_emph: a new node e between the two, which lose the markers it uses.
Emphasized(t, o, c, used, e) ==
  [node |-> With([t.node EXCEPT ![o].len = @ - used, ![c].len = @ - used], e,
                 [type |-> IF used = 1 THEN "emph" ELSE "strong",
                  char |-> Closer.char, len |-> used]),
   kids |-> Wrap(t, o, c, e)]

InsertEmph(o, c) ==
  LET used == IF tree.node[o].len >= 2 /\ tree.node[c].len >= 2 THEN 2 ELSE 1
      gone == UsedUp(o, c, used)
  IN  /\ \E e \in {NextId(tree)} : \E t \in {Emphasized(tree, o, c, used, e)} :
           \E u \in {IF o \in gone THEN FreeNode(t, o) ELSE t} :
             tree' = IF c \in gone THEN FreeNode(u, c) ELSE u
      /\ delims' = RemoveDelims(Spent(o, c, used))
      /\ call' = IF c \in gone THEN [call EXCEPT !.closer = NextDelim(@)] ELSE call
      /\ UNCHANGED <<input, brackets, no_link_openers, done>>

\* insert of the strikethrough extension: the opener's text becomes the
\* container.  The delimiters are spent even if the lengths differ.
InsertStrikethrough(o, c) ==
  /\ tree' = IF tree.node[o].len = tree.node[c].len
             THEN FreeNode([node |-> [tree.node EXCEPT ![o].type = "strikethrough"],
                            kids |-> WrapSelf(tree, o, c)], c)
             ELSE tree
  /\ delims' = RemoveDelims({p \in DOMAIN delims : o <= p /\ p <= c})
  /\ call' = [call EXCEPT !.closer = NextDelim(@)]
  /\ UNCHANGED <<input, brackets, no_link_openers, done>>

\* Quotes only change their glyphs and leave what is between them alone.
PairQuotes(o, c) ==
  /\ delims' = RemoveDelims({o, c})
  /\ call' = [call EXCEPT !.closer = NextDelim(@)]
  /\ UNCHANGED <<input, tree, brackets, no_link_openers, done>>

Match ==
  /\ Processing
  /\ Closer.can_close
  /\ \E opener \in Openers :
       /\ \A p \in Openers : p <= opener
       /\ \/ Closer.char \in Extensions /\ InsertStrikethrough(opener, call.closer)
          \/ Closer.char \in Emphases /\ InsertEmph(opener, call.closer)
          \/ Closer.char \in Quotes /\ PairQuotes(opener, call.closer)

\* What follows the loop: the delimiters above the bottom go, and the caller
\* finishes.
Return ==
  /\ call # NoCall
  /\ call.closer = NULL
  /\ delims' = RemoveDelims({p \in DOMAIN delims : p >= call.stack_bottom})
  /\ call' = NoCall
  /\ done' = (call.after = "end")
  /\ brackets' = CASE call.after = "end" -> <<>>
                   [] OTHER -> Front(brackets)
  /\ no_link_openers' = (no_link_openers \/ (call.after = "link" /\ ~Top.image))
  /\ tree' = IF call.after = "footnote" THEN FreeFrom(tree, Top.position) ELSE tree
  /\ UNCHANGED input

Next ==
  \/ \E r \in Runs : ScanRun(r)
  \/ \E k \in Carets : ScanCaret(k)
  \/ \E image \in BOOLEAN : OpenBracket(image)
  \/ \E closing \in Closings : CloseBracket(closing)
  \/ End
  \/ PassOver
  \/ NoOpener
  \/ Match
  \/ Return

Spec == Init /\ [][Next]_vars

\* cmark_parse_inlines runs to its end without waiting for anyone.
FairSpec == Spec /\ WF_vars(Next)

-----------------------------------------------------------------------------
(***************************************************************************)
(* Properties.                                                             *)
(***************************************************************************)
\* Every stack entry, node and call has its type.
TypeOK ==
  /\ input \in Seq(Token)
  /\ DOMAIN tree.kids = DOMAIN tree.node \cup {Block}
  /\ \A n \in DOMAIN tree.kids : ToSet(tree.kids[n]) \subseteq DOMAIN tree.node
  /\ \A p \in DOMAIN delims : p \in 1 .. Len(input) /\ delims[p] \in Delimiter
  /\ \A i \in DOMAIN brackets : brackets[i].position \in 1 .. Len(input)
  /\ no_link_openers \in BOOLEAN
  /\ done \in BOOLEAN
  /\ call # NoCall => call.closer \in DOMAIN delims \cup {NULL}

\* A delimiter's text is allocated, still a text and not used up; those a
\* search may pair are children of one node, in the order of the stack.
\* S_insert_emph relies on it when it walks from the opener to the closer.
\* Until the end of the block, a bracket's text is allocated and a child of the
\* block, in the order of the stack (that of a link being made is freed before
\* its bracket is popped).
StackMatchesTree ==
  LET together(p, q) ==
        call = NoCall \/ (p >= call.stack_bottom <=> q >= call.stack_bottom)
  IN  /\ \A p \in DOMAIN delims :
           /\ p \in DOMAIN tree.node
           /\ tree.node[p].type = "text" /\ tree.node[p].len > 0
      /\ \A p, q \in DOMAIN delims : p < q /\ together(p, q) =>
           /\ ParentOf(tree, p) = ParentOf(tree, q)
           /\ Place(tree, p) < Place(tree, q)
      /\ LET open == {i \in DOMAIN brackets : ~(call.after = "link" /\ i = Len(brackets))}
         IN  call.after # "end" => \A i, j \in open :
               /\ Contains(tree.kids[Block], brackets[i].position)
               /\ i < j => Place(tree, brackets[i].position) < Place(tree, brackets[j].position)

Repeat(c, k) == [i \in 1 .. k |-> c]

Source(from, to) ==
  FlattenSeq([i \in 1 .. (to - from + 1) |->
                Repeat(input[from + i - 1].char, input[from + i - 1].len)])

\* The source a node stands for.
Written(t) ==
  LET W[n \in DOMAIN t.kids] ==
        LET inner == FlattenSeq([i \in DOMAIN t.kids[n] |-> W[t.kids[n][i]]])
            r == t.node[n]
        IN  IF n = Block THEN inner
            ELSE CASE r.type = "text" -> Repeat(r.char, r.len)
                   [] r.type \in {"emph", "strong", "strikethrough"} ->
                        Repeat(r.char, r.len) \o inner \o Repeat(r.char, r.len)
                   [] r.type = "link" -> <<"[">> \o inner \o <<r.char>>
                   [] r.type = "image" -> <<"![">> \o inner \o <<r.char>>
                   [] r.type = "footnote_reference" -> Source(n - r.len, n)
  IN  W[Block]

\* Nothing is lost, doubled or reordered: written out again, with the markers
\* of each emphasis around it, the inlines are the source.  (While a footnote
\* reference is being made, its text is in the tree twice.)
SourceKept ==
  (call = NoCall \/ call.after # "footnote") => Written(tree) = Source(1, Len(input))

\* The bound on a search loses no opener of a closer that can also open: the
\* run that set it was subject to the rule of 3 at most as much.  (A closer that
\* cannot open may be less subject to it than that run, and lose one.)
SearchComplete ==
  (Processing /\ Closer.can_close /\ Closer.can_open)
    => (Openers = {} => OpenersFrom(call.stack_bottom) = {})

\* Every block is parsed to its end: each turn of the loop takes a delimiter
\* off, shortens two texts or moves the closer on.
Parsed == <>done
=============================================================================
