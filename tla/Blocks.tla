------------------------------- MODULE Blocks -------------------------------
(***************************************************************************)
(* The block phase of the parser (blocks.c): lines come in one by one, and *)
(* each is matched against the prefixes of the open blocks, may open new   *)
(* blocks, and leaves the rest of its text in the deepest of them.         *)
(*                                                                         *)
(* A line is its prefixes, read from the left, and the kind of what        *)
(* follows.  One "  " is two columns, so that a bullet with the space      *)
(* after it is as wide and two of them make code; there are no tabs.       *)
(***************************************************************************)
EXTENDS SequencesExt, Naturals

CONSTANTS
  Lines,           \* the lines a document is made of: [prefix, kind]
  MaxLines,        \* how many lines a document has at most
  MaxListDepth,    \* MAX_LIST_DEPTH: how many blocks one line opens
  HtmlBlankLines,  \* CMARK_OPT_HTML_BLOCK_BLANK_LINES
  Footnotes        \* CMARK_OPT_FOOTNOTES

ASSUME MaxLinesAssumption == MaxLines \in Nat
ASSUME OptionsAssumption == HtmlBlankLines \in BOOLEAN /\ Footnotes \in BOOLEAN

Indent == "  "
Quote == ">"
Bullets == {"+", "*"}
Footnote == "[^a]:"
Kinds == {"text", "blank", "heading", "fence", "setext", "rule", "reference",
          "div", "comment", "comment end"}

ASSUME LinesAssumption ==
  Lines \subseteq [prefix : Seq({Indent, Quote, Footnote} \cup Bullets), kind : Kinds]

VARIABLES
  block,         \* the blocks: address -> record
  kids,          \* address -> the addresses of the children
  current,       \* parser->current
  line_number,
  phase,         \* what S_process_line is doing
  rest,          \* the line from parser->offset on
  container,
  last_matched,  \* last_matched_container
  all_matched,
  maybe_lazy,
  depth,
  refmap,        \* the lines taken as link reference definitions
  read           \* the lines read so far

reading == <<rest, container, last_matched, all_matched, maybe_lazy, depth>>
vars == <<block, kids, current, line_number, phase, reading, refmap, read>>

Root == 1
NULL == 0

AcceptsLines == {"paragraph", "heading", "code_block"}

\* make_block
Made(type, line) ==
  [type |-> type, open |-> TRUE, last_line_blank |-> FALSE, checked |-> FALSE,
   tight |-> FALSE, start_line |-> line, end_line |-> line, content |-> <<>>,
   bullet |-> "", marker_offset |-> 0, padding |-> 0, fenced |-> FALSE,
   setext |-> FALSE, html |-> 0, indent |-> 0]

Init ==
  /\ block = [n \in {Root} |-> Made("document", 1)]
  /\ kids = [n \in {Root} |-> <<>>]
  /\ current = Root
  /\ line_number = 0
  /\ phase = "idle"
  /\ rest = [prefix |-> <<>>, kind |-> "blank"]
  /\ container = Root /\ last_matched = Root
  /\ all_matched = TRUE /\ maybe_lazy = FALSE /\ depth = 0
  /\ refmap = {}
  /\ read = <<>>

-----------------------------------------------------------------------------
(***************************************************************************)
(* The rest of the line.                                                   *)
(***************************************************************************)

\* S_find_first_nonspace: the indentation of a line, and the line after it.
Indentation(l) ==
  CHOOSE i \in 0 .. Len(l.prefix) :
    /\ \A j \in 1 .. i : l.prefix[j] = Indent
    /\ i < Len(l.prefix) => l.prefix[i + 1] # Indent

Skip(l, n) == [l EXCEPT !.prefix = SubSeq(@, n + 1, Len(@))]

FromNonspace(l) == Skip(l, Indentation(l))

IsBlank(l) == FromNonspace(l) = [prefix |-> <<>>, kind |-> "blank"]

indent == Indentation(rest)
indented == indent >= 2
blank == IsBlank(rest)

StartsWith(ts) ==
  FromNonspace(rest).prefix # <<>> /\ FromNonspace(rest).prefix[1] \in ts

IsKind(k) == FromNonspace(rest) = [prefix |-> <<>>, kind |-> k]

-----------------------------------------------------------------------------
(***************************************************************************)
(* The tree of blocks, as a record with what is taken out of it.           *)
(***************************************************************************)
Tree == [block |-> block, kids |-> kids, refs |-> refmap]

Becomes(t) == block' = t.block /\ kids' = t.kids /\ refmap' = t.refs

ParentOf(t, n) ==
  IF n = Root THEN NULL ELSE CHOOSE p \in DOMAIN t.kids : Contains(t.kids[p], n)

CanContain(p, c) ==
  IF c = "item" THEN p = "list"
  ELSE p \in {"document", "block_quote", "item", "footnote_definition"}

\* resolve_reference_link_definitions: how many lines at the start of a
\* paragraph are definitions.
Definitions(content) ==
  CHOOSE i \in 0 .. Len(content) :
    /\ \A j \in 1 .. i : content[j].reference
    /\ i < Len(content) => ~content[i + 1].reference

\* Mutant: the definitions are left in the paragraph.
ResolvedKept(t, n) ==
  LET c == t.block[n].content
  IN  [t EXCEPT !.refs = @ \cup {c[i].line : i \in 1 .. Definitions(c)}]

Resolved(t, n) ==
  LET c == t.block[n].content
      k == Definitions(c)
  IN  [t EXCEPT !.block[n].content = SubSeq(c, k + 1, Len(c)),
                !.refs = @ \cup {c[i].line : i \in 1 .. k}]

\* S_ends_with_blank_line: the blocks it looks at, each the last child of the
\* one before; it answers for the last of them.
Chain(t, n) ==
  LET Down[m \in DOMAIN t.block] ==
        IF /\ ~t.block[m].checked
           /\ t.block[m].type \in {"list", "item"}
           /\ t.kids[m] # <<>>
        THEN <<m>> \o Down[Last(t.kids[m])] ELSE <<m>>
  IN  Down[n]

EndsWithBlankLine(t, n) == t.block[Last(Chain(t, n))].last_line_blank

\* finalize, case CMARK_NODE_LIST.  A place is an item, or an item and one of
\* its children, in the order in which they are looked at.
Places(t, n) ==
  FlattenSeq([i \in DOMAIN t.kids[n] |->
    <<<<i, 0>>>> \o [j \in DOMAIN t.kids[t.kids[n][i]] |-> <<i, j>>]])

\* Mutant: the last item counts like the others.
LoosePlaceLast(t, n, p) ==
  LET item == t.kids[n][p[1]]
  IN  IF p[2] = 0 THEN t.block[item].last_line_blank
      ELSE EndsWithBlankLine(t, t.kids[item][p[2]])

LoosePlace(t, n, p) ==
  LET item == t.kids[n][p[1]]
  IN  IF p[2] = 0
      THEN t.block[item].last_line_blank /\ p[1] < Len(t.kids[n])
      ELSE /\ p[1] < Len(t.kids[n]) \/ p[2] < Len(t.kids[item])
           /\ EndsWithBlankLine(t, t.kids[item][p[2]])

\* The first place that makes the list loose, or 0.
FirstLoose(t, n) == SelectInSeq(Places(t, n), LAMBDA p : LoosePlace(t, n, p))

\* The blocks that S_ends_with_blank_line looks at until then.
Checked(t, n) ==
  LET places == Places(t, n)
      loose == FirstLoose(t, n)
      seen == SubSeq(places, 1, IF loose = 0 THEN Len(places) ELSE loose)
      asked == {p \in ToSet(seen) :
                  /\ p[2] # 0
                  /\ p[1] < Len(t.kids[n]) \/ p[2] < Len(t.kids[t.kids[n][p[1]]])}
  IN  UNION {ToSet(Chain(t, t.kids[t.kids[n][p[1]]][p[2]])) : p \in asked}

Judged(t, n) ==
  [t EXCEPT !.block = [m \in DOMAIN t.block |->
     IF m = n THEN [t.block[n] EXCEPT !.tight = (FirstLoose(t, n) = 0)]
     ELSE IF m \in Checked(t, n) THEN [t.block[m] EXCEPT !.checked = TRUE]
     ELSE t.block[m]]]

\* S_node_unlink: the list of siblings without n.
Without(list, n) ==
  IF Contains(list, n) THEN RemoveAt(list, CHOOSE i \in DOMAIN list : list[i] = n) ELSE list

Removed(t, n) ==
  [t EXCEPT !.block = [m \in DOMAIN t.block \ {n} |-> t.block[m]],
            !.kids = [m \in DOMAIN t.kids \ {n} |-> Without(t.kids[m], n)]]

\* S_ends_on_current_line
EndsOnCurrentLine(r) ==
  \/ r.type = "document"
  \/ r.type = "code_block" /\ r.fenced
  \/ r.type = "heading" /\ r.setext
  \/ r.html \in 1 .. 5
  \/ r.start_line = line_number

\* finalize.  In the end no line is being read.
Finalized(t, n) ==
  LET r == t.block[n]
      last == IF phase = "finish" \/ EndsOnCurrentLine(r)
              THEN line_number ELSE line_number - 1
      closed == [t EXCEPT !.block[n] = [r EXCEPT !.open = FALSE, !.end_line = last]]
  IN  CASE r.type = "paragraph" ->
             LET left == Resolved(closed, n)
             IN  IF left.block[n].content = <<>> THEN Removed(left, n) ELSE left
        [] r.type = "list" -> Judged(closed, n)
        [] OTHER -> closed

\* add_child: the new block r goes below n, or below the nearest ancestor that
\* can contain it; the blocks in between are finalized.  The document can
\* contain all but items, which are only added to lists.
Acceptor(t, n, type) ==
  LET Up[m \in DOMAIN t.block] ==
        IF m = Root \/ CanContain(t.block[m].type, type) THEN <<m>>
        ELSE <<m>> \o Up[ParentOf(t, m)]
  IN  Up[n]

\* The lowest free address is used: one that was freed is used again at once.
FreeAddress(t) ==
  CHOOSE a \in 1 .. Cardinality(DOMAIN t.block) + 1 :
    /\ a \notin DOMAIN t.block
    /\ \A c \in 1 .. a - 1 : c \in DOMAIN t.block

Put(f, a, x) == [n \in DOMAIN f \cup {a} |-> IF n = a THEN x ELSE f[n]]

AddChild(t, n, r) ==
  LET path == Acceptor(t, n, r.type)
      parent == Last(path)
      u == FoldLeft(Finalized, t, Front(path))
      a == FreeAddress(u)
  IN  [u EXCEPT !.block = Put(u.block, a, r),
                !.kids = Put(Put(u.kids, parent, Append(u.kids[parent], a)), a, <<>>)]

\* The block AddChild adds: the last child of the node that took it.
Added(t, n, r) == FreeAddress(FoldLeft(Finalized, t, Front(Acceptor(t, n, r.type))))

-----------------------------------------------------------------------------
(***************************************************************************)
(* S_process_line.                                                         *)
(***************************************************************************)
ReadLine(l) ==
  /\ phase = "idle"
  /\ line_number < MaxLines
  /\ line_number' = line_number + 1
  /\ read' = Append(read, l)
  /\ rest' = l
  /\ phase' = "match"
  /\ container' = Root
  /\ UNCHANGED <<block, kids, current, last_matched, all_matched, maybe_lazy,
                 depth, refmap>>

\* check_open_blocks.
Below == Last(kids[container])

HasOpenChild == kids[container] # <<>> /\ block[Below].open

\* Does the line continue block n (parse_*_prefix), and what is left of it then?
Continues(n) ==
  LET r == block[n]
  IN  CASE r.type = "block_quote" -> ~indented /\ StartsWith({Quote})
        [] r.type = "item" ->
             indent >= r.marker_offset + r.padding \/ (blank /\ kids[n] # <<>>)
        [] r.type = "code_block" -> r.fenced \/ indented \/ blank
        [] r.type = "heading" -> FALSE
        [] r.type = "html_block" ->
             \/ r.html <= 5
             \/ ~HtmlBlankLines /\ ~blank
             \/ HtmlBlankLines /\
                  (blank \/ ~r.last_line_blank \/ (indent > 0 /\ indent >= r.indent))
        [] r.type = "paragraph" -> ~blank
        [] r.type = "footnote_definition" ->
             indented \/ read[line_number] = [prefix |-> <<>>, kind |-> "blank"]
        [] OTHER -> TRUE

After(n) ==
  LET r == block[n]
  IN  CASE r.type = "block_quote" -> Skip(rest, indent + 1)
        [] r.type = "item" ->
             IF indent >= r.marker_offset + r.padding
             THEN Skip(rest, r.marker_offset + r.padding) ELSE FromNonspace(rest)
        [] r.type = "code_block" /\ ~r.fenced ->
             IF indented THEN Skip(rest, 2) ELSE FromNonspace(rest)
        [] r.type = "code_block" /\ r.fenced ->
             Skip(rest, IF indent < r.indent THEN indent ELSE r.indent)
        [] r.type = "footnote_definition" -> IF indented THEN Skip(rest, 2) ELSE rest
        [] OTHER -> rest

\* The content indentation of an HTML block, kept for its blank lines.
HtmlIndent(r) ==
  IF HtmlBlankLines /\ r.html > 5 /\ ~blank /\ indent > 0
     /\ (r.indent = 0 \/ (~r.last_line_blank /\ indent < r.indent))
  THEN indent ELSE r.indent

ClosesFence(n) ==
  block[n].type = "code_block" /\ block[n].fenced /\ ~indented /\ IsKind("fence")

Descend ==
  /\ phase = "match"
  /\ HasOpenChild
  /\ ~ClosesFence(Below)
  /\ Continues(Below)
  /\ container' = Below
  /\ rest' = After(Below)
  /\ block' = [block EXCEPT ![Below].indent =
                 IF block[Below].type = "html_block" THEN HtmlIndent(block[Below]) ELSE @]
  /\ UNCHANGED <<kids, current, line_number, phase, last_matched, all_matched,
                 maybe_lazy, depth, refmap, read>>

\* Mutant: the closed block stays the current one.
CloseFenceCurrent ==
  /\ phase = "match"
  /\ HasOpenChild
  /\ ClosesFence(Below)
  /\ Becomes(Finalized(Tree, Below))
  /\ phase' = "idle"
  /\ UNCHANGED <<current, line_number, reading, read>>

CloseFence ==
  /\ phase = "match"
  /\ HasOpenChild
  /\ ClosesFence(Below)
  /\ Becomes(Finalized(Tree, Below))
  /\ current' = container
  /\ phase' = "idle"
  /\ UNCHANGED <<line_number, reading, read>>

Matched ==
  /\ phase = "match"
  /\ HasOpenChild => ~ClosesFence(Below) /\ ~Continues(Below)
  /\ last_matched' = container
  /\ all_matched' = ~HasOpenChild
  /\ maybe_lazy' = (block[current].type = "paragraph")
  /\ depth' = 1
  /\ phase' = "open"
  /\ UNCHANGED <<block, kids, current, line_number, rest, container, refmap, read>>

-----------------------------------------------------------------------------
(***************************************************************************)
(* open_new_blocks: what the rest of the line starts, if anything.         *)
(***************************************************************************)
type == block[container].type

Start ==
  CASE ~indented /\ StartsWith({Quote}) -> "block_quote"
    [] ~indented /\ IsKind("heading") -> "heading"
    [] ~indented /\ IsKind("fence") -> "fence"
    [] ~indented /\ (IsKind("div") \/ IsKind("comment")) -> "html_block"
    [] ~indented /\ IsKind("setext") /\ type = "paragraph" -> "setext"
    [] ~indented /\ IsKind("rule") /\ (type = "paragraph" => all_matched) -> "rule"
    [] /\ ~indented /\ StartsWith({Footnote})
       /\ Footnotes /\ depth < MaxListDepth -> "footnote_definition"
    [] /\ ~indented /\ StartsWith(Bullets) /\ depth < MaxListDepth
       /\ type = "paragraph" => ~IsBlank(Skip(FromNonspace(rest), 1)) -> "item"
    [] indented /\ ~maybe_lazy /\ ~blank -> "code_block"
    [] OTHER -> "none"

Nothing == [prefix |-> <<>>, kind |-> "blank"]

\* One turn of the loop, if it opens r below container and leaves the line l.
Open(t, n, r, l) ==
  /\ Becomes(AddChild(t, n, r))
  /\ container' = Added(t, n, r)
  /\ rest' = l
  /\ maybe_lazy' = FALSE
  /\ depth' = depth + 1
  /\ phase' = IF r.type \in AcceptsLines THEN "text" ELSE "open"
  /\ UNCHANGED <<current, line_number, last_matched, all_matched, read>>

MayOpen(what) ==
  /\ phase = "open"
  /\ type \notin {"code_block", "html_block"}
  /\ Start = what

OpenQuote ==
  /\ MayOpen("block_quote")
  /\ Open(Tree, container, Made("block_quote", line_number), Skip(rest, indent + 1))

OpenHeading ==
  /\ MayOpen("heading")
  /\ Open(Tree, container, Made("heading", line_number), [Nothing EXCEPT !.kind = "text"])

OpenFence ==
  /\ MayOpen("fence")
  /\ Open(Tree, container,
          [Made("code_block", line_number) EXCEPT !.fenced = TRUE, !.indent = indent],
          Nothing)

OpenHtml ==
  /\ MayOpen("html_block")
  /\ Open(Tree, container,
          [Made("html_block", line_number) EXCEPT !.html = IF IsKind("comment") THEN 2 ELSE 6],
          rest)

OpenRule ==
  /\ MayOpen("rule")
  /\ Open(Tree, container, Made("thematic_break", line_number), Nothing)

OpenFootnote ==
  /\ MayOpen("footnote_definition")
  /\ Open(Tree, container, Made("footnote_definition", line_number),
          FromNonspace(Skip(FromNonspace(rest), 1)))

\* Text more than one unit after the bullet is an indented code.
OpenItem ==
  LET after == Skip(FromNonspace(rest), 1)
      wide == Indentation(after) = 1 /\ ~IsBlank(after)
      bullet == FromNonspace(rest).prefix[1]
      r == [Made("item", line_number) EXCEPT
              !.bullet = bullet, !.marker_offset = indent, !.padding = IF wide THEN 2 ELSE 1]
      list == [r EXCEPT !.type = "list"]
      l == IF wide THEN Skip(after, 1) ELSE after
  IN  /\ MayOpen("item")
      /\ IF type = "list" /\ block[container].bullet = bullet
         THEN Open(Tree, container, r, l)
         ELSE Open(AddChild(Tree, container, list), Added(Tree, container, list), r, l)

OpenCode ==
  /\ MayOpen("code_block")
  /\ Open(Tree, container, Made("code_block", line_number), Skip(rest, 2))

\* The paragraph becomes a heading, unless it only had reference definitions.
SetextHeading ==
  LET t == Resolved(Tree, container)
      left == t.block[container].content # <<>>
  IN  /\ MayOpen("setext")
      /\ Becomes(IF left
                 THEN [t EXCEPT !.block[container] =
                         [@ EXCEPT !.type = "heading", !.setext = TRUE]]
                 ELSE t)
      /\ rest' = IF left THEN Nothing ELSE rest
      /\ phase' = "text"
      /\ UNCHANGED <<current, line_number, container, last_matched, all_matched,
                     maybe_lazy, depth, read>>

OpenNothing ==
  /\ phase = "open"
  /\ type \in {"code_block", "html_block"} \/ Start = "none"
  /\ phase' = "text"
  /\ UNCHANGED <<block, kids, current, line_number, reading, refmap, read>>

-----------------------------------------------------------------------------
(***************************************************************************)
(* add_text_to_container.                                                  *)
(***************************************************************************)
Ancestors(n) ==
  LET Above[m \in DOMAIN block] ==
        IF m = Root THEN {} ELSE {ParentOf(Tree, m)} \cup Above[ParentOf(Tree, m)]
  IN  Above[n]

LastLineBlank(n) ==
  LET r == block[n]
  IN  /\ blank
      /\ r.type \notin {"block_quote", "heading", "thematic_break"}
      /\ ~(r.type = "code_block" /\ r.fenced)
      /\ ~(r.type = "item" /\ kids[n] = <<>> /\ r.start_line = line_number)

\* Mutant: lines that open blocks count as well.
IsLazyAnywhere ==
  current # last_matched /\ ~blank /\ block[current].type = "paragraph"

IsLazy ==
  /\ current # last_matched
  /\ container = last_matched
  /\ ~blank
  /\ block[current].type = "paragraph"

MarkBlank ==
  /\ phase = "text"
  /\ block' = [n \in DOMAIN block |->
       IF n = container THEN [block[n] EXCEPT !.last_line_blank = LastLineBlank(n)]
       ELSE IF n \in Ancestors(container) THEN [block[n] EXCEPT !.last_line_blank = FALSE]
       ELSE IF blank /\ kids[container] # <<>> /\ n = Last(kids[container])
       THEN [block[n] EXCEPT !.last_line_blank = TRUE]
       ELSE block[n]]
  /\ phase' = IF IsLazy THEN "lazy" ELSE "close"
  /\ UNCHANGED <<kids, current, line_number, reading, refmap, read>>

\* add_line
Line(l) == [line |-> line_number, reference |-> l = [Nothing EXCEPT !.kind = "reference"]]

WithLine(t, n, l) == [t EXCEPT !.block[n].content = Append(@, Line(l))]

LazyContinuation ==
  /\ phase = "lazy"
  /\ Becomes(WithLine(Tree, current, rest))
  /\ phase' = "idle"
  /\ UNCHANGED <<current, line_number, reading, read>>

CloseUnmatched ==
  /\ phase = "close"
  /\ current # last_matched
  /\ Becomes(Finalized(Tree, current))
  /\ current' = ParentOf(Tree, current)
  /\ UNCHANGED <<line_number, phase, reading, read>>

AddText ==
  LET n == container
      text == WithLine(Tree, n, FromNonspace(rest))
      para == [Made("paragraph", line_number) EXCEPT !.content = <<Line(FromNonspace(rest))>>]
      done(t, m) == Becomes(t) /\ current' = m
  IN  /\ phase = "close"
      /\ current = last_matched
      /\ CASE type = "code_block" -> done(WithLine(Tree, n, rest), n)
           [] type = "html_block" ->
                IF block[n].html = 2 /\ rest.kind = "comment end"
                THEN done(Finalized(WithLine(Tree, n, rest), n), ParentOf(Tree, n))
                ELSE done(WithLine(Tree, n, rest), n)
           [] type \notin {"code_block", "html_block"} /\ blank -> done(Tree, n)
           [] type \in {"paragraph", "heading"} /\ ~blank -> done(text, n)
           [] OTHER -> done(AddChild(Tree, n, para), Added(Tree, n, para))
      /\ phase' = "idle"
      /\ UNCHANGED <<line_number, reading, read>>

-----------------------------------------------------------------------------
(***************************************************************************)
(* finalize_document.                                                      *)
(***************************************************************************)
Finish ==
  /\ phase = "idle"
  /\ phase' = "finish"
  /\ UNCHANGED <<block, kids, current, line_number, reading, refmap, read>>

FinalizeDocument ==
  /\ phase = "finish"
  /\ Becomes(Finalized(Tree, current))
  /\ current' = IF current = Root THEN Root ELSE ParentOf(Tree, current)
  /\ phase' = IF current = Root THEN "done" ELSE "finish"
  /\ UNCHANGED <<line_number, reading, read>>

Next ==
  \/ \E l \in Lines : ReadLine(l)
  \/ Descend \/ CloseFence \/ Matched
  \/ OpenQuote \/ OpenHeading \/ OpenFence \/ OpenHtml \/ OpenRule
  \/ OpenFootnote \/ OpenItem \/ OpenCode \/ SetextHeading \/ OpenNothing
  \/ MarkBlank \/ LazyContinuation \/ CloseUnmatched \/ AddText
  \/ Finish \/ FinalizeDocument

Spec == Init /\ [][Next]_vars

-----------------------------------------------------------------------------
(***************************************************************************)
(* Properties.                                                             *)
(***************************************************************************)

\* Blocks are records, children lists partition them.
TypeOK ==
  /\ DOMAIN kids = DOMAIN block
  /\ \A n \in DOMAIN block :
       /\ block[n].type \in AcceptsLines \cup {"document", "block_quote", "list", "item",
            "html_block", "thematic_break", "footnote_definition"}
       /\ ToSet(kids[n]) \subseteq DOMAIN block \ {Root}
       /\ n # Root => Cardinality({p \in DOMAIN kids : Contains(kids[p], n)}) = 1
  /\ line_number = Len(read)
  /\ refmap \subseteq 1 .. line_number

\* The assertions of finalize and add_line: they only ever see allocated, open
\* blocks, although a paragraph of definitions is freed while parser->current
\* and last_matched_container still lead to it.
AssertionsHold ==
  /\ phase \in {"open", "text", "close"} => container \in DOMAIN block /\ block[container].open
  /\ phase \in {"open", "text", "close"} /\ current # last_matched =>
       current \in DOMAIN block /\ block[current].open
  /\ phase \in {"lazy", "finish"} => current \in DOMAIN block /\ block[current].open

\* Between two lines the open blocks are the ones on the path to
\* parser->current, each the last child of its parent: check_open_blocks finds
\* them by following last_child.
OpenPath ==
  phase = "idle" =>
    /\ {n \in DOMAIN block : block[n].open} = {current} \cup Ancestors(current)
    /\ \A n \in ({current} \cup Ancestors(current)) \ {Root} :
         n = Last(kids[ParentOf(Tree, n)])

\* The lines in a block.
LinesOf(n) == {block[n].content[i].line : i \in DOMAIN block[n].content}

\* Does m stand before n?  The ways up from them meet at a block p, as two of
\* its children.
Before(m, n) ==
  LET a == {m} \cup Ancestors(m)
      b == {n} \cup Ancestors(n)
  IN  \E p \in a \cap b : \E i, j \in DOMAIN kids[p] :
        i < j /\ kids[p][i] \in a /\ kids[p][j] \in b

\* The text of a document stays in order, and each line of it ends up in one
\* place: in a block without children, or among the definitions (whose
\* paragraphs are freed).
LinesInOrder ==
  /\ \A n \in DOMAIN block :
       /\ \A i, j \in DOMAIN block[n].content :
            i < j => block[n].content[i].line < block[n].content[j].line
       /\ LinesOf(n) # {} => kids[n] = <<>>
       /\ LinesOf(n) \cap refmap = {}
  /\ \A m, n \in {n \in DOMAIN block : LinesOf(n) # {}} : m # n =>
       /\ LinesOf(m) \cap LinesOf(n) = {}
       /\ (\E x \in LinesOf(m), y \in LinesOf(n) : x > y) => ~Before(m, n)
  /\ phase \in {"idle", "finish", "done"} =>
       \A i \in 1 .. line_number :
         read[i].kind \in {"text", "reference"} =>
           i \in refmap \cup UNION {LinesOf(n) : n \in DOMAIN block}

\* A line that is blank for the children of n: no markers but those of the
\* quotes around it.
Quotes(n) == Cardinality({m \in {n} \cup Ancestors(n) : block[m].type = "block_quote"})

BlankFor(n, i) ==
  /\ read[i].kind = "blank"
  /\ \A j \in DOMAIN read[i].prefix : read[i].prefix[j] \in {Indent, Quote}
  /\ Len(SelectSeq(read[i].prefix, LAMBDA x : x = Quote)) <= Quotes(n)

InFence(line) ==
  \E n \in DOMAIN block :
    block[n].fenced /\ \E i \in DOMAIN block[n].content : block[n].content[i].line = line

\* Is the i-th child of n after a blank line, the lines in skipped aside?
Apart(n, i, skipped) ==
  LET start == block[kids[n][i]].start_line
  IN  \E j \in 1 .. start - 1 :
        /\ BlankFor(n, j)
        /\ ~InFence(j)
        /\ \A k \in j + 1 .. start - 1 : k \in skipped

Loose(list, skipped) ==
  \E n \in {list} \cup ToSet(kids[list]) : \E i \in 2 .. Len(kids[n]) : Apart(n, i, skipped)

Lists == {n \in DOMAIN block : block[n].type = "list"}

\* fixtures/spec.txt, lists: "A list is loose if any of its constituent list
\* items are separated by blank lines, or if any of its constituent list items
\* directly contain two block-level elements with a blank line between them.
\* Otherwise a list is tight."  finalize decides it by the blank line flags;
\* they say the same, whatever closed the list, unless a definition was taken
\* out of it: what stood before the definition and after it can be far apart.
TightAsSpecified ==
  phase = "done" =>
    \A n \in Lists :
      /\ Loose(n, {}) => ~block[n].tight
      /\ ~Loose(n, {}) /\ refmap \cap block[n].start_line .. block[n].end_line = {} =>
           block[n].tight
=============================================================================
