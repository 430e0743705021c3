--------------------------- MODULE CommonmarkReads ---------------------------
(***************************************************************************)
(* What the CommonMark renderer promises: its output reads back as what    *)
(* was rendered, and lines are broken where and only where they must be.   *)
(***************************************************************************)
EXTENDS Commonmark

-----------------------------------------------------------------------------
(***************************************************************************)
(* What the output should read back as (Reread).                           *)
(***************************************************************************)
R == INSTANCE Reread

Kids(n) ==
  LET From[k \in 0 .. Cardinality(Node), m \in Node \cup {NULL}] ==
        IF m = NULL \/ k = 0 THEN <<>> ELSE <<m>> \o From[k - 1, heap.next[m]]
  IN  From[Cardinality(Node), heap.first_child[n]]

\* The characters of a node, in the form of R!CharsOf.
Chars(s, kind) == [i \in DOMAIN s |-> <<s[i], kind>>]
Encoded(url) ==
  FlattenSeq([i \in DOMAIN url |-> IF url[i] = " " THEN PercentEncoded(" ") ELSE <<url[i]>>])
Bounds(f, text) ==
  Chars(<<"[">>, "active") \o text \o Chars(<<"]">>, "active")
    \o Chars(<<"(">> \o Encoded(f.url), "literal")
    \o (IF f.title = <<>> THEN <<>> ELSE Chars(<<" ", "\"">> \o f.title \o <<"\"">>, "literal"))
    \o Chars(<<")">>, "literal")
AutolinkChars(f) ==
  Chars(<<"<">>, "active") \o Chars(Address(f.url), "literal") \o Chars(<<">">>, "active")
IsAutolinkText(n) ==
  is_autolink(n) /\ \A m \in ToSet(Kids(n)) : Type(m) = "text" /\ heap.next[m] = NULL
Around(n, text) ==
  LET f == fields[n]
      delimiters == CASE Type(n) = "emph" -> Chars(<<EmphDelim(n)>>, "active")
                      [] Type(n) = "strong" /\ Type(heap.parent[n]) # "strong" ->
                             Chars(<<"*", "*">>, "active")
                      [] Type(n) = "strikethrough" -> Chars(<<"~", "~">>, "active")
                      [] OTHER -> <<>>
  IN  CASE Type(n) = "link" -> IF IsAutolinkText(n) THEN AutolinkChars(f) ELSE Bounds(f, text)
        [] Type(n) = "image" -> Chars(<<"!">>, "literal") \o Bounds(f, text)
        [] OTHER -> delimiters \o text \o delimiters
BreakChars(n) ==
  IF ~Allows("HARDBREAKS") \/ Type(n) = "linebreak" THEN <<R!HardBreak>> ELSE <<R!Plain(" ")>>
LeafChars(n) ==
  LET f == fields[n]
  IN  CASE Type(n) = "text" -> Chars(f.literal, "literal")
        [] Type(n) = "html_inline" -> R!Delimited(f.literal)
        [] Type(n) = "code" ->
             (IF f.info = <<>> THEN <<>> ELSE Chars(Append(f.info, ":"), "literal"))
               \o Chars(f.literal, "code")
        [] Type(n) = "footnote_reference" ->
             Chars(<<"[">>, "active") \o Chars(<<"^">> \o f.literal, "literal")
               \o Chars(<<"]">>, "active")
        [] OTHER -> BreakChars(n)
CharsIn(n) ==
  LET Of[k \in 0 .. Cardinality(Node), m \in Node] ==
        IF m # n /\ heap.first_child[m] = NULL /\ Type(m) \notin {"emph", "strong", "link", "image", "strikethrough"}
        THEN LeafChars(m)
        ELSE LET kids == Kids(m)
                 text == IF k = 0 THEN <<>>
                         ELSE FlattenSeq([i \in DOMAIN kids |-> Of[k - 1, kids[i]]])
             IN  IF m = n THEN text ELSE Around(m, text)
  IN  Of[Cardinality(Node), n]
\* Lines that were broken may have lost spaces of code.
SameText(lines, n) ==
  R!SameChars(R!CharsOf(R!Lined(lines), ~Allows("HARDBREAKS")), CharsIn(n), width > 0)

\* The block that a node is, and the block that was read.
CodeLines(s) == R!LinesOf(IF s = <<>> \/ Last(s) = "\n" THEN s ELSE Append(s, "\n"))
ShowsTight(items) == Len(items) > 1 \/ \E i \in DOMAIN items : Len(items[i]) > 1
RECURSIVE Same(_, _)
SameAll(blocks, nodes) ==
  Len(blocks) = Len(nodes) /\ \A i \in DOMAIN nodes : Same(blocks[i], nodes[i])
Same(b, n) ==
  LET f == fields[n]
      kids == Kids(n)
  IN  /\ b.type = Type(n)
      /\ CASE Type(n) = "paragraph" -> SameText(b.lines, n)
           [] Type(n) = "heading" -> b.level = f.level /\ SameText(b.lines, n)
           [] Type(n) = "block_quote" -> SameAll(b.blocks, kids)
           [] Type(n) = "footnote_definition" -> b.label = f.literal /\ SameAll(b.blocks, kids)
           [] Type(n) = "list" ->
                /\ b.kind = IF f.bullet THEN "-" ELSE f.delim
                /\ Len(b.items) = Len(kids)
                /\ \A i \in DOMAIN kids : SameAll(b.items[i], Kids(kids[i]))
                /\ b.tasks = [i \in DOMAIN kids |-> fields[kids[i]].task]
                /\ b.number = IF f.bullet THEN <<>> ELSE <<ToString(f.start)>>
                /\ ShowsTight(b.items) => b.tight = f.tight
           [] Type(n) = "table" ->
                /\ b.aligned = f.aligned /\ Len(b.rows) = Len(kids)
                /\ \A i \in DOMAIN kids :
                     LET cells == Kids(kids[i])
                     IN  /\ Len(cells) = Len(b.rows[i])
                         /\ \A j \in DOMAIN cells : SameText(<<b.rows[i][j]>>, cells[j])
           [] Type(n) = "code_block" -> b.info = f.info /\ b.lines = CodeLines(f.literal)
           [] Type(n) = "html_block" -> b.lines = R!LinesOf(f.literal)
           [] OTHER -> TRUE

-----------------------------------------------------------------------------
(***************************************************************************)
(* Where the output is known not to read back as what was rendered.        *)
(***************************************************************************)
Ancestors(n) ==
  LET From[k \in 0 .. Cardinality(Node), m \in Node \cup {NULL}] ==
        IF m = NULL \/ k = 0 THEN {} ELSE {m} \cup From[k - 1, heap.parent[m]]
  IN  From[Cardinality(Node), n] \ {n}
InTight(n) ==
  \E m \in {n} \cup Ancestors(n) :
    Type(heap.parent[m]) = "item" /\ fields[heap.parent[heap.parent[m]]].tight
IsIndented(n) == Type(n) = "code_block" /\ IndentedCode(n)
Says(n) == {i \in DOMAIN fields[n].literal : Type(n) = "text"}

\* The blank line after a literal that ends its line has no prefix: a block
\* quote ends there.
QuoteEnds(n) ==
  /\ Type(n) = "html_block" \/ IsIndented(n)
  /\ ~InTight(n)
  /\ \E q \in Ancestors(n) :
       /\ Type(q) = "block_quote"
       /\ \E m \in {n} \cup Ancestors(n) : q \in Ancestors(m) /\ heap.next[m] # NULL
\* Code after code, both indented, is one block.
CodeMerges(n) == IsIndented(n) /\ IsIndented(heap.next[n])
\* The blocks of a tight item have no blank line between them, not even those of
\* a quote in it.
TightMerges(n) ==
  /\ InTight(n) /\ Type(n) = "paragraph"
  /\ \/ Type(heap.next[n]) \in {"paragraph", "thematic_break"}
     \/ IsIndented(heap.next[n])
\* The blank line that is put before some blocks is the first of the item.
ItemBlank(n) ==
  /\ Type(n) = "item" /\ ~fields[heap.parent[n]].bullet
  /\ Type(heap.first_child[n]) \in {"html_block", "thematic_break", "table"}
\* The spaces before the marker of a list that begins an item count as those
\* after the marker of the item, and what follows is not indented as far.
ItemEnds(n) ==
  /\ Type(n) = "item" /\ heap.first_child[n] # NULL
  /\ LET c == heap.first_child[n]
     IN  Type(c) = "list" /\ fields[c].bullet /\ heap.next[c] # NULL
\* A heading is one line.
HeadingBreaks(n) ==
  /\ Type(n) = "linebreak" \/ (Type(n) = "softbreak" /\ ~Allows("HARDBREAKS"))
  /\ \E m \in Ancestors(n) : Type(m) = "heading"
\* The spaces put beside code that is all spaces stay, and those at the end of a
\* line that was broken at the last space of code do not.
CodeSpaces(n) ==
  /\ Type(n) = "code" /\ fields[n].literal # <<>>
  /\ ToSet(fields[n].literal) = {" "} \/ (AllowWrap /\ Last(fields[n].literal) = " ")
\* A line may be broken before a marker, and after a soft break before digits.
MarkerBegins(n) ==
  /\ AllowWrap
  /\ \E i \in Says(n) :
       LET s == fields[n].literal
       IN  \/ i > 1 /\ s[i - 1] = " " /\ s[i] \in {"-", "+", "="}
           \/ i = 1 /\ Type(heap.prev[n]) = "softbreak" /\ s[1] \in {"-", "+", "="} \cup Digit
\* The first field of an image is its URL, that of code its info: a link to the
\* same URL is written as an autolink.
ContentLost(n) ==
  /\ Type(n) = "link" /\ is_autolink(n)
  /\ ~(Type(heap.first_child[n]) = "text" /\ heap.next[heap.first_child[n]] = NULL)
\* "mailto:" is left out, whether or not an address follows.
NoAddress(n) ==
  Type(n) = "link" /\ is_autolink(n) /\ {":", "@"} \cap ToSet(Address(fields[n].url)) = {}

\* A task list item begins further to the left than other items, and has no number.
TaskMarks(n) ==
  /\ Type(n) = "item" /\ fields[n].task # "none"
  /\ \/ ~fields[heap.parent[n]].bullet
     \/ heap.next[n] # NULL /\ fields[heap.next[n]].task = "none"
\* A row is a line; a paragraph after a table that no blank line ends is one.
InType(n, type) == \E m \in Ancestors(n) : Type(m) = type
RowBreaks(n) ==
  AllowWrap /\ (\E i \in Says(n) : fields[n].literal[i] = " ") /\ InType(n, "table_cell")
TableGoesOn(n) ==
  Type(n) = "table" /\ InTight(n) /\ Type(heap.next[n]) \in {"paragraph", "table"}
\* Pipes are escaped in cells, but neither in strikethrough nor in paragraphs.
PipeSplits(n) ==
  /\ \E i \in Says(n) : fields[n].literal[i] = "|"
  /\ InType(n, "strikethrough") /\ InType(n, "table_cell")
TableBegins(n) ==
  /\ Type(n) = "text" /\ Type(heap.prev[n]) = "softbreak"
  /\ ToSet(fields[n].literal) \subseteq {"|", "-", ":"}

Known ==
  \E n \in Node : \/ QuoteEnds(n) \/ CodeMerges(n) \/ TightMerges(n) \/ ItemBlank(n) \/ ItemEnds(n)
                  \/ MarkerBegins(n) \/ ContentLost(n) \/ NoAddress(n)
                  \/ HeadingBreaks(n) \/ CodeSpaces(n) \/ TaskMarks(n) \/ RowBreaks(n)
                  \/ TableGoesOn(n) \/ PipeSplits(n) \/ TableBegins(n)

\* Front matter is left to those who use the document: the rest is its blocks.
SameFront(front, f) == front.info = f.info /\ front.lines = R!LinesOf(f.literal)
SameFrom(front, lines, kids) ==
  LET isfront == Type(kids[1]) = "front_matter"
  IN  /\ isfront => SameFront(front, fields[kids[1]])
      /\ SameAll(R!Read(IF isfront THEN front.after ELSE lines), IF isfront THEN Tail(kids) ELSE kids)
SameDocument(lines, kids) == SameFrom(R!ReadFrontMatter(lines), lines, kids)
Back == SameDocument(R!LinesOf(renderer.buffer), Kids(iter.root))
ReadsBack == iter.ev = "done" /\ ~Known => Back

(***************************************************************************)
(* How the lines of a paragraph are filled.                                *)
(***************************************************************************)
\* The lines of a paragraph that is alone in its blocks, without the prefix.
Alone ==
  \A n \in Node :
    /\ Type(n) \in {"paragraph", "item", "list"} => heap.prev[n] = NULL
    /\ Type(n) \in {"none", "document", "block_quote", "list", "item", "paragraph", "text",
                    "softbreak", "linebreak", "emph", "strong"}
    /\ Type(n) = "item" => fields[n].task = "none"
PrefixWidth ==
  LET p == CHOOSE n \in Node : Type(n) = "paragraph"
  IN  2 * Cardinality({n \in Ancestors(p) : Type(n) = "block_quote"})
        + 4 * Cardinality({n \in Ancestors(p) : Type(n) = "item"})
BodyLines ==
  LET lines == R!LinesOf(renderer.buffer)
  IN  [i \in DOMAIN lines |-> R!Drop(lines[i], PrefixWidth)]
\* Where a line could be broken: a space before anything but a digit.
Breaks(l) == {i \in 1 .. Len(l) - 1 : l[i] = " " /\ l[i + 1] \notin Digit \cup {" "}}
FirstUnit(l) == Min(Breaks(l) \cup {Len(l) + 1}) - 1
HardEnd(l) == Len(l) > 1 /\ SubSeq(l, Len(l) - 1, Len(l)) = <<" ", " ">>

LinesFilled ==
  iter.ev = "done" /\ AllowWrap /\ Alone =>
    LET lines == BodyLines
    IN  \A i \in DOMAIN lines :
          /\ PrefixWidth + Len(lines[i]) > width => Breaks(lines[i]) = {}
          /\ i < Len(lines) /\ ~HardEnd(lines[i])
               => PrefixWidth + Len(lines[i]) + 1 + FirstUnit(lines[i + 1]) > width
=============================================================================
