----------------------------- MODULE Paragraphs ------------------------------
(***************************************************************************)
(* What becomes of the lines of a paragraph: text, the underline of a      *)
(* heading, the delimiter row that turns it into a table (table.c), link   *)
(* reference definitions that leave it when it is finished (blocks.c and   *)
(* cmark_parse_reference_inline), and the look-ups of their labels when    *)
(* the inlines are parsed.                                                 *)
(*                                                                         *)
(* The lines begin no other block than a thematic break and are not in a   *)
(* container.  Positions count from 0, as they do in the code.             *)
(***************************************************************************)
EXTENDS References

CONSTANTS
  Documents,          \* sets of documents: lines, if the table extension is on, look-ups
  MaxParentheses,     \* how deep parentheses nest in a destination
  MAX_AUTOCOMPLETED_CELLS,
  MaxColumns,         \* UINT16_MAX
  UINT_MAX,           \* no limit
  MinBudget           \* what look-ups may always return in all

ASSUME LimitsAssumption ==
  /\ MaxParentheses \in Nat /\ MAX_AUTOCOMPLETED_CELLS \in Nat /\ MaxColumns \in Nat
  /\ UINT_MAX \in Nat /\ MinBudget \in Nat

VARIABLES
  document,    \* what is parsed
  read,        \* how many of its lines were processed
  open,        \* the open leaf, the last of the blocks: "none", "paragraph" or "table"
  visited,     \* TABLE_VISITED of the open paragraph
  blocks,      \* the blocks, with the lines they come from
  map,         \* the references
  found        \* what the look-ups returned

vars == <<document, read, open, visited, blocks, map, found>>

Text(input) == INSTANCE InlineText WITH
  options <- {}, subject <- <<>>, nodes <- <<>>, phase <- "inlines", Texts <- {}, Labels <- {},
  Entities <- {}, BlockOffset <- 0, MAXBACKTICKS <- 0, ManySegments <- 0

Chunk(s, from, to) == SubSeq(s, from + 1, to)

-----------------------------------------------------------------------------
(* Link reference definitions.                                              *)

\* Positions after the spaces at i, and after the end of the line there.
skip_spaces(s, i) == Text(s)!Past(i, Blank)
AtLineEnd(s, i) == i >= Len(s) \/ Text(s)!At(i) \in LineEnd
AfterLineEnd(s, i) == Min({i + 1, Len(s)})
spnl(s, i) ==
  LET j == skip_spaces(s, i)
  IN  IF AtLineEnd(s, j) THEN skip_spaces(s, AfterLineEnd(s, j)) ELSE j

\* The destination without its pointy brackets, the title without its quotes,
\* and both without the backslashes that escape punctuation.
cmark_strbuf_unescape(s) ==
  LET Escapes(i) == s[i] = "\\" /\ i < Len(s) /\ s[i + 1] \in Punct /\ ~Text(s)!Escaped(i - 1)
      kept == SelectSeq([i \in DOMAIN s |-> i], LAMBDA i : ~Escapes(i))
  IN  [k \in DOMAIN kept |-> s[kept[k]]]
Inside(s) == Tail(Front(s))
cmark_clean_url(s) ==
  cmark_strbuf_unescape(Trim(IF s # <<>> /\ s[1] = "<" THEN Inside(s) ELSE s))
cmark_clean_title(s) == IF s = <<>> THEN s ELSE cmark_strbuf_unescape(Inside(s))

NoDefinition == [end |-> 0]

Defined(s, label, url, starttitle, title, end) ==
  [end |-> AfterLineEnd(s, end), label |-> label, url |-> cmark_clean_url(url),
   title |-> cmark_clean_title(Chunk(s, starttitle, starttitle + title))]

\* Mutant: what follows the title must end the line.
NoRewind(s, label, url, endurl, starttitle, title) ==
  LET end == skip_spaces(s, IF title = 0 THEN endurl ELSE starttitle + title)
  IN  IF AtLineEnd(s, end) THEN Defined(s, label, url, starttitle, title, end) ELSE NoDefinition

\* The definition, once the title that may be there, of that length, is read.
DefinitionWith(s, label, url, endurl, starttitle, title) ==
  LET end == skip_spaces(s, IF title = 0 THEN endurl ELSE starttitle + title)
      rewound == skip_spaces(s, endurl)
  IN  IF AtLineEnd(s, end) THEN Defined(s, label, url, starttitle, title, end)
      ELSE IF title # 0 /\ AtLineEnd(s, rewound)
      THEN Defined(s, label, url, starttitle, title, rewound)
      ELSE NoDefinition

DefinitionTo(s, label, start, endurl) ==
  LET starttitle == spnl(s, endurl)
      title == IF starttitle = endurl THEN 0 ELSE ScanAt(scan_link_title, s, Len(s), starttitle)
  IN  IF endurl = Text(s)!NoMatch THEN NoDefinition
      ELSE DefinitionWith(s, label, Chunk(s, start, endurl), endurl, starttitle, title)

DefinitionAfter(s, label, start) ==
  DefinitionTo(s, label, start, Text(s)!manual_scan_link_url(start))

cmark_parse_reference_inline(s, p) ==
  LET endlabel == Text(s)!link_label(p)
      label == Trim(Chunk(s, p + 1, endlabel - 1))
  IN  IF endlabel = Text(s)!NoMatch \/ label = <<>> \/ Text(s)!At(endlabel) # ":" THEN NoDefinition
      ELSE DefinitionAfter(s, label, spnl(s, endlabel + 1))

\* The definitions at the beginning of s, and what is left of it.
DefinitionsFrom(d, s, p, from) ==
  IF d.end = 0 THEN [definitions |-> <<>>, rest |-> Chunk(s, p, Len(s))]
  ELSE [definitions |-> <<d>> \o from[d.end].definitions, rest |-> from[d.end].rest]
Resolved(s) ==
  LET From[p \in 0 .. Len(s)] ==
        DefinitionsFrom(IF p < Len(s) /\ Text(s)!At(p) = "[" THEN cmark_parse_reference_inline(s, p)
              ELSE NoDefinition, s, p, From)
  IN  From[0]

Create(m, definitions) ==
  FoldLeft(LAMBDA n, d : cmark_reference_create(n, d.label, d.url, d.title), m, definitions)

-----------------------------------------------------------------------------
(* The rows of tables.                                                      *)

unescape_pipes(s) ==
  LET kept == SelectSeq([i \in DOMAIN s |-> i],
                        LAMBDA i : ~(s[i] = "\\" /\ i < Len(s) /\ s[i + 1] = "|"))
  IN  [k \in DOMAIN kept |-> s[kept[k]]]

\* The cells of the line that begins at i.  A cell ends at a pipe, which takes
\* the spaces after it along; the one at the beginning of the line is optional.
Cell(s, from, end, pipe, cells) ==
  (IF end + pipe = from THEN <<>> ELSE <<Trim(unescape_pipes(Chunk(s, from, end)))>>)
    \o IF pipe = 0 THEN <<>> ELSE cells[end + pipe]
CellTo(s, from, end, cells) ==
  Cell(s, from, end, ScanAt(scan_table_cell_end, s, Len(s), end), cells)
Cells(s, i) ==
  LET From[o \in 0 .. Len(s)] == CellTo(s, o, o + ScanAt(scan_table_cell, s, Len(s), o), From)
  IN  From[i + ScanAt(scan_table_cell_end, s, Len(s), i)]

LineStarts(s) == {0} \cup {i \in 1 .. Len(s) - 1 : s[i] = "\n"}
Row(s, i) == [cells |-> Cells(s, i), paragraph_offset |-> i]
NoRow == [cells |-> <<>>, paragraph_offset |-> 0]

\* A line with too many cells is no row.
TooWide(s, i) == Len(Cells(s, i)) > MaxColumns

\* Mutant: the first line of s.
FirstRow(s) == IF TooWide(s, 0) THEN NoRow ELSE Row(s, 0)

\* The last line of s as a row; none if any line has too many cells.
row_from_string(s) ==
  IF \E i \in LineStarts(s) : TooWide(s, i) THEN NoRow ELSE Row(s, Max(LineStarts(s)))

Alignment(cell) ==
  LET left == cell[1] = ":"
      right == Last(cell) = ":"
  IN  IF left /\ right THEN "c" ELSE IF left THEN "l" ELSE IF right THEN "r" ELSE "none"

\* A row has as many cells as the table: others are dropped, or made up.
Fitted(cells, columns) ==
  [i \in 1 .. columns |-> IF i \in DOMAIN cells THEN cells[i] ELSE <<>>]

get_n_autocompleted_cells(table) ==
  Len(table.alignments) * Len(table.rows) - table.n_nonempty_cells

-----------------------------------------------------------------------------
Block(type, at, source, content) ==
  [type |-> type, at |-> at, lines |-> source, content |-> content, resolved |-> FALSE,
   alignments |-> <<>>, rows |-> <<>>, n_nonempty_cells |-> 0]
Current == Last(blocks)
Others == Front(blocks)

Line == document.lines[read + 1]
Input == Chunk(Line, skip_spaces(Line, 0), Len(Line))
IsBlank == AtLineEnd(Input, 0)
SetextLevel == scan_setext_heading_line(Input, 1)
IsSetext == open = "paragraph" /\ SetextLevel # 0
S_scan_thematic_break ==
  \E c \in {"-", "*"} :
    /\ ToSet(Input) \subseteq {c, " ", "\n"}
    /\ Cardinality({i \in DOMAIN Input : Input[i] = c}) >= 3

Read == read < Len(document.lines) /\ read' = read + 1 /\ UNCHANGED <<document, found>>
Leaf(type) == open' = type /\ visited' = FALSE

\* The paragraph or heading that b becomes: one of nothing but definitions is
\* freed.  It stays in the sequence for what is said of its lines.
Finalized(b, type, rest) ==
  [b EXCEPT !.type = IF rest = <<>> THEN "freed" ELSE type, !.content = rest, !.resolved = TRUE]

\* The map, and the blocks, once the open leaf is finished.  What follows is
\* done with the definitions and the rest of its content.
Pending == IF open = "paragraph" THEN {Resolved(Current.content)} ELSE {[definitions |-> <<>>]}
Define(pending) == map' = Create(map, pending.definitions)
Closed(pending) ==
  IF open = "paragraph" THEN Append(Others, Finalized(Current, "paragraph", pending.rest))
  ELSE blocks

BlankLine ==
  /\ Read /\ IsBlank
  /\ \E p \in Pending : blocks' = Closed(p) /\ Define(p)
  /\ Leaf("none")

ThematicBreak ==
  /\ Read /\ ~IsSetext /\ S_scan_thematic_break
  /\ \E p \in Pending :
       /\ Define(p)
       /\ blocks' = Append(Closed(p), Block("thematic_break", read, <<Input>>, <<>>))
  /\ Leaf("none")

\* The underline makes a heading of the text that is left.  If none is, it is the
\* first line of text of the same paragraph.
SetextLine ==
  /\ Read /\ IsSetext
  /\ \E p \in Pending :
       /\ Define(p)
       /\ LET heading == Finalized(Current, "heading", p.rest)
          IN  IF p.rest # <<>>
              THEN blocks' = Append(Others, heading) /\ Leaf("none")
              ELSE /\ blocks' = Others \o <<heading, Block("paragraph", read, <<Input>>, Input)>>
                   /\ UNCHANGED <<open, visited>>

\* The table extension looks at a line that begins no other block.
Extension == document.tables /\ ~IsBlank /\ ~IsSetext /\ ~S_scan_thematic_break

DelimiterRow == row_from_string(Input)
HeaderRow == row_from_string(Current.content)
TriesHeader ==
  /\ open = "paragraph" /\ ~visited
  /\ Extension
  /\ scan_table_start(Input, 1) # 0 /\ DelimiterRow.cells # <<>>
HeaderMatches == Len(HeaderRow.cells) = Len(DelimiterRow.cells)

\* The lines before the header row become a paragraph of their own, which is
\* not finalized.
TableHeader(header, delimiters) ==
  LET paragraph ==
        Block("paragraph", Current.at, Front(Current.lines),
              Trim(unescape_pipes(Chunk(Current.content, 0, header.paragraph_offset))))
      table == [Block("table", read - 1, <<Last(Current.lines), Input>>, <<>>) EXCEPT
                  !.alignments = [i \in DOMAIN delimiters |-> Alignment(delimiters[i])],
                  !.rows = <<header.cells>>,
                  !.n_nonempty_cells = Len(header.cells)]
  IN  IF header.paragraph_offset = 0 THEN <<table>> ELSE <<paragraph, table>>
try_opening_table_header ==
  /\ Read /\ TriesHeader /\ HeaderMatches
  /\ blocks' = Others \o TableHeader(HeaderRow, DelimiterRow.cells)
  /\ Leaf("table")
  /\ UNCHANGED map

Continued == [Current EXCEPT !.content = @ \o Input, !.lines = Append(@, Input)]

\* One delimiter row that does not match, and the paragraph is no table.
NoTableHeader ==
  /\ Read /\ TriesHeader /\ ~HeaderMatches
  /\ blocks' = Append(Others, Continued)
  /\ visited' = TRUE
  /\ UNCHANGED <<open, map>>

AddLine ==
  /\ Read /\ open = "paragraph"
  /\ ~IsBlank /\ ~IsSetext /\ ~S_scan_thematic_break /\ ~TriesHeader
  /\ blocks' = Append(Others, Continued)
  /\ UNCHANGED <<open, visited, map>>

\* The line is a row of the open table (matches), as long as not too many cells
\* were made up.
IsRow == open = "table" /\ Extension /\ DelimiterRow.cells # <<>>
Full == get_n_autocompleted_cells(Current) > MAX_AUTOCOMPLETED_CELLS

WithRow(table, cells) ==
  [table EXCEPT !.rows = Append(@, Fitted(cells, Len(table.alignments))),
                !.lines = Append(@, Input),
                !.n_nonempty_cells = @ + Min({Len(table.alignments), Len(cells)})]
try_opening_table_row ==
  /\ Read /\ IsRow /\ ~Full
  /\ blocks' = Append(Others, WithRow(Current, DelimiterRow.cells))
  /\ UNCHANGED <<open, visited, map>>

NewParagraph ==
  /\ Read /\ open # "paragraph"
  /\ ~IsBlank /\ ~S_scan_thematic_break
  /\ IsRow => Full
  /\ blocks' = Append(blocks, Block("paragraph", read, <<Input>>, Input))
  /\ Leaf("paragraph")
  /\ UNCHANGED map

\* finalize_document: the inlines are parsed once all definitions are known.
TotalSize == Len(FlattenSeq(document.lines))
FinalizeDocument ==
  /\ read = Len(document.lines) /\ open # "done"
  /\ \E p \in Pending :
       /\ blocks' = Closed(p)
       /\ map' = [Create(map, p.definitions) EXCEPT !.max_ref_size = Max({TotalSize, MinBudget})]
  /\ open' = "done"
  /\ UNCHANGED <<document, read, visited, found>>

Lookup ==
  /\ open = "done" /\ Len(found) < Len(document.lookups)
  /\ LET label == document.lookups[Len(found) + 1]
         answer == cmark_map_lookup(map, label)
     IN  map' = answer.map /\ found' = Append(found, [label |-> label, entry |-> answer.entry])
  /\ UNCHANGED <<document, read, open, visited, blocks>>

Init ==
  /\ \E family \in Documents : \E d \in family : document = d
  /\ read = 0 /\ open = "none" /\ visited = FALSE
  /\ blocks = <<>> /\ found = <<>>
  /\ map = cmark_map_new(UINT_MAX)

Done == open = "done" /\ Len(found) = Len(document.lookups) /\ UNCHANGED vars

Next ==
  \/ BlankLine \/ ThematicBreak \/ SetextLine
  \/ try_opening_table_header \/ NoTableHeader \/ try_opening_table_row
  \/ AddLine \/ NewParagraph
  \/ FinalizeDocument \/ Lookup \/ Done

Spec == Init /\ [][Next]_vars
-----------------------------------------------------------------------------
\* Properties.
End == open = "done" /\ found = <<>>

\* The definitions that the specification sees at p: a label, a colon, and a
\* destination and a title, apart from each other, that end a line (spec.txt,
\* "Link reference definitions").
Gap(s, i) ==
  {j \in i .. Len(s) : /\ ToSet(Chunk(s, i, j)) \subseteq Space
                       /\ Cardinality({k \in i .. j - 1 : Text(s)!At(k) = "\n"}) <= 1}
LineEnds(s, i) ==
  {j \in i + 1 .. Len(s) : Text(s)!At(j - 1) = "\n" /\ ToSet(Chunk(s, i, j - 1)) \subseteq Blank}
SpecLabels(s, p) ==
  {q \in p + 1 .. Len(s) - 2 :
     /\ Text(s)!At(p) = "[" /\ Text(s)!At(q) = "]" /\ Text(s)!At(q + 1) = ":"
     /\ ~Text(s)!Escaped(q) /\ Text(s)!NoneOf({"[", "]"}, p + 1, q - 1)
     /\ ~(ToSet(Chunk(s, p + 1, q)) \subseteq Space) /\ q - p - 1 <= MaxLabel}
Parts(s, starts, Ends(_)) ==
  UNION {{i} \X Ends(i) : i \in {j \in starts : Text(s)!At(j) \notin Space}}
SpecForms(s, p, q, url) ==
  LET titles == Parts(s, Gap(s, url[2]) \ {url[2]}, LAMBDA i : Text(s)!Titles(i))
      Form(end, title) ==
        [end |-> end, label |-> Chunk(s, p + 1, q), title |-> title, untitled |-> {},
         url |-> cmark_clean_url(Chunk(s, url[1], url[2]))]
      Title(t) == cmark_clean_title(Chunk(s, t[1], t[2]))
      Untitled == {Title(t) : t \in titles}
  IN  {[Form(e, <<>>) EXCEPT !.untitled = Untitled] : e \in LineEnds(s, url[2])}
        \cup UNION {{Form(e, Title(t)) : e \in LineEnds(s, t[2])} : t \in titles}
SpecDefinitions(s, p) ==
  LET Destinations(q) == Parts(s, Gap(s, q + 2), LAMBDA i : Text(s)!Destinations(i))
  IN  UNION {UNION {SpecForms(s, p, q, url) : url \in Destinations(q)} : q \in SpecLabels(s, p)}

\* The definitions at the beginning of s, each as long as it can be.
LongestForm(forms) == CHOOSE f \in forms : \A g \in forms : g.end <= f.end
SpecNext(forms, s, p, from) ==
  DefinitionsFrom(IF forms = {} THEN NoDefinition ELSE LongestForm(forms), s, p, from)
SpecResolved(s) ==
  LET From[p \in 0 .. Len(s)] == SpecNext(SpecDefinitions(s, p), s, p, From)
  IN  From[0]

\* The references are all these definitions, and the paragraphs keep the rest.
Finished == SelectSeq(blocks, LAMBDA b : b.resolved)
AreReferences(refs, all) ==
  /\ Len(refs) = Len(all)
  /\ \A k \in DOMAIN all :
       /\ refs[k].label = normalize_map_label(all[k].label)
       /\ refs[k].url = all[k].url
       /\ refs[k].title = all[k].title \/ refs[k].title \in all[k].untitled
DefinitionsAre(resolved) ==
  /\ \A k \in DOMAIN resolved : Finished[k].content = resolved[k].rest
  /\ AreReferences(Reverse(map.refs),
                   FlattenSeq([k \in DOMAIN resolved |-> resolved[k].definitions]))

\* A paragraph loses the definitions at its beginning and nothing else, whether
\* it ends with its last line or is given an underline, and however far a title
\* was read that is none; the references are these definitions, in order.  Two
\* things are not as spec.txt has them: the title that is none is kept for the
\* reference as well (spec.txt:3038), and the lines before the header row of a
\* table lose none of their definitions.
DefinitionsAsSpecified ==
  End => DefinitionsAre([k \in DOMAIN Finished |-> SpecResolved(FlattenSeq(Finished[k].lines))])

\* A look-up finds the first definition of its label, as long as what was found
\* in all is no longer than the limit, whatever is looked up in between.
LookupsRight ==
  found # <<>> =>
    LET looked == Last(found)
        refs == Reverse(map.refs)
        label == normalize_map_label(looked.label)
        same == {i \in DOMAIN refs : refs[i].label = label}
        spent == FoldLeft(LAMBDA sum, f : IF f.entry = <<>> THEN sum ELSE sum + f.entry[1].size, 0,
                          Front(found))
    IN  IF same = {} \/ Len(looked.label) > MaxLabel THEN looked.entry = <<>>
        ELSE LET first == refs[Min(same)]
             IN  looked.entry =
                   IF spent + first.size <= Max({TotalSize, MinBudget}) THEN <<first>> ELSE <<>>

\* The cells of a line: what pipes that have no backslash before them separate,
\* but for one at each end (the tables extension of GFM).
Pieces(body, ends) ==
  [i \in ends |-> SubSeq(body, i + 1, Min({j \in ends \cup {Len(body) + 1} : j > i}) - 1)]
InOrder(pieces, starts) ==
  LET Nth(k) == CHOOSE i \in starts : Cardinality({j \in starts : j <= i}) = k
  IN  [k \in 1 .. Cardinality(starts) |-> Trim(unescape_pipes(pieces[Nth(k)]))]
SpecCellsOf(pieces) ==
  LET last == Max(DOMAIN pieces)
  IN  InOrder(pieces, IF Trim(pieces[last]) = <<>> THEN DOMAIN pieces \ {last} ELSE DOMAIN pieces)
Unpiped(t) == IF t # <<>> /\ t[1] = "|" THEN Tail(t) ELSE t
SeparatedIn(body) ==
  LET Separates(i) == body[i] = "|" /\ (i = 1 \/ body[i - 1] # "\\")
  IN  SpecCellsOf(Pieces(body, {0} \cup {i \in DOMAIN body : Separates(i)}))
SpecCells(line) == SeparatedIn(Unpiped(Trim(line)))

\* Without a pipe or a colon, hyphens are the underline of a heading.
IsDelimiter(cell) ==
  /\ "-" \in ToSet(cell) /\ ToSet(cell) \subseteq {"-", ":"}
  /\ \A i \in 2 .. Len(cell) - 1 : cell[i] = "-"
AreDelimiters(line, cells) ==
  /\ {"|", ":"} \cap ToSet(line) # {} /\ cells # <<>>
  /\ \A i \in DOMAIN cells : IsDelimiter(cells[i])

AlignedAs(cell) ==
  CASE cell[1] = ":" /\ Last(cell) = ":" -> "c"
    [] cell[1] = ":" /\ Last(cell) # ":" -> "l"
    [] cell[1] # ":" /\ Last(cell) = ":" -> "r"
    [] OTHER -> "none"
TableAsSpecified(b, cells) ==
  LET columns == Len(cells[1])
  IN  /\ AreDelimiters(b.lines[2], cells[2]) /\ Len(cells[2]) = columns
      /\ b.alignments = [i \in 1 .. columns |-> AlignedAs(cells[2][i])]
      /\ b.rows = [i \in 1 .. Len(cells) - 1 |->
                     IF i = 1 THEN cells[1] ELSE Fitted(cells[i + 1], columns)]

\* Where a paragraph has a delimiter row after a line with as many cells it has
\* become a table, unless another one before did not fit, or a line is too wide.
NoTableIn(b, cells) ==
  \A i \in 2 .. Len(cells) :
    AreDelimiters(b.lines[i], cells[i]) /\ Len(cells[i]) = Len(cells[i - 1]) =>
      \E j \in 1 .. i :
        Len(cells[j]) > MaxColumns \/ (j < i /\ AreDelimiters(b.lines[j], cells[j]))

\* A line right after a table is no row of it, unless too many cells were made up.
TableGoesOn(b, next, cells) ==
  next.type = "paragraph" /\ next.at = b.at + Len(b.lines) =>
    \/ Len(cells) \notin 1 .. MaxColumns
    \/ get_n_autocompleted_cells(b) > MAX_AUTOCOMPLETED_CELLS

TablesRight(b, cells) ==
  IF b.type = "table" THEN TableAsSpecified(b, cells) ELSE NoTableIn(b, cells)

\* The rows of tables, the first of which was the last line of a paragraph, are
\* those of the specification, and so are the paragraphs that become tables and
\* the lines that end one.
TablesAsSpecified ==
  End /\ document.tables =>
    \A k \in DOMAIN blocks :
      /\ TablesRight(blocks[k], [i \in DOMAIN blocks[k].lines |-> SpecCells(blocks[k].lines[i])])
      /\ blocks[k].type = "table" /\ k < Len(blocks) =>
           TableGoesOn(blocks[k], blocks[k + 1], SpecCells(blocks[k + 1].lines[1]))
=============================================================================
