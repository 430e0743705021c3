# Markly: a TLA+ model of its parser, its node tree and its Ruby objects

Markly is a Ruby binding of a fork of cmark-gfm. A document passes through four
stages: the **block parser** reads lines and builds a tree of blocks; the
**inline parser** turns the text of each paragraph, heading and cell into inline
nodes; the **node tree** is then handed to Ruby, which navigates, edits and
renders it; Ruby's collector decides when nodes are freed. The modules in this
directory model these four stages and the HTML and CommonMark renderers, TLC
checks them on small instances, and TLAPS proves for all sizes that the node tree
is the ordered forest it promises, that the Ruby objects outlive their use (in
documents without footnotes), that lines and front matter do not depend on how
the text is cut, that the open blocks are one path and the lines in the blocks stay
in order, that the stacks of the inline parser agree with its tree and the search
for openers misses none, and that the footnote phase never follows a freed node.
`PROJECT.json` lists for every definition the source lines it stands for.

## Inventory

| component | state | operations | what is hard | what makes it correct |
|---|---|---|---|---|
| node tree (`node.c`) | five pointers and a type per node | new, unlink, insert before/after, prepend, append, replace, free, clone, set_type | one call updates up to seven pointers of up to five nodes; the moved node may already be a neighbour; checks can be off | links agree, no cycles, no dangling pointers, parents contain children, each call does what its name says |
| Ruby objects (`markly.c`) | `user_data` of nodes, data pointers of objects | wrap, navigate, edit, mark, finalise | lazy sweeping in any order, allocation inside a wrap, two lifetimes joined by raw pointers | a held object's node is allocated, nothing is freed twice, everything unreachable is freed |
| block parser (`blocks.c`) | the open blocks, `parser->current`, the rest of the line, flags for blank lines | process a line, finalize, finish | lazy continuations, blocks freed while pointers to them are live, tightness decided from flags set many lines earlier | the open blocks are one path, each line ends up in one place, tightness as specified |
| inline parser (`inlines.c`, `strikethrough.c`) | delimiter stack, bracket stack, the children of the block | scan a token, close a bracket, pair delimiters | entries point into a tree that later entries rearrange; bounds on the search are remembered across closers | stacks agree with the tree, no source lost, the search misses no opener, it ends |
| paragraphs (`blocks.c`, `table.c`, `inlines.c`) | the content of the open paragraph, the table it became | add a line, open a table, add a row, resolve definitions, underline | a paragraph becomes another block, or is split, while it is the open block; a title that turns out to be none | definitions, headings and tables as specified |
| text of a block (`inlines.c`, `scanners.c`) | a position, remembered positions of backticks, flags for constructs without an end, lines and columns | a handler per character, scanners, brackets | searches ahead that give up and are cached; positions counted by each handler | nothing lost, each construct as specified, positions right |
| line splitting (`S_parser_feed`) | line buffer, a flag for a trailing CR | feed, finish | lines cut anywhere, CR LF across buffers | the lines do not depend on how the text is cut |
| footnotes (`process_footnotes`, `footnotes.c`) | a map of definitions, indices, counts | collect, number, move to the end, free the rest | nodes replaced and freed during an iteration; definitions inside definitions | each reference leads to a definition in the document, numbered in order |
| link references (`map.c`, `references.c`) | a list, later a sorted array, an expansion budget | create, look up | first definition wins, budget arithmetic | lookups agree with the list, expansion stays below the budget |
| iterator (`iterator.c`) | current and next event | next, reset, consolidate texts | edits during an iteration | it never steps onto a freed node |
| HTML renderers (`html.c`, `table.c`, `html.rb`) | what is open, what was written, footnote counters | render a node, entering or leaving | tags of one element written at different nodes; two implementations | the tags nest, links find anchors, both agree |
| CommonMark renderer (`render.c`, `commonmark.c`) | buffer, prefix, column, last breakable space, flags for the beginning of a line and for tight items | render a node, write a string, break a line | flags set by one node and read by others; a line broken after its beginning was judged | what is written reads back as what was rendered |
| Ruby node operations (`lib/markly/node.rb`) | none of their own | each, walk, append_after, append_before, replace_section, extract_children | they edit the list they walk | they end, and move the nodes they name |
| heading anchors (`headings.rb`) | a counter per text | anchor_for | counters meet texts that end in a number | anchors are unique |
| autolinks (`autolink.c`) | none of its own | match a URL, post-process texts | texts split and joined before they are searched | addresses as specified |
| task lists, tag filter | a flag per item | recognise an item, replace a character of HTML | - | - |
| front matter (`front_matter.c`) | a flag and two buffers | process a line | the end of the document inside it | it is the first node |
| registry, other renderers, buffers, UTF-8 | - | - | bytes and formatting | outside this project |

The stages call each other in order: `cmark_parser_feed` splits text into lines
and calls `S_process_line` for each; `cmark_parser_finish` finalizes the open
blocks, runs the inline parser over the tree with the iterator and the map of
link references that the block phase filled, then the footnotes, then the
extensions' post-processing. All of it runs on one thread, inside one Ruby call.
Interleaving begins afterwards: the program's calls, allocations, marking, and
the finalisers of a lazily swept heap.

## Modules

| module | what it models | checked by, proved in |
|---|---|---|
| `NodeLinks` | the pointer structure: the relinking functions of `node.c` as operators on a heap | used by `NodeTree`, `NodeGC`, `Footnotes`, `NodeEdits`; `NodeLinksProofs` |
| `NodeTree` | the tree API as a state machine | `MCNodeTree`, `NodeForestProofs` |
| `Forest` | what that API promises, without pointers | the refinement in `NodeForest` |
| `NodeForest` | the mapping from pointers to that forest | `MCNodeTree`, `NodeForestProofs` |
| `NodeGC` | Ruby's objects, marking and finalisers over `NodeLinks` | `MCNodeGC`, `NodeGCProofs` |
| `NodeEdits` | the methods of `node.rb` and `headings.rb` over `NodeLinks` | `MCNodeEdits` |
| `LineFeed` | buffers into lines, and front matter | `MCLineFeed`, `LineFeedProofs` |
| `LineSplit` | what that promises: the lines of the text | the refinement in `LineFeed`, `LineFeedProofs` |
| `Blocks` | the block phase, over kinds of lines | `MCBlocks`, `BlocksProofs` |
| `Paragraphs` | the block phase of a paragraph, over its characters; look-ups | `MCParagraphs` |
| `References` | the map of link references and the parsers of definitions | used by `Paragraphs`, `InlineText` |
| `Scanners` | the regular expressions behind the generated scanners | used by the three around it |
| `Autolinks` | the patterns of the autolink extension | used by `InlineText` |
| `InlineText` | the inline phase over the characters of a block | `MCInlineText` |
| `Inlines` | delimiters and brackets of one block | `MCInlines`, `InlinesProofs` |
| `Iterator` | the tree iterator, as operators on a heap | used by the next and `Commonmark` |
| `Footnotes` | `process_footnotes`, then joining of texts | `MCRendering`, `FootnotesProofs` |
| `Html` | both HTML renderers, as operators on a heap | used by the next |
| `Rendering` | `Footnotes`, and what the renderers make of its tree | `MCRendering` |
| `Commonmark` | the CommonMark renderer, event by event | `MCCommonmark` |
| `CommonmarkReads`, `Reread` | what its output should read back as | `MCCommonmark` |

### Node tree

A heap is a record of functions, one per field of `struct cmark_node` that the
tree operations use; an address whose type is `"none"` is not allocated. Each
operation is the composition of assignments the C function makes, in its order,
with `Store` standing for an assignment through a pointer that may be NULL.
Allocation takes any free address. Calls that fail return 0 and change nothing,
so they are not steps. `SafetyChecks` says whether
`S_can_contain` walks the ancestors (off as shipped); `SelfSibling` says whether a
caller may insert a node beside itself, which the code accepts and which breaks the list (FALSE in the run and
in the theorems). The strings of nodes are left out, and so is the task list's `can_contain`: its
items keep the type of an item.

`Forest` has, for every node, the sequence of its children. `ImplementsForest`
says that every step of the pointer structure is a step of the forest under the
mapping that reads child lists along `next`, for as many steps as nodes have the
same parent; `EachCall` says which step: append
places a node last, insert_before before its sibling, and so on, also if it is
there already.

### Ruby objects

Objects are slots that are free, live or dead (marked unreachable and not yet
swept). `Markly_Node_wrap` reads a node, allocates, and stores the object, and the
collector may run in between: `Return` and `Wrap` are two steps. `Mark` computes
reachability from what the program holds, through `Markly_Node_Type_mark`;
`Sweep` finalises one dead object, in any order, between any two steps of the
program. A parse is one step that yields a small document. Objects have no
address, so a compacting collection is not modelled. `Footnotes` says whether
documents have footnotes: a reference's pointer to its definition is not marked,
so with them the program can reach a freed or dying node;
`SelfSibling` says, as for the tree, whether the program may insert a node beside
itself or replace it by itself, which the binding passes on to `node.c` (FALSE in
the runs and in the theorems);
`node_gc` leaves them out and shows that everything else is marked as it must be,
`node_gc_borrowed` shows what goes wrong with them and with borrowed text.

### Ruby node operations

One turn of a Ruby loop is a step, and a call is a list of what is still to be
done (`replace_section` is three methods). Every call is made, with every node.
`Expected` says what a call is documented to do to the lists of children before it:
the node given is appended, or the children of a document. `EditsAsNamed` compares
the lists with that, apart from two disagreements (see below): where the siblings
after the node given go, which move along (`Brought`), and calls whose loop comes to
the receiver or to what it is in (`MeetsReceiver`), which `CallsReturn` leaves out
too, since some never end. `walk` is given a block that collects headings, as `Headings.extract` does, or one that
deletes what it is given.

### Line splitting and front matter

One turn of the loop in `S_parser_feed` is a step; `Feed` hands over any next
piece of the text, and the parser may be used for a second text (`Parses`).
Characters are `a`, `-`, a space, `CR`, `LF`, `NUL` and the byte order mark; the
three bytes that replace a NUL are one. `total_size` is kept as it saturates at
`UINT_MAX`. Empty buffers are not fed: no caller in the repository does, and one
between a CR and its LF would make an empty line, since the flag is cleared.
`LineSplit` hands out the lines of the text up to the last character fed, with a
CR at the end held back; `LineFeed` implements it by taking `end` for what was
fed.

### Block parser

A line is its prefixes (indentation in units of two columns, `>`, two bullets, a
footnote label) and the kind of what follows (text, blank, heading, fence, setext
underline, thematic break, link reference definition, two kinds of HTML). Every
branch of `check_open_blocks`, of the loop in `open_new_blocks`, and of
`add_text_to_container` is an action; `Finalized` is `finalize`, with resolving
definitions, freeing an empty paragraph and computing tightness. The address of
a freed block is the next one allocated, the worst case for the pointers that
`S_process_line` still holds. `MAX_LIST_DEPTH` is a constant so that a line can
reach it.

Left out: tabs and partially consumed ones, ordered lists (`lists_match` compares
bullets), columns, the text of code and HTML blocks, blocks of extensions and
`cmark_parser_feed_reentrant`. HTML is of type 2 (ends with a marker) or 6 (ends
with a blank line, or continues by indentation).

### Paragraphs and link references

Here a line is its characters, and it begins no other block than a thematic
break: what is left is what `add_text_to_container`, the setext branch,
`try_opening_table_header`, `try_opening_table_row` and `finalize` make of a
paragraph. `cmark_parse_reference_inline` is modelled with its scanners and its
one step back when a title is none. `References` has the map: definitions in
front of a list, sorted and made unique at the first look-up, and the budget of
`cmark_map_lookup`, whose subtraction is bounded by `UINT_MAX`. The reference
definitions of the properties take the specification's definitions as sets of
positions and choose the longest. Containers, positions of cells, and entities in
destinations are left out.

### Inline parser

The input is a sequence of tokens, chosen one by one: a run of delimiters with
the flanking the scanner found, `[`, `![`, a text starting with `^`, or a closing
bracket with what follows it (nothing, an inline destination, a label that is
defined). What the byte scanners decide is in the choice of the token; the two
stacks, `process_emphasis` turn by turn, `handle_close_bracket`, and the
strikethrough extension are modelled. Smart quote glyphs, literals, source
columns, `in_bracket` flags and `CMARK_OPT_STRIKETHROUGH_DOUBLE_TILDE` are left out.

`InlineText` is the other half: it reads characters. A step is one turn of
`parse_inlines`: the handler chosen by the character, with every search ahead it
makes. A name such as `div` or `http` is one character, so that texts of a few
characters reach the tag and scheme scanners. `Scanners` gives each regular
expression as an operator from positions to positions at which a match may end,
the longest of which is what the generated automaton returns; the automata stop
at a NUL, which `ScanAt` puts at the end of the text where the code does and not
where it does not. Nodes are kept in one sequence with the positions of the input
they stand for, so that a property can say that nothing is lost; delimiter runs
stay texts, since `Inlines` pairs them. The emails that the autolink extension
finds after parsing are searched in the texts as consolidation has joined them.

### Footnotes and HTML

`Footnotes` builds any small document with references and definitions, also
definitions inside each other or repeated, in document order (`Add`), and then
runs `process_footnotes` on it: one step per definition the first loop comes to
(`Collect`) and per reference the second comes to (`Number`, `Restore`), one per
turn of the three loops at the end, one per text that `cmark_consolidate_text_nodes`
extends (`Consolidate`), and one per text that it joins to that and frees (`Join`,
with `tmp` for the local of that name). The iterator is that of `iterator.c`: it
holds the next event while the current node is replaced or freed; `Forward` is the
turns of a loop in which nothing but the iterator changes. Freed addresses are used
again at once. Labels are numbers in the order `strcmp` sorts them; `LongLabel` are
those a lookup refuses. The sorted map is the set of the entries that are kept, and
of entries that compare as equal (the unused ones, with number 0) `qsort` may put
any first.

`Html` has `S_render_node` with the renderer's fields, and the methods of
`Markly::Renderer::HTML` with its instance variables, both from a heap to a
sequence of tags, anchors and links; `Rendering` renders each document with the
first, with the second, and with the second's option for a section per heading.
Attributes, escaping and line breaks are left out; so is that a label may itself
end in the suffix that makes an anchor distinct (a second reference to `a` and a
first one to `a-2` share `fnref-a-2`).

### CommonMark

`Commonmark` renders a document that `MCCommonmark` builds: an action for each
type of node, in the event that the iterator gives it, with `renderer` for the
fields of `cmark_renderer`. What a node does is a sequence of calls of `OUT`,
`LIT`, `CR` and `BLANKLINE` and of changes to the prefix; `S_out` is modelled
character by character, with the line ends it owes, the prefix, the space at
which a line may be broken and the breaking itself, and `outc` with what it
escapes. The extensions' own rendering (tables, strikethrough, task lists) and
the escaping of pipes are included. The model's output for every document of the
run was compared with that of the compiled library: they are the same.

`Reread` is a reader of CommonMark blocks written from `src/fixtures/spec.txt`,
for what a renderer writes: lines, containers with lazy lines, code, headings,
HTML comments, footnote definitions, tables, tasks and front matter; inlines only
as far as escapes, code spans and breaks. It does not pair delimiters: an active
`*` is compared as such. `CommonmarkReads` compares what it reads with the tree.
Footnote definitions stand at the end of a document, where the parser puts them;
text does not begin with a space.

## Runs

| run | question | bounds, and why they suffice |
|---|---|---|
| `node_tree` | does the pointer structure implement the forest and keep its invariants? | 5 nodes, 3 types, addresses symmetric: a relinking call touches at most five nodes |
| `node_gc` | can the program reach a freed node, is one freed twice? | 4 nodes, 3 objects: two trees, a wrapped and an unwrapped relative; no footnotes |
| `node_gc_live` | is everything freed in the end? | 4 nodes, 2 objects used again and again, footnotes, safety checks on (a cycle is never freed) |
| `node_gc_borrowed` (violation) | is what a detached node still points to allocated? | 4 nodes |
| `inlines` | do the stacks agree with the tree, is text lost, does the search miss an opener, does it end? | 4 tokens; runs of 1 and 2, both sides of the rule of 3, both lengths of strikethrough |
| `blocks` | open path, no line lost, assertions, tightness | all documents of 4 lines of 18 kinds; 3 blocks per line |
| `rendering` | does `process_footnotes` follow a freed node, number and move rightly; is the HTML of both renderers sound, and the same? | all documents of 6 nodes from 10 shapes with 3 labels, one of them too long: two definitions inside each other or alike, two references, a table with a body |
| `inline_text` | is a character lost, a position wrong, a construct not the specified one? | about 20 000 texts, in families: all short sequences over the characters of code spans, of raw HTML, of destinations and titles, of labels, of autolinks and addresses, of smart punctuation |
| `line_feed` | do lines depend on the cuts, does front matter take the right ones, does each call return? | all texts of 4 of 5 characters, documents of 3 lines of 7 kinds; every way to cut them; a second text for the same parser |
| `node_edits` | do the Ruby methods do what they are documented to do, give each node once, return? | one call with every argument on two trees of six nodes in all: two lists to move between |
| `paragraphs` | are definitions, headings and tables those specified, are look-ups right up to the budget? | all documents of 3 lines of 12 kinds of parts of definitions and of 12 of tables (also after a table was begun); 4 look-ups of 4 labels |
| `commonmark` | does the output read back, are lines filled? | 5793 documents of up to 12 nodes: every two blocks, also in one container, in a tight item and in two items; all texts of 3 of 12 characters; wrapped lines of words that may be markers; inlines alone and beside text; tables, task lists, front matter |

`blocks` needs four lines because tightness relates the item before a blank line,
the blank line, what comes after it and what closes the list. Documents of five
lines over a smaller set of kinds were checked too and gave the same result.
`MAX_AUTOCOMPLETED_CELLS`, `UINT_MAX`, `MAXBACKTICKS`, `MaxParentheses`,
`MaxLabel`, `MaxColumns` and `ManySegments` are limits of the code that are
smaller in the runs, so that short inputs reach them; `MaxTicks` of `Commonmark`
bounds the lengths of backtick runs.

Deadlock is not checked where a program may stop calling; `inline_text`,
`paragraphs` and `commonmark` check it, and end in a step that repeats.

### Disagreements between code and documents

The violation run exhibits one, with the quoted line in `PROJECT.json`: a text, or
a footnote reference, detached from its document and kept longer than it still
points into memory that the collector frees with the document.

The others were reproduced with the compiled library (those of the Ruby files were
read off the source). The properties leave exactly these out, each by a named
condition. Lines of `spec.txt` are those of `src/fixtures/spec.txt`.

Blocks and paragraphs:
- A list is made loose by a link reference definition at its end when a heading or
  another block follows (`blocks.c:432`). A heading or thematic break followed by
  a blank line does not make it loose.
- A setext heading's source position ends on the line after its underline
  (`blocks.c:327`).
- `[foo]: /url`, then `---`: the dashes become text of the paragraph instead of a
  thematic break (`blocks.c:1255`).
- A rejected title is kept: after `[foo]: /url` and `"title" ok`, `foo` has a title
  (`inlines.c:1693`, spec.txt:3038).
- Definitions before the header row of a table, in the same paragraph, define
  nothing and are text; after one delimiter row that does not fit, the paragraph
  begins no table.
- A task item is checked if `[x]` stands anywhere in its line, and none is
  recognised in a block quote (`tasklist.c`).
- An empty buffer fed between a CR and its LF makes a line.

Inlines:
- A run of delimiters that can both open and close leaves a bound that hides an
  opener from a later run of the same length that can only close (`**a*b****`).
- A link can be put into a link after a second `[` (`inlines.c:630`, spec.txt:8133),
  and around addresses found after parsing, if it holds another autolink.
- The remembered positions of backticks miss a span after a search that failed:
  `` `` x `a` `b` `` has one span (`inlines.c:323`, spec.txt:6133).
- `<!--a--->`, `<![CDATA[a]]]>` and `<?a??>` are not closed where they should be;
  after a comment without an end CDATA and declarations are not looked for either
  (spec.txt:9409).
- `[a](<b\` newline `c>)` and `[a](( )` are links (spec.txt:7773); the scanner of
  titles may take a backslash for an ordinary character.
- A footnote reference over a line end loses its text, and `[\^a]` is one.
- Columns: those of backticks left as text, those after a newline in a destination
  or after a backslash, those of autolinks, the last of a code span of several lines.
- An address after another is missed or cut (the state of the search is kept), and
  one that ends in a digit (spec.txt:9319).
- Seven hyphens become one em and two en dashes (`smart_punct.txt`: two and one).
- The scanners of table cells and task lists run past the NUL that should stop them.

The tree and Ruby:
- A node can be inserted beside itself, which breaks the list (`node.c:1063`;
  `SelfSibling` of `NodeTree` and `NodeGC`).
- `append_after` of the previous sibling does not end, `append_before` of it
  corrupts the list (`MeetsReceiver`); both move the siblings after the node given
  as well, where their documentation says "Append the given node" (`node.rb:150`,
  `node.rb:169`; `Brought`).
  `replace_section` has deleted the section when the new node is refused.
- Anchors are not unique for headings "a", "a", "a-2" (`Counted`).
- A footnote that only a dropped definition refers to has links back to nothing
  (`blocks.c:535`). The Ruby renderer gives all references to one footnote the same
  anchor. The section of a heading inside a list or quote does not end there.

CommonMark output that does not read back (conditions of `Known`):
- Lines are broken before `-`, `+`, `=` words and, after a soft break, digits,
  against the comment at `render.c:85` (`MarkerBegins`), inside code at its last
  space (`CodeSpaces`) and in table rows (`RowBreaks`).
- Blank lines: none between the blocks of a quote in a tight item, a paragraph and
  a thematic break, or a table and what follows, in a tight item (`TightMerges`,
  `TableGoesOn`); without the prefix of a quote after HTML and indented code, which
  ends it (`QuoteEnds`); before the first block of an ordered item, which moves its
  content (`ItemBlank`).
- Indentation: code after indented code is one block (`CodeMerges`); blocks after a
  list that begins an item leave the item (`ItemEnds`); an item after a task item is
  nested in it, and ordered task lists become bullets (`TaskMarks`).
- `is_autolink` reads the first field of whatever the link holds: a link around an
  image of the same URL loses the image (`ContentLost`); `[a](mailto:a)` becomes
  `<a>`, a tag (`NoAddress`).
- A break in a heading splits it (`HeadingBreaks`). Code that is all spaces gains
  two (`CodeSpaces`).
- Pipes are not escaped in strikethrough in a cell (`PipeSplits`), nor in text that
  thereby begins a table (`TableBegins`).
- Not seen by the run, because its reader does not pair delimiters or its documents
  have none: emphasis that begins or ends with emphasis, and adjacent strikethrough,
  run together; the escapes of tab and newline have a space in place of a digit; text
  that begins with a space at the start of a wrapped line has its prefix twice.

### Fairness

`Inlines`: weak fairness of `Next` after the last token: the loop runs on one
thread until it is done. `NodeGC`: weak fairness of the allocation (it returns),
of marking and of sweeping (Ruby collects again and again); none of the
program's own steps. `Collected` assumes that the program in the end drops what
it holds. `LineFeed`: weak fairness of the steps inside a call, none of the
calls. `NodeEdits`: weak fairness of a turn of the loop of the method called. Each
of these runs on one thread and has nothing to wait for. The other modules have
safety properties only; their state graphs have no cycle, since every step takes
up input, so they come to an end as long as they are not stuck.

## Proofs

| module | what it proves | about |
|---|---|---|
| `NodeLinksProofs` | the operations of `node.c` keep `WellFormed` | lemmas about `NodeLinks` |
| `NodeForestProofs` | `WellLinked`, `NoDangling`, `NodeCheckClean`, `Containment`, `TypeOK`, `Acyclic`; `ImplementsForest`, `EachCall` | `NodeTree`, `NodeForest` |
| `NodeGCProofs` | `HeldIntact`, `Paired`, `TreesDieWhole`, `TypeOK` | `NodeGC` |
| `LineFeedProofs` | `FrontMatterDivided`, `ImplementsSplit`, `TypeOK` | `LineFeed` |
| `InlinesProofs` | `StackMatchesTree`, `SearchComplete` | `Inlines` |
| `BlocksProofs` | `OpenPath`, `LinesInOrder`, `AssertionsHold`, `TypeOK` | `Blocks` |
| `FootnotesProofs` | `NothingStale`, `Settled` | `Footnotes` |
| `ListLemmas` | removing from and inserting into sequences, sequences without repetition, least numbers | used by five of these |

The theorems hold for every value of the constants that satisfies the assumptions
of the modules (`NULL` is not a node, the types callers create are node types,
the kinds of lines of a document are lines, and so on) and, where it is stated,
one of the hypotheses below. Each of the inductive invariants was checked by
TLC on the instance of its run before it was proved, with the
quantifiers over sequences and sets bounded or given their witness.

**Tree.** The inductive invariant is `WellFormed`. The checked properties are not
inductive alone. Consistent links do not exclude a circular sibling list that its
parent does not reach; releasing a subtree then frees nodes that others still
point to. `WellFormed` therefore adds that sibling lists end (`Founded(h.prev)`,
stated as: every nonempty set of nodes has one whose `prev` is outside it) and
that unallocated addresses are blank. Eight of the ten operations are an unlinking
followed by an insertion into a gap between two neighbours; the lemmas
`UnlinkWellFormed` and `InsertWellFormed` treat these once, and each operation is
reduced to them. Release, clone and retyping have lemmas of their own; for
release, the walk along `first_child` and `next` is shown to reach exactly the
descendants (`SubtreeDescendants`), since `next` of the root of the walk is not
followed. `NoCycles` follows from the ancestor walk of `S_can_contain`: the parent
of the moved node is outside its subtree. `CheckFindsNothing` says the same as
`cmark_node_check` would: below any root it has nothing to report. All assume
`SelfSibling = FALSE`: a node inserted beside itself is unlinked and then linked to
itself, outside its parent's list.

**Forest.** The refinement needs the children as sequences, and that the walk
along `next` finds a sequence at all is a statement about a recursion. The
invariant avoids it: for every node there *is* a sequence (`Lists`) with which the
pointers agree in both directions. Every operation turns such sequences into
others, by taking one element out and putting one in (`ListStays`, `UnlinkLists`,
`InsertLists`), and these are just the ones `Forest` asks for; at the start all
are empty. The walk can find only one sequence (`WalkFinds`), so the sequences are
the child lists of the mapping. There is one lemma per call that says it is the
step of `Forest` it is named for. `ChildrenAreLists` holds with and without safety
checks; the two refinements assume `SafetyChecks = TRUE`, because without the
ancestor walk a node can be moved below itself, and a cycle is no forest.

**Objects.** No single object knows why it is safe. The objects of a tree are
connected, because the program gets to a node only from its parent, a sibling or
a child: the parent of a node with a live object has one (`Climbs`). So the marks of
any of them reach the root, and from there the rest: a collection kills all the
objects of a tree or none. Afterwards a set of whole trees holds all objects that
wait for their finaliser (`Apart`), however many of the nodes between them have
already lost theirs, and no edit links a node of this set with one outside, since the
program holds none of its objects. The theorems assume `SelfSibling = FALSE`, as those of the tree do, and
`Footnotes = FALSE`: `parent_footnote_def` is the one pointer that leads out of a tree and is not
marked, and `node_gc_borrowed` shows where that ends.

**Line splitting.** `Divided` says where the parser is in the text: the lines
counted are those of the text, and `linebuf` has the characters since the last line
end, or the CR of a CR LF is behind it and the LF in the next buffer. `Gathered`
says what the front matter scanner has made of the lines counted. The sequence of
the lines of a text is never computed by recursion; `Promise!Split` numbers the
line ends, and lemmas on least elements and cardinality say what one more line end
adds. The refinement holds for every text, every cut and a parser used again.

**Search for openers.** `process_emphasis` remembers per length (modulo 3) and
character where a search that failed began. `Barred` says what such a bound means:
nothing below it opens what a run of this kind closes that may open as well. The
bound is set by *some* closer and used by another; the step is `MatchesLess`: a
closer that may also open is restrained by the rule of 3 at least as much as any of
its kind, so what the failed search did not match, it does not match either. For a
closer that only closes this is false, and so is completeness: it is among the
disagreements above, and `SearchComplete` names the case it leaves out.

**Open blocks.** Between two lines the open blocks are the path from the root to
`parser->current`, each the last child of its parent (`Rest`). Within a line there
are two paths: the one to `container`, and the part of the old one, from `current`
up to `last_matched_container`, that the line did not continue (`Shape`); blocks
of the second are closed by `finalize` one after the other, from below, and the
first only grows at its end. A paragraph of definitions that is freed is the end of
the second, which is why the pointers to it are not followed. The ancestors of a
block are a recursive function in the model; that there is such a function is proved
from the tree's being well-founded (`Rooted`), and that it gives the path from its
being the least set closed upwards (`Path`).

**Lines in order.** `TextInv` says where each line that has been read is: in the text
of one block, once, or dropped by the code on purpose, and only leaf blocks hold text
(`Filed`). Lines of one text are in order, and so are those of two blocks of which
one comes first in the tree (`Precedes`: the two are on or below two entries of one
list). A line is added to the container, which hangs last on its path, so that every
block that comes after it in the tree was opened by the same line and has no text
yet. `finalize` takes definitions from the front of a paragraph; `TextLeft` keeps the
order. `LinesInOrder` speaks of any two blocks and not of a traversal, so that no
recursion is needed; TLC found it equal to the traversal's order in all states of
its run. `BlocksAreOneTree` proves the type invariant, that every block but the root
is in exactly one list.

**Stacks and tree.** The text of every delimiter on the stack, and of every open
bracket, is a node of the tree, and walking along the list that holds it meets those
of the stack in the stack's order (`RowsOK`). Inserting emphasis moves the nodes
between two delimiters below a new node, and closing a bracket moves all that
follow it below a link. During the latter the stack is divided: the delimiters
behind the bracket (`Enclosed`) are in the list of the link, the rest (`Outside`)
still in the block's. The tree is lists of children without repetition, with no node
on two of them and no way round (`Lists`, `Founded`); each of the two moves takes a
section out of one list, puts a node in its place and hangs the section below that
(`Nested`), and releasing a text only takes entries away (`Shrunk`). The texts' order
survives because a move takes a section of a list that is a section of the stack:
rows that lie outside it, that lie in it, and those of other lists are three lemmas
(`RowStays`, `RowSinks`, `RowElsewhere`). `Positions` was checked on all states of
the run `inlines` before it was proved.

**Footnotes.** Of any nodes of a document one has neither its first child nor its
`next` among them (`Descends`: a finite set that the step from a node to one of the
two maps into itself would be permuted by it, and its topmost, first node is
reached from none). So walks end: a set of iterators that is closed under
`cmark_iter_next` has one that is done (`Ends`). This is what gives the recursive
functions of the model, the turns of a loop (`Forward`) and the recursion of
`S_free_nodes` (`BelowOf`), a value; what they yield is then stated with closed
sets of iterators and not by induction. An iterator that leaves a node does not come
back to it (`NoReturn`), hence no definition is collected twice (`Past`), hence none
is freed twice. Each operation on the tree keeps it well formed, without cycles and
below the document, and changes parents and types only where it should (`MovedIs`,
`UnlinkedIs`, `RestoredIs`, `FreeTreeIs`, `GrownIs`, from the lemmas of
`NodeLinksProofs`); a node the iterator stands before is freed by none of them. A
numbered reference points to a definition of the map that waits for its move
(`Waiting`), or that hangs below the document and stays (`Home`), also when it was
inside another definition that is freed. `IInv` was checked on all 1,090,000 states
of the run `rendering` before it was proved. The assumptions are those of
`Footnotes` on its constants: addresses are numbers, the shapes that are added
respect `S_can_contain`, and an allocation finds an address.

`Settled` rests on a second invariant, `SInv`, whose steps are proved from both.
`Covered` says that a walk has seen to all it has left: at any point of an iteration
the document divides into nodes that have been left, nodes the iterator is in, and
the rest (`Walked`), each turn enters a node or leaves one (`WalkGoesOn`), the
division survives that the current reference becomes a text and that the text after
the current one is freed, and at the end everything has been left (`WalkEnds`). So
when a loop is done there is no definition that was not collected, no
reference without a definition, no text before a text. `Numbers` says that the
numbers given are those from 1 on, each to one entry, and that the entries are moved
in that order; `Ordered` that the definitions moved so far end the document in it
(each move puts one after the last), and that a reference carries the place of its
definition there, or the number of an entry yet to be moved; `Counted` that
references to a definition have its label and ranks that differ; `Named` that the
kept entry of a label is the oldest and that a text has no label that the map knows,
unless it is too long; `Placed` that only what the map holds is outside the document.
The list of definitions in `Settled` is defined by recursion along `next`;
`ChildrenAre` gives it a value, `EndIs` says which. Before it was proved, `SInv` was
checked on the 78,202 states of documents of at most five nodes, and all of it but
`Covered` on those of the run `rendering`.

Not proved, and why:

- Liveness (`Collected`, `Returns`, `CallsReturn`, `Parsed`) and deadlock: out of
  the prover's reach, which has no rules for `ENABLED`.
- What recursive definitions compute for every input. The properties of `InlineText`,
  `Paragraphs`, `Rendering` and `CommonmarkReads` compare such definitions with each
  other, and `Autolinks`, `Html`, `Reread` and what is built on them (`Paragraphs` by
  way of `InlineText`) use recursive operators, for which the prover has no backend:
  this includes `LookupsRight`, whose look-ups are no recursion by themselves.
  `SourceKept` of `Inlines` writes the tree out and compares it with the tokens;
  `TightAsSpecified` of `Blocks` walks down to the last block of an item.
  The methods of `NodeEdits` follow the lists they edit, and its properties compare
  what they did with sequences built up from the lists of before.
- That the code comes to its end: with these, the state graphs of `Blocks`,
  `Footnotes` and `Inlines` have no cycle in the runs, and `Ends` says so for the
  walks of the footnote phase only.

## Not modelled

- The XML, LaTeX, man and plain text renderers: they format a finished tree with
  the iterator and, but for XML, the renderer of `Commonmark`; nothing reads their
  output back.
- The recognition of task list items, and the tag filter: single scans of a line
  or a text, without state. (What the first gets wrong is listed above.)
- The extension registry: lists filled once, when the library is loaded.
- `buffer.c`, `arena.c`, `utf8.c`, `houdini_*.c`: bytes. Decoding entities is in
  `InlineText`; the arena allocator is never selected.
- Compacting collections in `NodeGC`; attribute accessors and option conversion of
  `markly.c`.

## Plan

1. *(done)* `NodeLinks`, `NodeTree`, `Forest`; `NodeGC`;
   `Inlines`; `Blocks`; `Iterator`, `Footnotes`, `Html`, `Rendering`.
2. *(done)* `NodeEdits`; `LineFeed` and `LineSplit`; `Scanners`, `References` and
   `Paragraphs` (tables included); `InlineText` and `Autolinks`; `Commonmark`.
3. *(done)* Proofs of `NodeTree`, of the refinements of `Forest` and `LineSplit`, of
   `NodeGC` without footnotes, of the open path of `Blocks` and the search of
   `Inlines`; of `StackMatchesTree`, `LinesInOrder`, `NothingStale` and `Settled`.
4. Left: `WellFormed` through the methods of `NodeEdits`, from the lemmas of
   `NodeLinksProofs`; `TightAsSpecified` of `Blocks`, with the last block of an item
   given as a set of blocks instead of a walk, as was done for the open path.
