------------------------------ MODULE Commonmark ------------------------------
(***************************************************************************)
(* The CommonMark renderer: S_out and cmark_render of render.c, which lay  *)
(* text out in lines of a given width behind the prefixes of the blocks it *)
(* is in, S_render_node of commonmark.c, which writes each node, and what  *)
(* the extensions write of theirs (table.c, strikethrough.c, tasklist.c).  *)
(*                                                                         *)
(* One event of the iterator is one step.  Texts are sequences of          *)
(* characters, one byte each; HTML and "mailto:" are one character, and a  *)
(* number below ten is its digit.                                          *)
(***************************************************************************)
EXTENDS Iterator, Integers, SequencesExt, FiniteSetsExt, TLC

CONSTANTS
  Documents,     \* sets of documents: a heap, what its nodes say, options, a width
  MaxTicks       \* the longest backtick string looked for

ASSUME TicksAssumption == MaxTicks \in Nat

VARIABLES
  heap,
  fields,        \* per node: literal, tight, bullet, start, level, url, title, info,
                 \* task (of an item), aligned (the columns of a table)
  options,       \* the flags that matter to this renderer
  width,
  index,         \* what as.list.start of an item has become
  ancestor_extension,   \* the extension a node, or the nearest node it is in, belongs to
  iter,
  renderer

vars == <<heap, fields, options, width, index, ancestor_extension, iter, renderer>>

-----------------------------------------------------------------------------
\* Characters.
Digit == {"0", "1", "2", "3", "4", "5", "6", "7", "8", "9"}
Letter == {"a", "b", "c", "x"}
White == {" ", "\t", "\n"}
Punct == {"!", "#", "&", "(", ")", "*", "+", "-", ".", "<", "=", ">", "[", "\\", "]", "_",
          "BACKTICK", "~", ":", "\"", "|"}
NoChar == "NUL"

Times(c, n) == [i \in 1 .. n |-> c]
CharAt(s, i) == IF i \in DOMAIN s THEN s[i] ELSE NoChar

-----------------------------------------------------------------------------
(* render.c                                                                *)

NewRenderer ==
  [buffer |-> <<>>, prefix |-> <<>>, column |-> 0, need_cr |-> 0, last_breakable |-> 0,
   begin_line |-> TRUE, begin_content |-> TRUE, no_linebreaks |-> FALSE,
   in_tight_list_item |-> FALSE]

S_cr(r) == [r EXCEPT !.need_cr = Max({@, 1})]
S_blankline(r) == [r EXCEPT !.need_cr = Max({@, 2})]

\* The line ends that are owed, less those the buffer has: at most one in a
\* tight list.  A blank line gets the prefix.
Owed(r) == IF r.in_tight_list_item THEN Min({r.need_cr, 1}) ELSE r.need_cr
EndLine(r, acc, n) ==
  IF acc.k < 1 \/ r.buffer[acc.k] = "\n" THEN [acc EXCEPT !.k = @ - 1]
  ELSE [acc EXCEPT !.buffer = @ \o <<"\n">> \o IF n > 1 THEN r.prefix ELSE <<>>]
EndLines(r) ==
  IF Owed(r) = 0 THEN [r EXCEPT !.need_cr = 0]
  ELSE LET ended == FoldLeft(LAMBDA acc, n : EndLine(r, acc, n),
                             [buffer |-> r.buffer, k |-> Len(r.buffer)],
                             SubSeq(<<2, 1>>, 3 - Owed(r), 2))
       IN  [r EXCEPT !.buffer = ended.buffer, !.column = 0, !.last_breakable = 0,
                     !.begin_line = TRUE, !.begin_content = TRUE, !.need_cr = 0]

BeginLine(r) ==
  IF r.begin_line THEN [r EXCEPT !.buffer = @ \o r.prefix, !.column = Len(r.prefix)] ELSE r

Put(r, s) == [r EXCEPT !.buffer = @ \o s, !.column = @ + Len(s)]

\* A space at which the line may be broken, unless a digit comes next.
Breakable(r, next) ==
  IF r.begin_line THEN r
  ELSE [Put(r, <<" ">>) EXCEPT !.begin_content = FALSE,
          !.last_breakable = IF next \in Digit THEN @ ELSE Len(r.buffer)]

NewLine(r) ==
  [r EXCEPT !.buffer = Append(@, "\n"), !.column = 0, !.begin_line = TRUE,
            !.begin_content = TRUE, !.last_breakable = 0]

\* Mutant: a digit ends the beginning of a line like any other character.
WrittenAtOnce(r, c, s) == [Put(r, s) EXCEPT !.begin_line = FALSE, !.begin_content = FALSE]

\* A character that is not the end of a line; digits do not end the beginning.
Written(r, c, s) ==
  [Put(r, s) EXCEPT !.begin_line = FALSE, !.begin_content = @ /\ c \in Digit]

\* Mutant: the prefix of the new line is not counted.
BreakUncounted(r, w) ==
  IF w > 0 /\ r.column > w /\ ~r.begin_line /\ r.last_breakable > 0
  THEN LET remainder == SubSeq(r.buffer, r.last_breakable + 2, Len(r.buffer))
       IN  [r EXCEPT !.buffer = SubSeq(@, 1, r.last_breakable) \o <<"\n">> \o r.prefix \o remainder,
                     !.column = Len(remainder), !.last_breakable = 0,
                     !.begin_line = FALSE, !.begin_content = FALSE]
  ELSE r

\* A line that has become too long is broken at the last space possible.
BreakLine(r, w) ==
  IF w > 0 /\ r.column > w /\ ~r.begin_line /\ r.last_breakable > 0
  THEN LET remainder == SubSeq(r.buffer, r.last_breakable + 2, Len(r.buffer))
       IN  [r EXCEPT !.buffer = SubSeq(@, 1, r.last_breakable) \o <<"\n">> \o r.prefix \o remainder,
                     !.column = Len(r.prefix) + Len(remainder), !.last_breakable = 0,
                     !.begin_line = FALSE, !.begin_content = FALSE]
  ELSE r

-----------------------------------------------------------------------------
(* outc of commonmark.c: what stands for a character.                      *)

\* A character that would make a list item or a heading of the line.
Marker(r, c, next) ==
  LET follows_digit == CharAt(r.buffer, Len(r.buffer)) \in Digit
  IN  /\ r.begin_content
      /\ \/ c \in {"-", "+", "="} /\ ~follows_digit
         \/ c \in {".", ")"} /\ follows_digit /\ next \in White \cup {NoChar}

NeedsEscaping(r, escape, c, next) ==
  CASE escape = "NORMAL" ->
         \/ c \in {"*", "_", "[", "]", "#", "<", ">", "\\", "BACKTICK", "~", "!"}
         \/ c = "&" /\ next \in Letter
         \/ Marker(r, c, next)
    [] escape = "URL" -> c \in {"BACKTICK", "<", ">", "\\", ")", "("} \cup White
    [] escape = "TITLE" -> c \in {"BACKTICK", "<", ">", "\"", "\\"}
    [] OTHER -> FALSE

\* "%2X" has a space where a hexadecimal number is short of a digit.
PercentEncoded(c) ==
  CASE c = " " -> <<"%", "2", "0">>
    [] c = "\t" -> <<"%", " ", "9">>
    [] c = "\n" -> <<"%", " ", "A">>

outc(r, escape, c, next) ==
  IF ~NeedsEscaping(r, escape, c, next) THEN <<c>>
  ELSE IF c \in White THEN PercentEncoded(c) ELSE <<"\\", c>>

\* Of the extensions only that of tables escapes a character, in what is in a
\* cell.  The node being written is iter.next; the backslash is not counted.
Escaped(r, c) ==
  IF /\ c = "|" /\ ancestor_extension'[iter.next] = "table"
     /\ heap.type[iter.next] \notin {"table", "table_row", "table_cell"}
  THEN [r EXCEPT !.buffer = Append(@, "\\")] ELSE r

\* One turn of the loop of S_out.  A space after one that was written, or that
\* began a line, is passed over with it.
OneChar(r, source, i, wrap, escape) ==
  LET c == source[i]
      next == CharAt(source, Min({j \in i + 1 .. Len(source) + 1 :
                                    j > Len(source) \/ source[j] # " " \/ c # " " \/ ~wrap}))
      q == Escaped(BeginLine(r), c)
  IN  BreakLine(IF c = " " /\ wrap THEN Breakable(q, next)
                ELSE IF escape = "LITERAL" /\ c = "\n" THEN NewLine(q)
                ELSE Written(q, c, IF escape = "LITERAL" THEN <<c>> ELSE outc(q, escape, c, next)),
                width)

S_out(r, source, wrapped, escape) ==
  LET wrap == wrapped /\ ~r.no_linebreaks
      PassedOver(q, i) ==
        wrap /\ i > 1 /\ source[i] = " " /\ source[i - 1] = " " /\ ~q.begin_line
  IN  FoldLeft(LAMBDA q, i : IF PassedOver(q, i) THEN q ELSE OneChar(q, source, i, wrap, escape),
               EndLines(r), [i \in DOMAIN source |-> i])

-----------------------------------------------------------------------------
\* What a node does with the renderer is a sequence of calls.
OUT(s, wrap, escape) == [op |-> "out", s |-> s, wrap |-> wrap, escape |-> escape]
LIT(s) == OUT(s, FALSE, "LITERAL")
CR == [op |-> "cr"]
BLANKLINE == [op |-> "blankline"]
Push(s) == [op |-> "push", s |-> s]           \* onto the prefix
Pop(n) == [op |-> "pop", n |-> n]
BeginContent == [op |-> "begin_content"]
NoLinebreaks(yes) == [op |-> "no_linebreaks", yes |-> yes]

Call(r, c) ==
  CASE c.op = "out" -> S_out(r, c.s, c.wrap, c.escape)
    [] c.op = "cr" -> S_cr(r)
    [] c.op = "blankline" -> S_blankline(r)
    [] c.op = "push" -> [r EXCEPT !.prefix = @ \o c.s]
    [] c.op = "pop" -> [r EXCEPT !.prefix = SubSeq(@, 1, Len(@) - c.n)]
    [] c.op = "begin_content" -> [r EXCEPT !.begin_content = TRUE]
    [] c.op = "no_linebreaks" -> [r EXCEPT !.no_linebreaks = c.yes]

-----------------------------------------------------------------------------
(* commonmark.c                                                            *)

Current == iter'.cur
Entering == iter'.ev = "enter"
Type(n) == IF n = NULL THEN "none" ELSE heap.type[n]
Parent == heap.parent[Current]
Allows(flag) == flag \notin options
AllowWrap == width > 0 /\ Allows("NOBREAKS") /\ Allows("HARDBREAKS")

\* The flag follows the items entered and the lists left.
TightStatus(r, n, entering) ==
  LET p == heap.parent[n]
      tight == Type(p) = "item" /\ fields[heap.parent[p]].tight
  IN  IF entering
      THEN [r EXCEPT !.in_tight_list_item = IF Type(p) = "item" THEN tight ELSE @]
      ELSE [r EXCEPT !.in_tight_list_item = IF Type(n) = "list" THEN tight ELSE @]

\* cmark_render numbers the items before they are rendered.
Numbered(n) ==
  IF Type(n) # "item" THEN index
  ELSE [index EXCEPT ![n] = IF heap.prev[n] = NULL THEN fields[heap.parent[n]].start
                            ELSE index[heap.prev[n]] + 1]

\* The extension a node belongs to, and what it and the nodes in it inherit.
Extension(n) ==
  CASE Type(n) \in {"table", "table_row", "table_cell"} -> "table"
    [] Type(n) = "strikethrough" -> "strikethrough"
    [] fields[n].task # "none" -> "tasklist"
    [] OTHER -> "none"
Inherited(n) ==
  IF Extension(n) # "none" THEN [ancestor_extension EXCEPT ![n] = Extension(n)]
  ELSE IF heap.parent[n] # NULL THEN [ancestor_extension EXCEPT ![n] = ancestor_extension[heap.parent[n]]]
  ELSE ancestor_extension

\* A call of render_node for a node of some types.
Event(types) ==
  /\ iter.next_ev # "done"
  /\ heap.type[iter.next] \in types
  /\ iter' = IterNext(heap, iter)
  /\ index' = Numbered(iter.next)
  /\ ancestor_extension' = Inherited(iter.next)
  /\ UNCHANGED <<heap, fields, options, width>>
Render(calls) == renderer' = FoldLeft(Call, TightStatus(renderer, Current, Entering), calls)

Document == Event({"document"}) /\ Render(<<>>)

BlockQuote ==
  /\ Event({"block_quote"})
  /\ Render(IF Entering THEN <<LIT(<<">", " ">>), BeginContent, Push(<<">", " ">>)>>
            ELSE <<Pop(2), BLANKLINE>>)

\* Two lists, or a list and indented code, are told apart by a comment.
List ==
  /\ Event({"list"})
  /\ Render(IF ~Entering /\ Type(heap.next[Current]) \in {"code_block", "list"}
            THEN <<CR, LIT(<<"<!-- end list -->">>), BLANKLINE>> ELSE <<>>)

ListMarker(n) ==
  LET list == fields[heap.parent[n]]
      digits == IF index'[n] < 10 THEN <<ToString(index'[n])>>
                ELSE <<ToString(index'[n] \div 10), ToString(index'[n] % 10)>>
  IN  IF list.bullet THEN <<" ", " ", "-", " ">>
      ELSE digits \o <<list.delim>> \o Times(" ", IF index'[n] < 10 THEN 2 ELSE 1)

Item ==
  /\ Event({"item"})
  /\ fields[Current].task = "none"
  /\ LET marker == ListMarker(Current)
     IN  Render(IF Entering THEN <<LIT(marker), BeginContent, Push(Times(" ", Len(marker)))>>
                ELSE <<Pop(Len(marker)), CR>>)

Heading ==
  /\ Event({"heading"})
  /\ Render(IF Entering
            THEN Times(LIT(<<"#">>), fields[Current].level)
                   \o <<LIT(<<" ">>), BeginContent, NoLinebreaks(TRUE)>>
            ELSE <<NoLinebreaks(FALSE), BLANKLINE>>)

\* The lengths of the backtick strings in a text.
Runs(s) ==
  {j - i : <<i, j>> \in {<<i, j>> \in (1 .. Len(s)) \X (1 .. Len(s) + 1) :
     /\ i < j /\ \A k \in i .. j - 1 : s[k] = "BACKTICK"
     /\ CharAt(s, i - 1) # "BACKTICK" /\ CharAt(s, j) # "BACKTICK"}}
longest_backtick_sequence(s) == Max(Runs(s) \cup {0})
shortest_unused_backtick_sequence(s) == Min((1 .. MaxTicks) \ (Runs(s) \ {MaxTicks}))

FirstInItem(n) == heap.prev[n] = NULL /\ Type(heap.parent[n]) = "item"
IndentedCode(n) ==
  LET code == fields[n].literal
      last == Len(code)
  IN  /\ fields[n].info = <<>> /\ last > 2 /\ ~FirstInItem(n)
      /\ code[1] \notin White /\ ~(code[last] \in White /\ code[last - 1] \in White)

CodeBlock ==
  /\ Event({"code_block"})
  /\ LET f == fields[Current]
         fence == Times(LIT(<<IF "BACKTICK" \in ToSet(f.info) THEN "~" ELSE "BACKTICK">>),
                        Max({3, longest_backtick_sequence(f.literal) + 1}))
         indent == Times(" ", 4)
     IN  Render((IF FirstInItem(Current) THEN <<>> ELSE <<BLANKLINE>>)
                \o (IF IndentedCode(Current) THEN <<LIT(indent), Push(indent), LIT(f.literal), Pop(4)>>
                    ELSE fence \o <<LIT(<<" ">>), LIT(f.info), CR, LIT(f.literal), CR>> \o fence)
                \o <<BLANKLINE>>)

HtmlBlock ==
  Event({"html_block"}) /\ Render(<<BLANKLINE, LIT(fields[Current].literal), BLANKLINE>>)

ThematicBreak ==
  Event({"thematic_break"}) /\ Render(<<BLANKLINE, LIT(Times("-", 5)), BLANKLINE>>)

Paragraph ==
  Event({"paragraph"}) /\ Render(IF Entering THEN <<>> ELSE <<BLANKLINE>>)

FootnoteDefinition ==
  /\ Event({"footnote_definition"})
  /\ Render(IF Entering
            THEN <<LIT(<<"[", "^">>), LIT(fields[Current].literal), LIT(<<"]", ":", "\n">>),
                   Push(Times(" ", 4))>>
            ELSE <<Pop(4)>>)

FootnoteReference ==
  /\ Event({"footnote_reference"})
  /\ Render(IF Entering THEN <<LIT(<<"[", "^">>), LIT(fields[Current].literal), LIT(<<"]">>)>>
            ELSE <<>>)

-----------------------------------------------------------------------------
(* Inlines.                                                                *)

Text == Event({"text"}) /\ Render(<<OUT(fields[Current].literal, AllowWrap, "NORMAL")>>)

HardBreakCalls == <<LIT(<<" ", " ">>), CR>>
Linebreak ==
  Event({"linebreak"}) /\ Render(IF Allows("HARDBREAKS") THEN HardBreakCalls ELSE <<CR>>)

Softbreak ==
  /\ Event({"softbreak"})
  /\ Render(IF ~Allows("HARDBREAKS") THEN HardBreakCalls
            ELSE IF ~renderer.no_linebreaks /\ width = 0 /\ Allows("NOBREAKS") THEN <<CR>>
            ELSE <<OUT(<<" ">>, AllowWrap, "LITERAL")>>)

Code ==
  /\ Event({"code"})
  /\ LET f == fields[Current]
         ticks == Times(LIT(<<"BACKTICK">>), shortest_unused_backtick_sequence(f.literal))
         extra_spaces == f.literal = <<>> \/ {f.literal[1], Last(f.literal)} \cap {"BACKTICK", " "} # {}
         padding == IF extra_spaces THEN <<LIT(<<" ">>)>> ELSE <<>>
         language == IF f.info = <<>> THEN <<>> ELSE <<LIT(f.info), LIT(<<":">>)>>
     IN  Render(language \o ticks \o padding \o <<OUT(f.literal, AllowWrap, "LITERAL")>>
                  \o padding \o ticks)

HtmlInline == Event({"html_inline"}) /\ Render(<<LIT(fields[Current].literal)>>)

\* Strong in strong has no delimiters of its own; emphasis as the only child of
\* emphasis has the other one.
Strong ==
  Event({"strong"}) /\ Render(IF Type(Parent) = "strong" THEN <<>> ELSE <<LIT(<<"*", "*">>)>>)

EmphDelim(n) ==
  IF Type(heap.parent[n]) = "emph" /\ heap.next[n] = NULL /\ heap.prev[n] = NULL THEN "_" ELSE "*"
Emph == Event({"emph"}) /\ Render(<<LIT(<<EmphDelim(Current)>>)>>)

\* The first field of the union as, whatever the type of the node.
AsLiteral(n) ==
  CASE Type(n) \in {"text", "html_inline", "footnote_reference"} -> fields[n].literal
    [] Type(n) = "code" -> fields[n].info
    [] Type(n) \in {"link", "image"} -> fields[n].url
    [] OTHER -> <<>>

HasScheme(url) ==
  \E i \in DOMAIN url : /\ url[i] = ":" /\ (i > 2 \/ url[1] = "mailto")
                        /\ \A j \in 1 .. i - 1 : url[j] \in Letter \cup {"mailto"}
Address(url) == IF SubSeq(url, 1, 2) = <<"mailto", ":">> THEN SubSeq(url, 3, Len(url)) ELSE url
is_autolink(n) ==
  LET f == fields[n]
  IN  /\ HasScheme(f.url) /\ f.title = <<>> /\ heap.first_child[n] # NULL
      /\ Address(f.url) = AsLiteral(heap.first_child[n])

\* What is in an autolink is skipped: the iterator goes on after its exit.
Autolink ==
  /\ iter.next_ev = "enter" /\ Type(iter.next) = "link" /\ is_autolink(iter.next)
  /\ iter' = IterReset(heap, iter, iter.next, "exit")
  /\ ancestor_extension' = Inherited(iter.next)
  /\ renderer' = FoldLeft(Call, TightStatus(renderer, iter.next, TRUE),
                          <<LIT(<<"<">>), LIT(Address(fields[iter.next].url)), LIT(<<">">>)>>)
  /\ UNCHANGED <<heap, fields, options, width, index>>

\* The end of a link or an image.
Destination(f, wrap) ==
  <<LIT(<<"]", "(">>), OUT(f.url, FALSE, "URL")>>
    \o (IF f.title = <<>> THEN <<>>
        ELSE <<OUT(<<" ", "\"">>, wrap, "LITERAL"), OUT(f.title, FALSE, "TITLE"), LIT(<<"\"">>)>>)
    \o <<LIT(<<")">>)>>

Link ==
  /\ Event({"link"})
  /\ ~is_autolink(Current)
  /\ Render(IF Entering THEN <<LIT(<<"[">>)>> ELSE Destination(fields[Current], FALSE))

Image ==
  /\ Event({"image"})
  /\ Render(IF Entering THEN <<LIT(<<"!", "[">>)>> ELSE Destination(fields[Current], AllowWrap))

-----------------------------------------------------------------------------
(* What the extensions write of the nodes that belong to them.             *)

Table == Event({"table"}) /\ Render(<<BLANKLINE>>)

TableRow == Event({"table_row"}) /\ Render(IF Entering THEN <<CR, LIT(<<"|">>)>> ELSE <<>>)

DelimiterCell(alignment) ==
  LIT(CASE alignment = "none" -> <<" ", "-", "-", "-", " ", "|">>
        [] alignment = "left" -> <<" ", ":", "-", "-", " ", "|">>
        [] alignment = "center" -> <<" ", ":", "-", ":", " ", "|">>
        [] alignment = "right" -> <<" ", "-", "-", ":", " ", "|">>)

\* The last cell of the header is followed by the delimiter row.
TableCell ==
  /\ Event({"table_cell"})
  /\ LET aligned == fields[heap.parent[Parent]].aligned
         last_header == heap.prev[Parent] = NULL /\ heap.next[Current] = NULL
     IN  Render(IF Entering THEN <<LIT(<<" ">>)>>
                ELSE <<LIT(<<" ", "|">>)>>
                     \o IF ~last_header THEN <<>>
                        ELSE <<CR, LIT(<<"|">>)>>
                               \o [i \in DOMAIN aligned |-> DelimiterCell(aligned[i])] \o <<CR>>)

Strikethrough == Event({"strikethrough"}) /\ Render(<<LIT(<<"~", "~">>)>>)

\* An item of a task list is written as one of a bullet list.
TaskItem ==
  /\ Event({"item"})
  /\ fields[Current].task # "none"
  /\ LET mark == IF fields[Current].task = "checked" THEN "x" ELSE " "
     IN  Render(IF Entering THEN <<CR, LIT(<<"-", " ", "[", mark, "]", " ">>), Push(<<" ", " ">>)>>
                ELSE <<Pop(2), CR>>)

\* What stands before a document.
FrontMatter ==
  /\ Event({"front_matter"})
  /\ LET f == fields[Current]
         info == IF f.info = <<>> THEN <<>> ELSE <<LIT(<<" ">>), LIT(f.info)>>
     IN  Render(IF Entering
                THEN <<BLANKLINE, LIT(Times("-", 3))>> \o info
                       \o <<LIT(<<"\n">>), LIT(f.literal), LIT(Append(Times("-", 3), "\n")), BLANKLINE>>
                ELSE <<>>)

-----------------------------------------------------------------------------
\* A document ends with a line end.
Finish ==
  /\ iter.next_ev = "done" /\ iter.ev # "done"
  /\ iter' = IterNext(heap, iter)
  /\ renderer' = IF CharAt(renderer.buffer, Len(renderer.buffer)) = "\n" THEN renderer
                 ELSE [renderer EXCEPT !.buffer = Append(@, "\n")]
  /\ UNCHANGED <<heap, fields, options, width, index, ancestor_extension>>

Done == iter.ev = "done" /\ UNCHANGED vars

Init ==
  \E family \in Documents : \E d \in family :
    /\ heap = d.heap /\ fields = d.fields /\ options = d.options
    /\ width = IF "HARDBREAKS" \in d.options THEN 0 ELSE d.width
    /\ index = [n \in Node |-> 0]
    /\ ancestor_extension = [n \in Node |-> "none"]
    /\ iter = IterNew(d.root)
    /\ renderer = NewRenderer

Next ==
  \/ Document \/ BlockQuote \/ List \/ Item \/ Heading \/ CodeBlock \/ HtmlBlock
  \/ ThematicBreak \/ Paragraph \/ FootnoteDefinition \/ FootnoteReference
  \/ Text \/ Linebreak \/ Softbreak \/ Code \/ HtmlInline \/ Strong \/ Emph
  \/ Autolink \/ Link \/ Image \/ Table \/ TableRow \/ TableCell \/ Strikethrough
  \/ TaskItem \/ FrontMatter \/ Finish \/ Done

Spec == Init /\ [][Next]_vars
==============================================================================
