-------------------------------- MODULE Reread --------------------------------
(***************************************************************************)
(* What the CommonMark specification reads in the lines of a text          *)
(* (spec.txt), for the constructs that a renderer writes: a reference to   *)
(* compare the output of the renderer with.  Nothing here stands for code. *)
(*                                                                         *)
(* A line is a sequence of characters without its line end.  A block is a  *)
(* record; gap says whether a blank line comes before it.                  *)
(***************************************************************************)
EXTENDS Integers, Sequences, SequencesExt, FiniteSets, FiniteSetsExt, TLC

LOCAL Digits == {"0", "1", "2", "3", "4", "5", "6", "7", "8", "9"}
LOCAL Escapable == {"!", "#", "&", "(", ")", "*", "+", "-", ".", "<", "=", ">", "[", "\\", "]",
                    "_", "BACKTICK", "~", ":", "\"", "|"}

\* The lines of a text.
LinesOf(s) ==
  LET ends == {0} \cup {i \in DOMAIN s : s[i] = "\n"}
      Nth(k) == CHOOSE i \in ends : Cardinality({j \in ends : j < i}) = k
  IN  [k \in 1 .. Cardinality(ends) - 1 |-> SubSeq(s, Nth(k - 1) + 1, Nth(k) - 1)]

Lead(l) == Min({i \in 1 .. Len(l) + 1 : i > Len(l) \/ l[i] # " "}) - 1
Drop(l, n) == SubSeq(l, n + 1, Len(l))
Stripped(l) == Drop(l, Lead(l))
RightStripped(l) == Reverse(Stripped(Reverse(l)))
IsBlank(l) == Stripped(l) = <<>>
First(l) == Head(Stripped(l) \o <<"NUL">>)
Run(l, c) == Min({i \in 1 .. Len(l) + 1 : i > Len(l) \/ l[i] # c}) - 1

IsBreak(l) ==
  /\ First(l) \in {"-", "*", "_"} /\ ToSet(l) \subseteq {First(l), " "}
  /\ Cardinality({i \in DOMAIN l : l[i] = First(l)}) >= 3
IsUnderline(l) ==
  /\ First(l) \in {"-", "="} /\ ToSet(RightStripped(Stripped(l))) = {First(l)} /\ Lead(l) < 4

\* The marker of a list item: its kind, its number, its width with the spaces
\* that belong to it, and whether nothing comes after it.
MarkerEnd(t) ==
  IF t[1] \in {"-", "+", "*"} THEN 1
  ELSE LET n == Min({i \in 1 .. Len(t) + 1 : i > Len(t) \/ t[i] \notin Digits})
       IN  IF n > 1 /\ n <= Len(t) /\ t[n] \in {".", ")"} THEN n ELSE 0
HasMarker(l) ==
  LET t == Stripped(l)
      n == IF t = <<>> THEN 0 ELSE MarkerEnd(t)
  IN  n > 0 /\ (n = Len(t) \/ t[n + 1] = " ")
Marker(l) ==
  LET t == Stripped(l)
      n == MarkerEnd(t)
      after == Lead(Drop(t, n))
      empty == IsBlank(Drop(t, n))
  IN  [kind |-> t[n], number |-> SubSeq(t, 1, n - 1), empty |-> empty,
       width |-> Lead(l) + n + IF empty \/ after > 4 THEN 1 ELSE after]

IsFence(l) ==
  LET n == Run(Stripped(l), First(l))
  IN  /\ First(l) \in {"BACKTICK", "~"} /\ n >= 3
      /\ First(l) = "~" \/ "BACKTICK" \notin ToSet(Drop(Stripped(l), n))
IsHeading(l) ==
  LET n == Run(Stripped(l), "#") IN n \in 1 .. 6 /\ Head(Drop(Stripped(l), n) \o <<" ">>) = " "
Comments == {"<!-- a -->", "<!-- end list -->"}
LabelEnd(l) ==
  LET t == Stripped(l)
      ends == {i \in DOMAIN t : i > 3 /\ t[i] = ":" /\ t[i - 1] = "]" /\ t[2] = "^" /\ t[1] = "["}
  IN  IF ends = {} THEN 0 ELSE Min(ends)

\* What a line begins, in a place where no paragraph is open.
Starts(l) ==
  CASE IsBlank(l) -> "blank"
    [] ~IsBlank(l) /\ Lead(l) >= 4 -> "code"
    [] First(l) = ">" /\ Lead(l) < 4 -> "block_quote"
    [] IsHeading(l) /\ Lead(l) < 4 -> "heading"
    [] IsFence(l) /\ Lead(l) < 4 -> "fence"
    [] First(l) \in Comments /\ Lead(l) < 4 -> "html_block"
    [] IsBreak(l) /\ Lead(l) < 4 -> "thematic_break"
    [] HasMarker(l) /\ ~IsBreak(l) /\ Lead(l) < 4 -> "item"
    [] LabelEnd(l) > 0 /\ Lead(l) < 4 -> "footnote_definition"
    [] OTHER -> "text"

\* A line that goes on with a paragraph: an item that is empty or not the first
\* of its list is no beginning of one there.
GoesOn(l) ==
  \/ Starts(l) \in {"text", "code"}
  \/ Starts(l) = "item" /\ (Marker(l).empty \/ Marker(l).number \notin {<<>>, <<"1">>})

\* The lines of ls from the first on for which F holds.
Prefix(ls, F(_)) == Min({i \in 1 .. Len(ls) + 1 : i > Len(ls) \/ ~F(ls[i])}) - 1
LastNonblank(ls) == Max({0} \cup {i \in DOMAIN ls : ~IsBlank(ls[i])})

Content(ls) ==
  [i \in DOMAIN ls |-> IF i = Len(ls) THEN RightStripped(Stripped(ls[i])) ELSE Stripped(ls[i])]

\* The cells of a row, without the backslashes that keep pipes in them.
Pipes(t) == {i \in DOMAIN t : t[i] = "|" /\ Run(Reverse(SubSeq(t, 1, i - 1)), "\\") % 2 = 0}
Unpiped(s) ==
  FoldLeft(LAMBDA cell, i : IF IsPrefix(<<"\\", "|">>, Drop(s, i - 1)) THEN cell ELSE Append(cell, s[i]),
           <<>>, [i \in DOMAIN s |-> i])
Between(t, ends) ==
  LET Nth(k) == CHOOSE i \in ends : Cardinality({j \in ends : j < i}) = k
  IN  [k \in 1 .. Cardinality(ends) - 1 |->
         Unpiped(RightStripped(Stripped(SubSeq(t, Nth(k - 1) + 1, Nth(k) - 1))))]
Split(t, pipes) ==
  Between(t, pipes \cup (IF t[1] = "|" THEN {} ELSE {0})
                   \cup (IF Len(t) \in pipes THEN {} ELSE {Len(t) + 1}))
SplitText(t) == Split(t, Pipes(t))
Cells(l) == SplitText(RightStripped(Stripped(l)))
Aligned(cell) ==
  LET hyphens == {i \in DOMAIN cell : cell[i] = "-"}
      left == cell # <<>> /\ cell[1] = ":"
      right == cell # <<>> /\ Last(cell) = ":"
      ends == (IF left THEN {1} ELSE {}) \cup (IF right THEN {Len(cell)} ELSE {})
  IN  IF hyphens = {} \/ DOMAIN cell # hyphens \cup ends THEN "no"
      ELSE CASE left /\ right -> "center" [] left /\ ~right -> "left"
             [] right /\ ~left -> "right" [] OTHER -> "none"
Delimits(delimiter, row) ==
  Len(row) = Len(delimiter) /\ \A cell \in ToSet(delimiter) : Aligned(cell) # "no"
IsHeader(ls, i) ==
  i < Len(ls) /\ Starts(ls[i + 1]) = "text" /\ Delimits(Cells(ls[i + 1]), Cells(ls[i]))

TableOf(n, rows) ==
  [size |-> n,
   block |-> [type |-> "table", aligned |-> [i \in DOMAIN rows[2] |-> Aligned(rows[2][i])],
              rows |-> <<rows[1]>> \o SubSeq(rows, 3, n)]]
RowsOf(ls, n) == TableOf(n, [i \in 1 .. n |-> Cells(ls[i])])
ReadTable(ls) == RowsOf(ls, 2 + Prefix(SubSeq(ls, 3, Len(ls)), LAMBDA l : Starts(l) = "text"))

\* A paragraph, or the heading that its underline makes of it.
ReadParagraph(ls) ==
  LET n == Min({i \in 1 .. Len(ls) : i = Len(ls) \/ ~GoesOn(ls[i + 1]) \/ IsUnderline(ls[i + 1])
                                      \/ IsHeader(ls, i + 1)})
      content == Content(SubSeq(ls, 1, n))
  IN  IF n < Len(ls) /\ IsUnderline(ls[n + 1])
      THEN [size |-> n + 1,
            block |-> [type |-> "heading", level |-> IF First(ls[n + 1]) = "=" THEN 1 ELSE 2,
                       lines |-> content]]
      ELSE [size |-> n, block |-> [type |-> "paragraph", lines |-> content]]
ReadText(ls) == IF IsHeader(ls, 1) THEN ReadTable(ls) ELSE ReadParagraph(ls)

ReadIndented(ls) ==
  LET n == Prefix(ls, LAMBDA l : Starts(l) \in {"code", "blank"})
      lines == SubSeq(ls, 1, LastNonblank(SubSeq(ls, 1, n)))
  IN  [size |-> Len(lines),
       block |-> [type |-> "code_block", info |-> <<>>,
                  lines |-> [i \in DOMAIN lines |-> Drop(lines[i], Min({4, Lead(lines[i])}))]]]

ReadFence(ls) ==
  LET fence == Stripped(ls[1])
      c == fence[1]
      Closes(l) == /\ Lead(l) < 4 /\ Run(Stripped(l), c) >= Run(fence, c)
                   /\ IsBlank(Drop(Stripped(l), Run(Stripped(l), c)))
      n == Prefix(Tail(ls), LAMBDA l : ~Closes(l))
  IN  [size |-> Min({n + 2, Len(ls)}),
       block |-> [type |-> "code_block", info |-> Stripped(RightStripped(Drop(fence, Run(fence, c)))),
                  lines |-> [i \in 1 .. n |-> Drop(ls[i + 1], Min({Lead(ls[1]), Lead(ls[i + 1])}))]]]

ReadHeading(l) ==
  LET n == Run(Stripped(l), "#")
  IN  [size |-> 1, block |-> [type |-> "heading", level |-> n,
                              lines |-> <<RightStripped(Stripped(Drop(Stripped(l), n)))>>]]

-----------------------------------------------------------------------------
RECURSIVE Read(_), Leaf(_)

\* What a line begins, the markers of the blocks it is in left out.
Unquoted(l) ==
  LET rest == Tail(Stripped(l)) IN IF rest # <<>> /\ rest[1] = " " THEN Tail(rest) ELSE rest
Leaf(l) ==
  CASE Starts(l) = "block_quote" -> Leaf(Unquoted(l))
    [] Starts(l) = "item" -> Leaf(Drop(l, Min({Marker(l).width, Len(l)})))
    [] OTHER -> Starts(l)
\* A line that goes on with the paragraph of the line before it.
IsLazy(l, before) == Starts(l) \in {"text", "code"} /\ Leaf(before) = "text"

\* The lines in a container: rest is what is left of each behind its marker or
\* indentation, which those inside have.
LinesIn(ls, rest, inside) ==
  LET outside == {i \in 2 .. Len(ls) : i \notin inside /\ ~IsLazy(ls[i], rest[i - 1])}
  IN  SubSeq(rest, 1, Min(outside \cup {Len(ls) + 1}) - 1)
Trimmed(ls) == SubSeq(ls, 1, Max({1, LastNonblank(ls)}))

InQuote(ls) ==
  LET quoted == {i \in DOMAIN ls : Starts(ls[i]) = "block_quote"}
  IN  LinesIn(ls, [i \in DOMAIN ls |-> IF i \in quoted THEN Unquoted(ls[i]) ELSE ls[i]], quoted)
\* The content of an item or a footnote definition begins at a column.  A blank
\* line ends an item that is empty, unless it reaches the column.
InContent(ls, first, column, empty) ==
  LET Begun(i) == ~empty \/ Len(ls[i]) >= column \/ \E j \in 2 .. i : ~IsBlank(ls[j])
  IN  Trimmed(LinesIn(ls,
        [i \in DOMAIN ls |-> IF i = 1 THEN first
                             ELSE IF Lead(ls[i]) >= column THEN Drop(ls[i], column) ELSE ls[i]],
        {i \in DOMAIN ls : IF IsBlank(ls[i]) THEN Begun(i) ELSE Lead(ls[i]) >= column}))

Container(header, lines) == [size |-> Len(lines), block |-> header @@ [blocks |-> Read(lines)]]
QuoteOf(ls) == <<[type |-> "block_quote"], InQuote(ls)>>
TaskOf(first) ==
  CASE IsPrefix(<<"[", "x", "]", " ">>, first) -> "checked"
    [] IsPrefix(<<"[", " ", "]", " ">>, first) -> "open"
    [] OTHER -> "none"
ItemOf(ls, m) ==
  LET first == Drop(ls[1], Min({m.width, Len(ls[1])}))
      task == TaskOf(first)
  IN  <<[type |-> "item", kind |-> m.kind, number |-> m.number, task |-> task],
        InContent(ls, IF task = "none" THEN first ELSE Drop(first, 4), m.width, m.empty)>>
FootnoteOf(ls, n) ==
  <<[type |-> "footnote_definition", label |-> SubSeq(Stripped(ls[1]), 3, n - 2)],
    InContent(ls, Stripped(Drop(Stripped(ls[1]), n)), 4, FALSE)>>
ContainerOf(c) == Container(c[1], c[2])

BlockOf(type, ls) ==
  CASE type \in {"block_quote", "item", "footnote_definition"} ->
         ContainerOf(CASE type = "item" -> ItemOf(ls, Marker(ls[1]))
                       [] type = "block_quote" -> QuoteOf(ls)
                       [] OTHER -> FootnoteOf(ls, LabelEnd(ls[1])))
    [] type = "code" -> ReadIndented(ls)
    [] type = "fence" -> ReadFence(ls)
    [] type = "heading" -> ReadHeading(ls[1])
    [] type = "text" -> ReadText(ls)
    [] OTHER -> [size |-> 1, block |-> [type |-> type, lines |-> <<ls[1]>>]]
ReadBlock(ls) == BlockOf(Starts(ls[1]), ls)

\* Neighbouring items of a kind are a list; it is loose if a blank line comes
\* between two of its items or two blocks of one of them.  The comment that
\* keeps two lists apart is no block.
Gaps(blocks) == \E i \in 2 .. Len(blocks) : blocks[i].gap
Joined(blocks, b) ==
  LET before == Last(blocks)
  IN  IF b.type = "html_block" /\ b.lines = <<<<"<!-- end list -->">>>> THEN Append(blocks, [type |-> "end"])
      ELSE IF b.type # "item" THEN Append(blocks, b)
      ELSE IF blocks # <<>> /\ before.type = "list" /\ before.kind = b.kind
      THEN Append(Front(blocks), [before EXCEPT !.items = Append(@, b.blocks),
                                                !.tasks = Append(@, b.task),
                                                !.tight = @ /\ ~b.gap /\ ~Gaps(b.blocks)])
      ELSE Append(blocks, [type |-> "list", kind |-> b.kind, number |-> b.number, gap |-> b.gap,
                           items |-> <<b.blocks>>, tasks |-> <<b.task>>, tight |-> ~Gaps(b.blocks)])

\* The blocks of some lines: those from i on are rest[i, gap].
Then(b, gap, i, rest) == <<[gap |-> gap] @@ b.block>> \o rest[i + b.size, FALSE]
Listed(blocks) == SelectSeq(FoldLeft(Joined, <<>>, blocks), LAMBDA b : b.type # "end")
Read(lines) ==
  LET From[i \in 1 .. Len(lines) + 1, gap \in BOOLEAN] ==
        IF i > Len(lines) THEN <<>>
        ELSE IF IsBlank(lines[i]) THEN From[i + 1, TRUE]
        ELSE Then(ReadBlock(SubSeq(lines, i, Len(lines))), gap, i, From)
  IN  Listed(From[1, FALSE])

\* Front matter: what comes after its delimiter, its lines, and those after it.
FrontMatterEnd(lines) == {i \in 2 .. Len(lines) : lines[i] = <<"-", "-", "-">>}
FrontMatterTo(lines, end) ==
      [info |-> Stripped(Drop(lines[1], 3)), lines |-> SubSeq(lines, 2, end - 1),
       after |-> Drop(lines, end)]
ReadFrontMatter(lines) ==
  IF lines = <<>> \/ ~IsPrefix(<<"-", "-", "-">>, lines[1]) \/ FrontMatterEnd(lines) = {}
  THEN [info |-> <<>>, lines |-> <<>>, after |-> lines]
  ELSE FrontMatterTo(lines, Min(FrontMatterEnd(lines)))

-----------------------------------------------------------------------------
(* Inlines: characters, each with what it is: a delimiter, a character of  *)
(* a code span, or only a character.  A space stands for any number.       *)

Active == {"*", "_", "[", "]", "<", ">", "BACKTICK", "~"}
Plain(c) == <<c, "literal">>
HardBreak == <<"\n", "break">>
Delimited(s) == [i \in DOMAIN s |-> <<s[i], IF s[i] \in Active THEN "active" ELSE "literal">>]

CloseOf(s, i, n) ==
  {j \in i + n .. Len(s) : Run(Drop(s, j - 1), "BACKTICK") = n /\ s[j - 1] # "BACKTICK"}
CodeContent(s) ==
  LET t == [i \in DOMAIN s |-> IF s[i] = "\n" THEN " " ELSE s[i]]
  IN  IF Len(t) > 1 /\ t[1] = " " /\ Last(t) = " " /\ ~IsBlank(t) THEN SubSeq(t, 2, Len(t) - 1) ELSE t
Collapsed(tokens, kinds) ==
  FoldLeft(LAMBDA ts, t : IF ts # <<>> /\ t[1] = " " /\ t[2] \in kinds /\ Last(ts) = t THEN ts
                          ELSE Append(ts, t), <<>>, tokens)
SameChars(some, others, incode) ==
  LET kinds == {"literal"} \cup IF incode THEN {"code"} ELSE {}
  IN  Collapsed(some, kinds) = Collapsed(others, kinds)

\* The lines of a paragraph as one text.
Lined(lines) ==
  FlattenSeq([i \in DOMAIN lines |-> IF i = 1 THEN lines[i] ELSE <<"\n">> \o lines[i]])

\* The characters of a text.  A line end is a hard break after two spaces, or
\* where each is to be one.
CharsOf(s, hard) ==
  LET From[i \in 1 .. Len(s) + 1] ==
        IF i > Len(s) THEN <<>>
        ELSE IF s[i] = "\\" /\ i < Len(s) /\ s[i + 1] \in Escapable
        THEN <<Plain(s[i + 1])>> \o From[i + 2]
        ELSE IF s[i] = "BACKTICK"
        THEN LET n == Run(Drop(s, i - 1), "BACKTICK")
                 ends == CloseOf(s, i, n)
                 content == CodeContent(SubSeq(s, i + n, Min(ends) - 1))
             IN  IF ends = {} THEN [k \in 1 .. n |-> Plain("BACKTICK")] \o From[i + n]
                 ELSE [k \in DOMAIN content |-> <<content[k], "code">>] \o From[Min(ends) + n]
        ELSE IF s[i] = " " /\ \E j \in i + 1 .. Len(s) : s[j] = "\n" /\ \A k \in i .. j - 1 : s[k] = " "
        THEN LET j == Min({k \in i .. Len(s) : s[k] = "\n"})
             IN  <<IF j - i > 1 \/ hard THEN HardBreak ELSE Plain(" ")>> \o From[j + 1]
        ELSE IF s[i] = "\n" THEN <<IF hard THEN HardBreak ELSE Plain(" ")>> \o From[i + 1]
        ELSE Delimited(<<s[i]>>) \o From[i + 1]
  IN  From[1]
=============================================================================
