----------------------------- MODULE MCCommonmark -----------------------------
(* Small documents for Commonmark, given as nested nodes.                   *)
EXTENDS CommonmarkReads

\* A node: its type, its children, and what it says.
Blank == [literal |-> <<>>, tight |-> FALSE, bullet |-> TRUE, start |-> 1, delim |-> ".",
          level |-> 1, url |-> <<>>, title |-> <<>>, info |-> <<>>, task |-> "none",
          aligned |-> <<>>]
N(type, kids) == [type |-> type, kids |-> kids, f |-> Blank]
T(literal) == [N("text", <<>>) EXCEPT !.f.literal = literal]
Leaf(type, literal) == [N(type, <<>>) EXCEPT !.f.literal = literal]
P(kids) == N("paragraph", kids)
H(kids) == [N("heading", kids) EXCEPT !.f.level = 2]
Q(kids) == N("block_quote", kids)
L(tight, items) == [N("list", [i \in DOMAIN items |-> N("item", items[i])]) EXCEPT !.f.tight = tight]
O(start, items) == [L(FALSE, items) EXCEPT !.f.bullet = FALSE, !.f.start = start]

RECURSIVE Size(_), Flat(_, _, _)
Size(t) == 1 + FoldLeft(LAMBDA sum, k : sum + Size(k), 0, t.kids)
\* The nodes of t with their numbers, from n on: the root of t first.
Flat(t, n, parent) ==
  LET at(i) == n + 1 + FoldLeft(LAMBDA sum, k : sum + Size(k), 0, SubSeq(t.kids, 1, i - 1))
  IN  <<[n |-> n, parent |-> parent, t |-> t,
         kids |-> [i \in DOMAIN t.kids |-> at(i)]]>>
        \o FlattenSeq([i \in DOMAIN t.kids |-> Flat(t.kids[i], at(i), n)])

\* The heap with a tree, given as its nodes, and how it is to be rendered.
Nodes == 1 .. 12
Built(flat, opts, w) ==
  LET Of(n) == flat[n]
      Live_ == DOMAIN flat
      Siblings(n) == IF Of(n).parent = NULL THEN <<n>> ELSE Of(Of(n).parent).kids
      At(n) == CHOOSE i \in DOMAIN Siblings(n) : Siblings(n)[i] = n
      Nth(l, i) == IF i \in DOMAIN l THEN l[i] ELSE NULL
      Map(F(_), default) == [n \in Node |-> IF n \in Live_ THEN F(n) ELSE default]
  IN  [heap |-> [type |-> Map(LAMBDA n : Of(n).t.type, "none"),
                 next |-> Map(LAMBDA n : Nth(Siblings(n), At(n) + 1), NULL),
                 prev |-> Map(LAMBDA n : Nth(Siblings(n), At(n) - 1), NULL),
                 parent |-> Map(LAMBDA n : Of(n).parent, NULL),
                 first_child |-> Map(LAMBDA n : Nth(Of(n).kids, 1), NULL),
                 last_child |-> Map(LAMBDA n : Nth(Of(n).kids, Len(Of(n).kids)), NULL)],
       fields |-> Map(LAMBDA n : Of(n).t.f, Blank), options |-> opts, width |-> w, root |-> 1]

Doc(kids) == N("document", kids)

-----------------------------------------------------------------------------
\* Every arrangement of two blocks, alone, in a container or in two items.
A == P(<<T(<<"a">>)>>)
Shifted == Leaf("code_block", <<"a", "b", "c", "\n">>)
Html == Leaf("html_block", <<"<!-- a -->", "\n">>)
Break == N("thematic_break", <<>>)
Simple == {A, H(<<T(<<"b">>)>>), Leaf("code_block", <<"b", "\n">>), Shifted, Html, Break}
Blocks == Simple \cup UNION {{Q(<<b>>), L(TRUE, <<<<b>>>>), O(9, <<<<b>>>>)} : b \in {A, Shifted}}

\* A tight item has no blank line between its blocks, which some need.
Loose(kids) == {Q(kids), L(FALSE, <<kids>>), O(9, <<kids>>)}
NeedsBlank(a, b) ==
  \/ a.type = "block_quote" /\ b.type = "block_quote"
  \/ a.type = "table" /\ b.type \in {"table", "paragraph"}
  \/ a = A /\ b.type = "list" /\ ~b.f.bullet
  \/ (a = A \/ (a.kids # <<>> /\ A \in ToSet(a.kids \o a.kids[1].kids))) /\ b \in {A, Shifted}
Tight(kids) == IF NeedsBlank(kids[1], kids[2]) THEN {} ELSE {L(TRUE, <<kids>>)}

Layouts ==
  {Doc(<<a, b>>) : a, b \in Blocks}
    \cup {Doc(<<c>>) : c \in UNION {Loose(<<a, b>>) \cup Tight(<<a, b>>) : a, b \in Blocks}}
    \cup {Doc(<<L(TRUE, <<<<Q(<<a, b>>)>>>>)>>) : a, b \in Simple}
    \cup {Doc(<<L(tight, <<<<a>>, <<b>>>>), c>>) :
            tight \in BOOLEAN, a, b \in Simple, c \in {A, O(1, <<<<A>>>>)}}

-----------------------------------------------------------------------------
\* Short texts, some of which would be markers, in a paragraph, a heading and
\* an item.
Starred == {<<"a">>, <<"1">>, <<"-">>, <<"=">>, <<".">>, <<")">>, <<"#">>, <<"*">>,
            <<">">>, <<"\\">>, <<"&">>, <<" ">>}
TextsUpTo(n) ==
  {s \in UNION {{FlattenSeq(w) : w \in [1 .. k -> Starred]} : k \in 1 .. n} :
     s[1] # " " /\ Last(s) # " "}
Texts ==
  {Doc(<<P(<<T(s)>>)>>) : s \in TextsUpTo(3)}
    \cup {Doc(<<b>>) : b \in UNION {{H(<<T(s)>>), L(TRUE, <<<<P(<<T(s)>>)>>>>)} : s \in TextsUpTo(2)}}

\* Lines that are broken: words, some of them digits or markers, and breaks.
Words == {<<"a">>, <<"a", "b", "c">>, <<"1">>, <<"-">>, <<"1", ".">>}
Between == {"softbreak", "linebreak"}
Wrapped ==
  {P(<<T(a \o <<" ">> \o b \o <<" ">> \o c)>>) : a, b, c \in Words}
    \cup {P(<<T(a), N(br, <<>>), T(b \o <<" ", " ">> \o c)>>) : a, b, c \in Words, br \in Between}
Wraps == {Doc(<<p>>) : p \in Wrapped} \cup {Doc(<<L(TRUE, <<<<Q(<<p>>)>>>>)>>) : p \in Wrapped}

\* Inlines, alone and beside text.
CodeOf(literal, info) == [Leaf("code", literal) EXCEPT !.f.info = info]
LinkOf(type, url, title, kids) == [N(type, kids) EXCEPT !.f.url = url, !.f.title = title]
Ticked == {<<"a">>, <<" ">>, <<"BACKTICK">>, <<"BACKTICK", "BACKTICK">>}
Codes == {CodeOf(FlattenSeq(s), info) : s \in UNION {[1 .. k -> Ticked] : k \in 1 .. 3}, info \in {<<>>, <<"c">>}}
Urls == {<<"a">>, <<"a", "b", ":", ".">>, <<"mailto", ":", "a", "@", "b">>, <<"mailto", ":", "a">>,
         <<"(", ")">>, <<"\\", "a">>, <<"a", " ", "b">>}
Titles == {<<>>, <<"a">>, <<"\"", "\\">>}
Shown == {<<"a">>, <<"a", "b", ":", ".">>, <<"a", "@", "b">>}
Links ==
  {LinkOf("link", u, t, <<T(s)>>) : u \in Urls, t \in Titles, s \in Shown}
    \cup {LinkOf("image", u, t, <<T(<<"a">>)>>) : u \in Urls, t \in Titles}
    \cup {LinkOf("link", u, <<>>, <<i>>) : u \in Urls,
            i \in {N("emph", <<T(<<"a">>)>>), CodeOf(<<"a">>, <<>>), Leaf("html_inline", <<"<", "b", ">">>),
                   LinkOf("image", <<"a", "b", ":", ".">>, <<>>, <<T(<<"a">>)>>)}}
Emphases ==
  LET a == T(<<"a">>)
      Of(kids) == {N("emph", kids), N("strong", kids), N("strikethrough", kids)}
      inner == Of(<<a>>)
      Nested == UNION {Of(<<i>>) \cup Of(<<a, i>>) \cup Of(<<i, a>>) : i \in inner}
      InItself(s) == s.type = "strikethrough" /\ s.type \in {k.type : k \in ToSet(s.kids)}
  IN  inner \cup {s \in Nested : ~InItself(s)}
Spans == Codes \cup Links \cup Emphases
Beside(s) == Doc(<<P(<<T(<<"a", " ">>), s, T(<<" ", "b">>)>>)>>)

\* Breaks, with each of the options, and footnotes.
Broken == {Doc(<<b>>) : b \in UNION {{P(kids), Q(<<P(kids)>>), H(kids)} :
             kids \in {<<T(<<"a">>), N(br, <<>>), T(<<"b">>)>> : br \in Between}}}
Foot(kids) == [N("footnote_definition", kids) EXCEPT !.f.literal = <<"x">>]
Noted == P(<<T(<<"a">>), Leaf("footnote_reference", <<"x">>)>>)
Notes == {Doc(<<Noted, Foot(<<b>>)>>) : b \in Blocks} \cup {Doc(<<Noted, Foot(<<A, b>>)>>) : b \in Blocks}

\* Tables of one column and two rows, of two columns, and beside other blocks.
Row(cells) == N("table_row", [i \in DOMAIN cells |-> N("table_cell", cells[i])])
TableOf(aligned, rows) == [N("table", rows) EXCEPT !.f.aligned = aligned]
Piped == {<<"a">>, <<"|">>, <<"\\", "|">>, <<"-">>, <<"a", " ", "b">>}
Contents ==
  {<<>>, <<CodeOf(<<"a", "|">>, <<>>)>>, <<LinkOf("link", <<"|">>, <<>>, <<T(<<"|">>)>>)>>}
    \cup UNION {{<<T(s)>>, <<N("strong", <<T(s)>>)>>, <<N("strikethrough", <<T(s)>>)>>} : s \in Piped}
Tables == {TableOf(<<"none">>, <<Row(<<a>>), Row(<<b>>)>>) : a, b \in Contents}
Aligned2 == {TableOf(<<a, b>>, <<Row(<<<<T(<<"a">>)>>, <<>>>>)>>) :
               a, b \in {"none", "left", "center", "right"}}
Header == TableOf(<<"none">>, <<Row(<<<<T(<<"a">>)>>>>)>>)
WithTable(a, b) == {Doc(<<a, b>>)} \cup {Doc(<<c>>) : c \in {L(TRUE, <<<<Q(<<a, b>>)>>>>)} \cup Tight(<<a, b>>)
                                             \cup Loose(<<a, b>>)}
BesideTables == UNION {WithTable(Header, b) \cup WithTable(b, Header) : b \in Simple \cup {Header}}

\* Task lists.
TaskLists ==
  LET TaskOf(task, kids) == [N("item", kids) EXCEPT !.f.task = task]
      ListOf(tight, bullet, items) == [N("list", items) EXCEPT !.f.tight = tight, !.f.bullet = bullet]
      Tasks == {"none", "open", "checked"}
      nested == L(TRUE, <<<<A>>>>)
  IN  {ListOf(tight, bullet, <<TaskOf(s, <<A>>), TaskOf(t, <<A>>)>>) : tight, bullet \in BOOLEAN, s, t \in Tasks}
        \cup {ListOf(tight, TRUE, <<TaskOf("open", <<A, b>>)>>) :
                 tight \in BOOLEAN, b \in Simple \cup {nested, Header, Q(<<A>>)}}
        \cup {L(TRUE, <<<<A, ListOf(TRUE, TRUE, <<TaskOf(s, <<A>>)>>)>>>>) : s \in Tasks}

\* Front matter, and a paragraph that a table might be read from.
Front_(literal, info) == [Leaf("front_matter", literal) EXCEPT !.f.info = info]
Fronts == {Doc(<<Front_(literal, info), b>>) :
             literal \in {<<>>, <<"a", "\n">>}, info \in {<<>>, <<"x">>}, b \in Blocks}
Rows == {P(<<T(<<"|", "a">>), N("softbreak", <<>>), T(s)>>) :
           s \in {<<"|", "-">>, <<"|", "a">>, <<"|", "-", "|", "-", "|">>, <<":", "-">>}}
Extended ==
  {Doc(<<b>>) : b \in Tables \cup Aligned2 \cup TaskLists \cup Rows}
    \cup {Doc(<<b, A>>) : b \in TaskLists} \cup BesideTables \cup Fronts

Trees(docs) == {Flat(d, 1, NULL) : d \in docs}
Rendered(docs, opts, w) == {Built(t, opts, w) : t \in Trees(docs)}
Narrow == {Beside(s) : s \in Spans \cup {Leaf("html_inline", <<"<", "b", ">">>)}}
MCDocuments ==
  {Rendered(docs, {}, 0) : docs \in {Layouts, Texts, Broken, Notes, Extended}}
    \cup {Rendered({Doc(<<P(<<s>>)>>) : s \in Spans}, {}, 0), Rendered(Narrow, {}, 3)}
    \cup {Rendered({Doc(<<b>>) : b \in Tables \cup TaskLists}, {}, 4)}
    \cup {Rendered(Wraps, {}, w) : w \in {4, 9}}
    \cup {Rendered(Broken, {option}, w) : option \in {"HARDBREAKS", "NOBREAKS"}, w \in {0, 2}}
=============================================================================
