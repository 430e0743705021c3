--------------------------------- MODULE Html ---------------------------------
(***************************************************************************)
(* The HTML renderers: S_render_node of html.c, driven by the iterator,    *)
(* with html_render of the table extension; and Markly::Renderer::HTML     *)
(* (html.rb, generic.rb), which walks the children of each node.  Both are *)
(* operators on a heap h and the other fields a of its nodes.              *)
(*                                                                         *)
(* The output is a sequence of tags, anchors, links and texts.  Line       *)
(* breaks, escaping, source positions, alignments and the other attributes *)
(* are left out; an image is open while its alt attribute is written.  An  *)
(* anchor is a label and a rank, not a string: that the label "a-2" makes  *)
(* the anchor of the second reference to "a" is left out.                  *)
(***************************************************************************)
EXTENDS Iterator, Integers, SequencesExt

Open(tag) == [is |-> "open", tag |-> tag]
Close(tag) == [is |-> "close", tag |-> tag]
Void(tag) == [is |-> "void", tag |-> tag]
Text(n) == [is |-> "text", node |-> n]

\* The anchor of the k-th reference to the definition of a label, and of the
\* definition itself; and links to these.
RefAnchor(l, k) == [is |-> "id", of |-> "reference", label |-> l, nth |-> k]
DefAnchor(l) == [is |-> "id", of |-> "definition", label |-> l]
RefLink(l, k) == [is |-> "href", of |-> "reference", label |-> l, nth |-> k]
DefLink(l) == [is |-> "href", of |-> "definition", label |-> l]

\* Types that are one element around their children.
Element(t) ==
  CASE t = "block_quote" -> "blockquote"
    [] t = "list" -> "ul"
    [] t = "item" -> "li"
    [] t = "heading" -> "h"
    [] t = "emph" -> "em"
    [] t = "link" -> "a"
    [] t = "strikethrough" -> "del"

Elements ==
  {"block_quote", "list", "item", "heading", "emph", "link", "strikethrough"}

Childless(t) ==
  CASE t = "thematic_break" -> <<Void("hr")>>
    [] t = "linebreak" -> <<Void("br")>>
    [] OTHER -> <<>>

\* A leaf with a text of its own.
Leaf(t, n) ==
  CASE t = "text" -> <<Text(n)>>
    [] t = "code" -> <<Open("code"), Text(n), Close("code")>>
    [] t = "code_block" ->
         <<Open("pre"), Open("code"), Text(n), Close("code"), Close("pre")>>
    [] t \in {"html_block", "html_inline"} -> <<Void("comment")>>

Leaves == {"text", "code", "code_block", "html_block", "html_inline"}

\* Mutant: the parent instead of the grandparent.
IsTightBelow(h, a, n) ==
  h.parent[n] # NULL /\ h.type[h.parent[n]] = "list" /\ a.tight[h.parent[n]]

\* A paragraph is tight if its grandparent is a tight list.
IsTight(h, a, n) ==
  LET p == h.parent[n]
      g == IF p = NULL THEN NULL ELSE h.parent[p]
  IN  g # NULL /\ h.type[g] = "list" /\ a.tight[g]

-----------------------------------------------------------------------------
(***************************************************************************)
(* html.c                                                                  *)
(***************************************************************************)
Renderer ==
  [plain |-> NULL, footnote_ix |-> 0, written_footnote_ix |-> 0,
   need_closing_table_body |-> FALSE, in_table_header |-> FALSE, out |-> <<>>]

Put(r, s) == [r EXCEPT !.out = @ \o s]

Backrefs(l, count) ==
  <<Open("a"), RefLink(l, 1), Close("a")>> \o
  FlattenSeq([k \in 1 .. count - 1 |-> <<Open("a"), RefLink(l, k + 1), Close("a")>>])

\* S_put_footnote_backref: once for each definition.
PutBackref(r, a, d) ==
  IF r.written_footnote_ix >= r.footnote_ix THEN r
  ELSE [Put(r, Backrefs(a.label[d], a.def_count[d]))
          EXCEPT !.written_footnote_ix = r.footnote_ix]

Paragraph(h, a, r, n, entering) ==
  LET p == h.parent[n]
      last == p # NULL /\ h.type[p] = "footnote_definition" /\ h.next[n] = NULL
  IN  IF IsTight(h, a, n) THEN r
      ELSE IF entering THEN Put(r, <<Open("p")>>)
      ELSE Put(IF last THEN PutBackref(r, a, p) ELSE r, <<Close("p")>>)

Strong(h, r, n, entering) ==
  IF h.parent[n] # NULL /\ h.type[h.parent[n]] = "strong" THEN r
  ELSE Put(r, <<IF entering THEN Open("strong") ELSE Close("strong")>>)

Image(r, n, entering) ==
  IF entering THEN [Put(r, <<Open("img")>>) EXCEPT !.plain = n]
  ELSE Put(r, <<Close("img")>>)

Definition(a, r, n, entering) ==
  IF entering
  THEN [Put(r, (IF r.footnote_ix = 0 THEN <<Open("section"), Open("ol")>> ELSE <<>>)
               \o <<Open("li"), DefAnchor(a.label[n])>>)
          EXCEPT !.footnote_ix = @ + 1]
  ELSE Put(PutBackref(r, a, n), <<Close("li")>>)

Reference(a, r, n, entering) ==
  LET l == a.label[a.parent_footnote_def[n]]
  IN  IF ~entering THEN r
      ELSE Put(r, <<Open("sup"), Open("a"), DefLink(l), RefAnchor(l, a.ref_ix[n]),
                    Close("a"), Close("sup")>>)

\* Mutant: the body is not closed.
TableLeftOpen(r, entering) ==
  [Put(r, IF entering THEN <<Open("table")>> ELSE <<Close("table")>>)
     EXCEPT !.need_closing_table_body = FALSE]

\* html_render of table.c
Table(r, entering) ==
  [Put(r, IF entering THEN <<Open("table")>>
          ELSE (IF r.need_closing_table_body THEN <<Close("tbody")>> ELSE <<>>)
               \o <<Close("table")>>)
     EXCEPT !.need_closing_table_body = FALSE]

TableRow(a, r, n, entering) ==
  IF a.is_header[n]
  THEN [Put(r, IF entering THEN <<Open("thead"), Open("tr")>>
               ELSE <<Close("tr"), Close("thead")>>)
          EXCEPT !.in_table_header = entering]
  ELSE IF entering
  THEN [Put(r, (IF r.need_closing_table_body THEN <<>> ELSE <<Open("tbody")>>)
               \o <<Open("tr")>>)
          EXCEPT !.need_closing_table_body = TRUE]
  ELSE Put(r, <<Close("tr")>>)

TableCell(r, entering) ==
  LET tag == IF r.in_table_header THEN "th" ELSE "td"
  IN  Put(r, <<IF entering THEN Open(tag) ELSE Close(tag)>>)

\* Below an image only texts are written, and not references.
PlainNode(h, r, n) ==
  IF h.type[n] \in {"text", "code", "html_inline"} THEN Put(r, <<Text(n)>>) ELSE r

FullNode(h, a, r, n, entering) ==
  LET t == h.type[n]
  IN  CASE t \in Elements ->
             Put(r, <<IF entering THEN Open(Element(t)) ELSE Close(Element(t))>>)
        [] t \in Leaves -> Put(r, Leaf(t, n))
        [] t = "paragraph" -> Paragraph(h, a, r, n, entering)
        [] t = "strong" -> Strong(h, r, n, entering)
        [] t = "image" -> Image(r, n, entering)
        [] t = "footnote_definition" -> Definition(a, r, n, entering)
        [] t = "footnote_reference" -> Reference(a, r, n, entering)
        [] t = "table" -> Table(r, entering)
        [] t = "table_row" -> TableRow(a, r, n, entering)
        [] t = "table_cell" -> TableCell(r, entering)
        [] OTHER -> Put(r, Childless(t))

\* S_render_node: at the image itself, the alt attribute has ended.
RenderNode(h, a, r, n, entering) ==
  LET back == IF r.plain = n THEN [r EXCEPT !.plain = NULL] ELSE r
  IN  IF back.plain # NULL THEN PlainNode(h, back, n)
      ELSE FullNode(h, a, back, n, entering)

RECURSIVE RenderFrom(_, _, _, _)
RenderFrom(h, a, r, iter) ==
  LET it == IterNext(h, iter)
  IN  IF it.ev = "done" THEN r
      ELSE RenderFrom(h, a, RenderNode(h, a, r, it.cur, it.ev = "enter"), it)

\* cmark_render_html
RenderHtml(h, a, n) ==
  LET r == RenderFrom(h, a, Renderer, IterNew(n))
  IN  r.out \o (IF r.footnote_ix # 0 THEN <<Close("ol"), Close("section")>> ELSE <<>>)

-----------------------------------------------------------------------------
(***************************************************************************)
(* html.rb                                                                 *)
(***************************************************************************)
RubyRenderer ==
  [tight |-> FALSE, in_plain |-> FALSE, footnote_ix |-> 0, written_footnote_ix |-> 0,
   needs_close_tbody |-> FALSE, in_header |-> FALSE, section |-> FALSE, out |-> <<>>]

\* Node#each
Children(h, n) ==
  LET From[m \in Pointer] == IF m = NULL THEN <<>> ELSE <<m>> \o From[h.next[m]]
  IN  From[h.first_child[n]]

\* out_footnote_backref links to the first reference only.
RubyBackref(r, a, d) ==
  IF r.written_footnote_ix = r.footnote_ix THEN r
  ELSE [Put(r, Backrefs(a.label[d], 1)) EXCEPT !.written_footnote_ix = r.footnote_ix]

\* With ids, a heading ends the section of the last heading and begins one.
RubyHeading(r, ids) ==
  IF ~ids THEN Put(r, <<Open("h")>>)
  ELSE [Put(r, (IF r.section THEN <<Close("section")>> ELSE <<>>)
               \o <<Open("section"), Open("h")>>)
          EXCEPT !.section = TRUE]

\* What a node writes before its children, and what it sets for them.
RubyEnter(h, a, r, n, ids) ==
  LET t == h.type[n]
      l == a.label[n]
  IN  CASE t = "heading" -> RubyHeading(r, ids)
        [] t = "list" -> [Put(r, <<Open("ul")>>) EXCEPT !.tight = a.tight[n]]
        [] t \in Elements \ {"list", "heading"} -> Put(r, <<Open(Element(t))>>)
        [] t \in Leaves -> Put(r, Leaf(t, n))
        [] t = "paragraph" ->
             IF r.tight /\ h.type[h.parent[n]] # "block_quote" THEN r
             ELSE Put(r, <<Open("p")>>)
        [] t = "strong" ->
             IF h.parent[n] = NULL \/ h.type[h.parent[n]] = "strong" THEN r
             ELSE Put(r, <<Open("strong")>>)
        [] t = "image" -> [Put(r, <<Open("img")>>) EXCEPT !.in_plain = TRUE]
        [] t = "table" -> [Put(r, <<Open("table")>>) EXCEPT !.needs_close_tbody = FALSE]
        [] t = "table_row" /\ a.is_header[n] ->
             [Put(r, <<Open("thead"), Open("tr")>>) EXCEPT !.in_header = TRUE]
        [] t = "table_row" /\ ~a.is_header[n] ->
             IF r.in_header \/ r.needs_close_tbody THEN Put(r, <<Open("tr")>>)
             ELSE [Put(r, <<Open("tbody"), Open("tr")>>) EXCEPT !.needs_close_tbody = TRUE]
        [] t = "table_cell" -> Put(r, <<Open(IF r.in_header THEN "th" ELSE "td")>>)
        [] t = "footnote_reference" ->
             LET d == a.label[a.parent_footnote_def[n]]
             IN  Put(r, <<Open("sup"), Open("a"), DefLink(d), RefAnchor(d, 1),
                          Close("a"), Close("sup")>>)
        [] t = "footnote_definition" ->
             [Put(r, (IF r.footnote_ix = 0 THEN <<Open("section"), Open("ol")>> ELSE <<>>)
                     \o <<Open("li"), DefAnchor(l)>>)
                EXCEPT !.footnote_ix = @ + 1]
        [] OTHER -> Put(r, Childless(t))

\* What it writes after them (r), having started from the state before.
RubyLeave(h, a, before, r, n) ==
  LET t == h.type[n]
      p == h.parent[n]
  IN  CASE t = "document" ->
             Put(r, (IF r.written_footnote_ix # 0 THEN <<Close("ol"), Close("section")>>
                     ELSE <<>>)
                    \o (IF r.section THEN <<Close("section")>> ELSE <<>>))
        [] t = "list" -> [Put(r, <<Close("ul")>>) EXCEPT !.tight = before.tight]
        [] t \in Elements \ {"list"} -> Put(r, <<Close(Element(t))>>)
        [] t = "paragraph" ->
             IF r.tight /\ h.type[p] # "block_quote" THEN r
             ELSE Put(IF h.type[p] = "footnote_definition" /\ h.next[n] = NULL
                      THEN RubyBackref(r, a, p) ELSE r,
                      <<Close("p")>>)
        [] t = "strong" ->
             IF p = NULL \/ h.type[p] = "strong" THEN r ELSE Put(r, <<Close("strong")>>)
        [] t = "image" -> [Put(r, <<Close("img")>>) EXCEPT !.in_plain = before.in_plain]
        [] t = "table" ->
             Put(r, (IF r.needs_close_tbody THEN <<Close("tbody")>> ELSE <<>>)
                    \o <<Close("table")>>)
        [] t = "table_row" /\ a.is_header[n] ->
             [Put(r, <<Close("tr"), Close("thead")>>) EXCEPT !.in_header = FALSE]
        [] t = "table_row" /\ ~a.is_header[n] -> Put(r, <<Close("tr")>>)
        [] t = "table_cell" -> Put(r, <<Close(IF r.in_header THEN "th" ELSE "td")>>)
        [] t = "footnote_definition" -> Put(RubyBackref(r, a, n), <<Close("li")>>)
        [] OTHER -> r

\* Generic#render
RECURSIVE RubyNode(_, _, _, _, _)
RubyNode(h, a, r, n, ids) ==
  LET inside(s) == FoldLeft(LAMBDA x, m : RubyNode(h, a, x, m, ids), s, Children(h, n))
      skipped == r.in_plain /\ h.type[n] \notin {"text", "softbreak"}
  IN  IF skipped THEN inside(r)
      ELSE RubyLeave(h, a, r, inside(RubyEnter(h, a, r, n, ids)), n)

RenderRuby(h, a, n, ids) == RubyNode(h, a, RubyRenderer, n, ids).out
=============================================================================
