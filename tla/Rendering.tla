------------------------------ MODULE Rendering ------------------------------
(***************************************************************************)
(* A document with footnotes, from the inline phase to HTML: Footnotes,    *)
(* and then the tree it leaves through each of the two renderers of Html.  *)
(***************************************************************************)
EXTENDS Footnotes, Html

VARIABLES
  html,       \* what Markly::Node#to_html returns
  ruby_html,  \* what Markly::Renderer::HTML#render returns
  sectioned   \* the same, with the option for a section per heading

rvars == <<vars, html, ruby_html, sectioned>>

RInit ==
  /\ Init
  /\ html = <<>>
  /\ ruby_html = <<>>
  /\ sectioned = <<>>

\* An element around the output, so that also an empty one shows.
Page(s) == <<Open("document")>> \o s \o <<Close("document")>>

Render ==
  /\ phase = "done"
  /\ html = <<>>
  /\ html' = Page(RenderHtml(heap, as, root))
  /\ ruby_html' = Page(RenderRuby(heap, as, root, FALSE))
  /\ sectioned' = Page(RenderRuby(heap, as, root, TRUE))
  /\ UNCHANGED vars

RNext ==
  \/ Next /\ UNCHANGED <<html, ruby_html, sectioned>>
  \/ Render

RSpec == RInit /\ [][RNext]_rvars

-----------------------------------------------------------------------------
(***************************************************************************)
(* What a browser makes of the output.                                     *)
(***************************************************************************)
Balance(state, x) ==
  LET top == IF state.open = <<>> THEN "" ELSE Last(state.open)
  IN  CASE x.is = "open"  -> [ok |-> state.ok /\ top # "img", open |-> Append(state.open, x.tag)]
        [] x.is = "close" -> [ok |-> state.ok /\ top = x.tag,
                              open |-> IF top = "" THEN <<>> ELSE Front(state.open)]
        [] x.is = "text"  -> state
        [] OTHER          -> [state EXCEPT !.ok = state.ok /\ top # "img"]

WellNested(s) ==
  LET end == FoldLeft(Balance, [ok |-> TRUE, open |-> <<>>], s)
  IN  end.ok /\ end.open = <<>>

\* Every element is closed where it was opened, and the alt attribute of an
\* image is text: the two renderers write the tags of a node, of the footnote
\* section around the first definition and of the table body around the first
\* row far apart, from state kept between nodes.  The section of a heading ends
\* at the next heading or the end of the document; a heading in a list or a block
\* quote begins one too, and it does not end in there, so these are excepted.
TagsNest ==
  /\ WellNested(html)
  /\ WellNested(ruby_html)
  /\ (\A n \in OfType("heading") : heap.parent[n] = root) => WellNested(sectioned)

Anchors(s) == SelectSeq(s, LAMBDA x : x.is = "id")
Links(s) == SelectSeq(s, LAMBDA x : x.is = "href")
Target(link) == [link EXCEPT !.is = "id"]

\* The anchors of a page are distinct, so that each link to one has one
\* target; every link to a definition finds it; and every reference is found
\* by exactly one of the links back at the end of its definition.  The counts
\* these links are made from were taken before definitions moved.
LinksFind ==
  LET anchors == Anchors(html)
      links == Links(html)
  IN  /\ \A i, j \in DOMAIN anchors : anchors[i] = anchors[j] => i = j
      /\ \A i \in DOMAIN links :
           links[i].of = "definition" => Target(links[i]) \in ToSet(anchors)
      /\ \A i \in DOMAIN anchors :
           anchors[i].of = "reference" =>
             Cardinality({k \in DOMAIN links : Target(links[k]) = anchors[i]}) = 1

\* Where no definition is referenced twice the Ruby renderer returns what the
\* C renderer returns: tight paragraphs, images, tables and the footnote
\* section, each done in another way.
RenderersAgree ==
  (\A n \in live : as.def_count[n] <= 1) => html = ruby_html
=============================================================================
