------------------------------ MODULE MCBlocks -------------------------------
(***************************************************************************)
(* Instances of Blocks.                                                    *)
(***************************************************************************)
EXTENDS Blocks

L(p, k) == [prefix |-> p, kind |-> k]

\* Lists, with quotes, code and definitions in them.
ListLines ==
  {L(<<>>, "text"), L(<<>>, "blank"), L(<<Indent>>, "fence"), L(<<Indent>>, "reference"),
   L(<<"+">>, "text"), L(<<"+">>, "blank"), L(<<"+", "+", "+">>, "text"),
   L(<<Indent, "*">>, "text"), L(<<Indent, Indent>>, "text"),
   L(<<Quote>>, "blank"), L(<<Quote>>, "text")}

OtherLines ==
  {L(<<>>, "setext"), L(<<>>, "heading"), L(<<>>, "rule"), L(<<>>, "div"),
   L(<<>>, "comment"), L(<<>>, "comment end"), L(<<Footnote>>, "text")}

AllLines == ListLines \cup OtherLines
=============================================================================
