----------------------------- MODULE MCParagraphs ----------------------------
(* Small documents for Paragraphs: lines from a few families.               *)
EXTENDS Paragraphs

\* All documents of n lines, after some that each begins with.
Of(first, lines, n, tables) ==
  {[lines |-> f \o d, tables |-> tables, lookups |-> <<>>] : f \in first, d \in [1 .. n -> lines]}
NoFirst == {<<>>}

Nl(s) == Append(s, "\n")
Blanks == {<<"\n">>}
Breaks == {Nl(<<"*", "*", "*">>), Nl(<<"-", "-", "-">>)}

\* The parts of definitions, complete or not, and lines that end a paragraph.
DefinitionLines ==
  {Nl(<<"[", "a", "]", ":", "x">>), Nl(<<"[", "a", "]", ":">>),
   Nl(<<" ", "[", "A", "]", ":", "<", " ", "\\", "*", ">", " ">>),
   Nl(<<"\"", "a", "\\", "\"", "\"">>), Nl(<<"\"", "a", "\"", " ", "x">>), Nl(<<"x">>),
   Nl(<<"x", " ", "'", "a">>), Nl(<<"a", "'">>), Nl(<<"=", "=">>)} \cup Breaks \cup Blanks

TableLines ==
  {Nl(<<"a", " ", "|", " ", "x">>), Nl(<<"|", "a", "|">>), Nl(<<"a">>),
   Nl(<<"-", "-", "|", ":", "-">>), Nl(<<"|", ":", "-", ":">>),
   Nl(<<"x", "\\", "|", "a", "|", "a">>), Nl(<<"|">>),
   Nl(<<"a", "|", "|", "|", "x">>), Nl(<<"[", "a", "]", ":", "x">>)} \cup Breaks \cup Blanks
Opened == {<<Nl(<<"x", "|", "a">>), Nl(<<"-", "|", "-">>)>>}

\* Labels looked up again and again, in documents that define some of them.
Looked == {<<"a">>, <<"A">>, <<"x", " ">>, <<" ">>}
LookupLines ==
  {Nl(<<"[", "a", "]", ":", "a", "a", "a", "a", "a", "a">>), Nl(<<"[", " ", "A", "]", ":", "x">>),
   Nl(<<"[", "x", " ", "\n", " ", "a", "]", ":", "x">>),
   Nl(<<"[", "x", "]", ":", "x", " ", "\"", "a", "a", "a", "a", "\"">>)}
LookupDocuments ==
  {[d EXCEPT !.lookups = l] : d \in Of(NoFirst, LookupLines, 2, FALSE), l \in [1 .. 4 -> Looked]}

MCDocuments ==
  {Of(NoFirst, DefinitionLines, 3, FALSE), Of(NoFirst, TableLines, 3, TRUE),
   Of(Opened, TableLines, 3, TRUE), LookupDocuments}
=============================================================================
