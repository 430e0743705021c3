------------------------------ MODULE MCLineFeed -----------------------------
(* Texts for LineFeed: all short ones, and documents with front matter.     *)
EXTENDS LineFeed, SequencesExt

\* Every text of up to four characters.
ShortTexts == SeqOf({"a", "CR", "LF", "NUL", "BOM"}, 4)

\* Documents of up to three lines that may open or close front matter, the
\* last of them possibly without a line end.
FrontLines == {<<"-", "-", "-">>, <<"-", "-", "-", " ">>, <<"-", "-", "-", " ", "a">>,
               <<"-", "-", "-", "-">>, <<"BOM", "-", "-", "-">>, <<"a">>, <<"NUL">>}
FrontTexts ==
  {FlattenSeq([i \in DOMAIN ls |-> ls[i] \o <<"LF">>]) : ls \in SeqOf(FrontLines, 2)}
    \cup {ls[1] \o <<"CR">> \o ls[2] \o <<"LF">> \o ls[3] :
            ls \in FrontLines \X {<<"-", "-", "-">>, <<"-", "-", "-", " ", "a">>, <<"NUL">>}
                             \X {<<"-", "-", "-", " ">>, <<"a">>}}

MCLaterTexts == {<<"LF", "a">>, <<"a", "NUL">>, <<"BOM", "a", "CR", "LF">>,
                 <<"-", "-", "-", "LF", "a", "LF">>,
                 <<"-", "-", "-", "CR", "-", "-", "-", "LF", "a">>}

MCTexts == ShortTexts \cup FrontTexts \cup MCLaterTexts
=============================================================================
