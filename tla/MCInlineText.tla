---------------------------- MODULE MCInlineText ----------------------------
(***************************************************************************)
(* Texts for InlineText: each family has a few beginnings and ends, all    *)
(* short sequences over a small alphabet between them, and the options     *)
(* that matter to it.                                                      *)
(***************************************************************************)
EXTENDS InlineText

MCLabels == {<<"a">>}
MCEntities == {<<"g", "g">>}

\* A text begins and ends with a character that is no space; a line of a
\* paragraph begins with none, and with nothing that begins another block.
LineStart == Letter \cup {"[", "]", "BACKTICK", "\\", ".", ")", "&"}
InBlock(t) ==
  /\ t[1] \notin Space /\ Last(t) \notin Space
  /\ \A i \in 1 .. Len(t) - 1 : t[i] = "\n" => t[i + 1] \in LineStart
  /\ \A i \in 1 .. Len(t) - 3 : t[i] # "\n" \/ \E j \in i + 1 .. i + 3 : t[j] # "BACKTICK"

Sequences(alphabet, lengths) == UNION {[1 .. n -> alphabet] : n \in lengths}
Family(beginnings, alphabet, lengths, ends, opts) ==
  {t \in {[text |-> b \o s \o e, options |-> opts] :
           b \in beginnings, s \in Sequences(alphabet, lengths), e \in ends} : InBlock(t.text)}
Positions == {"SOURCEPOS"}
None == {<<>>}

CodeTexts == {
  Family({<<"x">>}, {"BACKTICK", "a", " ", "\n"}, 3 .. 5, None, Positions),
  Family({<<"x", "BACKTICK", "BACKTICK">>}, {"BACKTICK", "a"}, {7}, None, {}),
  Family({<<"a", ":", "BACKTICK">>, <<"BACKTICK", " ">>}, {"BACKTICK", "a", ":", "#"}, 1 .. 4,
         {<<"a">>}, {"INLINE_CODE_INFO"})}
HtmlTexts == {
  Family({<<"<", "!", "-", "-">>}, {"-", ">", "a"}, 1 .. 5, {<<"a">>}, {}),
  Family({<<"<", "!", "[", "CDATA", "[">>}, {"]", ">", "a"}, 1 .. 5, {<<"a">>}, {}),
  Family({<<"<", "?">>, <<"<", "!", "A", " ">>, <<"<", "!", "-", "-", "<">>},
         {"?", ">", "<", "!", "A", " "}, 3 .. 3, {<<"a">>}, {}),
  Family({<<"x", "<", "a">>}, {" ", "=", "\"", "/", ">", "\n"}, 1 .. 4, {<<"a">>},
         Positions \cup {"LIBERAL_HTML_TAG"})}
LinkTexts == {
  Family({<<"[", "a", "]", "(">>}, {"(", ")", "a", " ", "<", ">", "\\"}, 1 .. 4, {<<")">>}, {}),
  Family({<<"[", "]", "(", "a", " ">>}, {"\"", ")", "(", "\\", "a", " "}, 1 .. 4, {<<")">>}, {}),
  Family({<<"[">>, <<"!", "[">>}, {"[", "]", "a", "A", "!", "\n"}, 1 .. 4, {<<"]">>}, {})}
FootnoteTexts == {
  Family({<<"[", "^">>, <<"x", "!", "[", "^">>}, {"a", "BACKTICK", "\n", "\\", "]", "["},
         1 .. 3, {<<"]">>}, Positions \cup {"FOOTNOTES"}),
  Family({<<"[", "\\", "^">>}, {"a", "BACKTICK"}, 1 .. 2, {<<"]">>}, {"FOOTNOTES"})}
OtherTexts == {
  Family(None, {"-", ".", "a", "'", "\""}, {4}, {<<"a">>}, {"SMART"}),
  Family(None, {"-", "."}, {7}, {<<"a">>}, {"SMART"}),
  Family({<<"&">>}, {"&", "#", "x", "g", ";", "0"}, 1 .. 3, {<<"a">>}, {}),
  Family({<<"x">>}, {"*", " ", "\n", "\\", "UTF8"}, 1 .. 4, {<<"a">>}, Positions)}
LinkedTexts == {
  Family({<<"w", "w", "w", ".", "a", ".">>, <<"a", "(", "http", ":", "/", "/">>,
          <<"[", "a", "http", ":", "/", "/">>},
         {"a", ".", "_", "(", ")", "<", ";"}, 1 .. 3, {<<"a">>, <<"&", "a", ";">>}, {"AUTOLINK"}),
  Family({<<"a">>, <<"[", "a", "]", "(", "a", ")">>}, {"a", "@", ".", "-", "mailto", ":"},
         1 .. 4, {<<".", "a">>}, {"AUTOLINK"}),
  Family({<<"<">>}, {"a", "x", ":", "@", "."}, {4}, {<<">">>}, {})}

MCTexts == UNION {CodeTexts, HtmlTexts, LinkTexts, FootnoteTexts, OtherTexts, LinkedTexts}
=============================================================================
