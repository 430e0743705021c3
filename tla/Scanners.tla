------------------------------ MODULE Scanners ------------------------------
(***************************************************************************)
(* The scanners of scanners.c and extensions/ext_scanners.c: automata that *)
(* re2c generated from regular expressions and that the block and the      *)
(* inline parser ask what begins at a position of their input.             *)
(*                                                                         *)
(* A text is a sequence of characters.  Letters that only matter as part   *)
(* of a name are one character together with it: "div" is the name of a    *)
(* block tag in either case, "script" a tag whose content is raw, and so   *)
(* on; they are letters to everything else.  An automaton has no notion of *)
(* a length: it runs until a byte stops it.  ScanAt is the call that puts  *)
(* a NUL where the text ends, and Beyond what is in the buffer after it.   *)
(*                                                                         *)
(* A pattern takes the text and a set of positions to the positions at     *)
(* which a match that begins at one of these can end.                      *)
(***************************************************************************)
EXTENDS Integers, Sequences, FiniteSets, FiniteSetsExt, SequencesExt

-----------------------------------------------------------------------------
\* Characters.
NUL == "NUL"        \* the byte that ends a C string
BAD == "BAD"        \* a byte that is not UTF-8
Digit == {"0", "1"}
Hex == {"a", "A"}
Lower == {"a", "x", "g", "w", "div", "script", "javascript", "data", "image", "png",
          "http", "mailto", "xmpp"}
Upper == {"A", "CDATA"}
Letter == Lower \cup Upper
Blank == {" ", "\t"}
LineEnd == {"\n", "\r"}
Space == Blank \cup LineEnd \cup {"\f"}
Punct == {"!", "\"", "#", "&", "'", "(", ")", "*", "+", "-", ".", "/", ":", ";",
          "<", "=", ">", "?", "@", "[", "\\", "]", "^", "_", "BACKTICK", "|", "~"}
Other == {"UTF8", "CTL"}   \* beyond ASCII; a control character
Rune == Digit \cup Letter \cup Space \cup Punct \cup Other \cup {NUL}
Char == Rune \cup {BAD}

\* What a class of characters that excludes some is compiled to.
Not(C) == Rune \ (C \cup {NUL})

-----------------------------------------------------------------------------
\* Patterns.
One(t, P, C) == {p + 1 : p \in {q \in P : q <= Len(t) /\ t[q] \in C}}
Plus(t, P, C) ==
  {q \in 2 .. Len(t) + 1 : \E p \in P : p < q /\ \A i \in p .. q - 1 : t[i] \in C}
Star(t, P, C) == P \cup Plus(t, P, C)
Times(t, P, C, low, high) ==
  {q \in 1 .. Len(t) + 1 : \E p \in P : q - p \in low .. high /\ \A i \in p .. q - 1 : t[i] \in C}
Opt(t, P, C) == P \cup One(t, P, C)
Word(t, P, w) ==
  {p + Len(w) : p \in {q \in P : q + Len(w) <= Len(t) + 1 /\ SubSeq(t, q, q + Len(w) - 1) = w}}
Many(t, P, Step(_)) == FoldLeft(LAMBDA ends, i : ends \cup Step(ends), P, t)

\* re2c takes the longest match; no match is 0, and so is none that is empty.
Longest(p, ends) == IF ends = {} THEN 0 ELSE Max(ends) - p

-----------------------------------------------------------------------------
\* Parts that several scanners have.
Escapable == Punct
EscapedOr(t, P, C) ==
  Many(t, P, LAMBDA E : One(t, One(t, E, {"\\"}), Escapable) \cup One(t, E, C))
Quoted(t, P, q) == One(t, EscapedOr(t, One(t, P, {q}), Not({q})), {q})

TagName(t, P) == Star(t, One(t, P, Letter), Letter \cup Digit \cup {":", "-"})
AttributeName(t, P) ==
  Star(t, One(t, P, Letter \cup {"_", ":"}), Letter \cup Digit \cup {"_", ":", ".", "-"})
UnquotedValue(t, P) == Plus(t, P, Not(Space \cup {"\"", "'", "=", "<", ">", "BACKTICK"}))
QuotedValue(t, P, q) == One(t, Star(t, One(t, P, {q}), Not({q})), {q})
AttributeValue(t, P) ==
  UnquotedValue(t, P) \cup QuotedValue(t, P, "'") \cup QuotedValue(t, P, "\"")
AttributeValueSpec(t, P) ==
  AttributeValue(t, Star(t, One(t, Star(t, P, Space), {"="}), Space))
Attribute(t, P) ==
  LET name == AttributeName(t, Plus(t, P, Space))
  IN  name \cup AttributeValueSpec(t, name)
OpenTag(t, P) ==
  One(t, Opt(t, Star(t, Many(t, TagName(t, P), LAMBDA E : Attribute(t, E)), Space), {"/"}), {">"})
CloseTag(t, P) == One(t, Star(t, TagName(t, One(t, P, {"/"})), Space), {">"})

Scheme(t, P) == Times(t, One(t, P, Letter), Letter \cup Digit \cup {".", "+", "-"}, 1, 31)
DomainLabel(t, P) ==
  LET first == One(t, P, Letter \cup Digit)
  IN  first \cup One(t, Times(t, first, Letter \cup Digit \cup {"-"}, 0, 61), Letter \cup Digit)

-----------------------------------------------------------------------------
\* Inlines.
scan_scheme(t, p) == Longest(p, One(t, Scheme(t, {p}), {":"}))

scan_autolink_uri(t, p) ==
  LET path == Star(t, One(t, Scheme(t, {p}), {":"}), Not(Space \cup {"CTL", "<", ">"}))
  IN  Longest(p, One(t, path, {">"}))

LocalPart == Letter \cup Digit \cup {".", "!", "#", "&", "'", "*", "+", "/", "=", "?", "^", "_",
                                     "BACKTICK", "|", "~", "-"}
scan_autolink_email(t, p) ==
  LET domain == DomainLabel(t, One(t, Plus(t, {p}, LocalPart), {"@"}))
  IN  Longest(p, One(t, Many(t, domain, LAMBDA E : DomainLabel(t, One(t, E, {"."}))), {">"}))

scan_html_tag(t, p) == Longest(p, OpenTag(t, {p}) \cup CloseTag(t, {p}))

scan_liberal_html_tag(t, p) == Longest(p, One(t, Plus(t, {p}, Not({"\n"})), {">"}))

\* The rest of a comment: two dashes that one of these follows are part of it,
\* as three dashes in a row are.
CommentBody(t, P) ==
  Many(t, P, LAMBDA E :
    Plus(t, E, Not({"-"})) \cup One(t, One(t, E, {"-"}), Not({"-"}))
      \cup One(t, Word(t, E, <<"-", "-">>), Not({">"})))
scan_html_comment(t, p) ==
  Longest(p, Word(t, CommentBody(t, Word(t, {p}, <<"-", "-">>)), <<"-", "-", ">">>))

scan_html_pi(t, p) ==
  Longest(p, Many(t, {p}, LAMBDA E :
    Plus(t, E, Not({"?", ">"})) \cup One(t, One(t, E, {"?"}), Not({">"})) \cup One(t, E, {">"})))

scan_html_declaration(t, p) ==
  Longest(p, Star(t, Plus(t, Plus(t, {p}, Upper), Space), Not({">"})))

scan_html_cdata(t, p) ==
  Longest(p, Many(t, Word(t, {p}, <<"CDATA", "[">>), LAMBDA E :
    Plus(t, E, Not({"]"})) \cup One(t, One(t, E, {"]"}), Not({"]"}))
      \cup One(t, Word(t, E, <<"]", "]">>), Not({">"}))))

scan_link_title(t, p) ==
  Longest(p, Quoted(t, {p}, "\"") \cup Quoted(t, {p}, "'")
               \cup One(t, EscapedOr(t, One(t, {p}, {"("}), Not({"(", ")"})), {")"}))

scan_spacechars(t, p) == Longest(p, Plus(t, {p}, Space))

scan_entity(t, p) ==
  LET amp == One(t, {p}, {"&"})
      hash == One(t, amp, {"#"})
  IN  Longest(p, One(t, Times(t, One(t, hash, {"x"}), Digit \cup Hex, 1, 6)
                          \cup Times(t, hash, Digit, 1, 7)
                          \cup Times(t, One(t, amp, Letter), Letter \cup Digit, 1, 31), {";"}))

scan_dangerous_url(t, p) ==
  IF Word(t, {p}, <<"data", ":", "image", "/", "png">>) # {} THEN 0
  ELSE Longest(p, One(t, One(t, {p}, {"javascript", "data"}), {":"}))
-----------------------------------------------------------------------------
\* Blocks.  Some scanners return which alternative matched, not a length.
BlockTagEnd(t, P) == One(t, P, Space) \cup One(t, Opt(t, P, {"/"}), {">"})
scan_html_block_start(t, p) ==
  LET lt == One(t, {p}, {"<"})
  IN  IF One(t, One(t, lt, {"script"}), Space \cup {">"}) # {} THEN 1
      ELSE IF Word(t, lt, <<"!", "-", "-">>) # {} THEN 2
      ELSE IF One(t, lt, {"?"}) # {} THEN 3
      ELSE IF Word(t, lt, <<"!", "[", "CDATA", "[">>) # {} THEN 5
      ELSE IF One(t, One(t, lt, {"!"}), Upper) # {} THEN 4
      ELSE IF BlockTagEnd(t, One(t, Opt(t, lt, {"/"}), {"div"})) # {} THEN 6
      ELSE 0

scan_html_block_start_7(t, p) ==
  LET tag == OpenTag(t, One(t, {p}, {"<"})) \cup CloseTag(t, One(t, {p}, {"<"}))
  IN  IF One(t, Star(t, tag, {"\t", "\n", "\f", " "}), LineEnd) # {} THEN 7 ELSE 0

LineTo(t, p, w) == Longest(p, Word(t, Star(t, {p}, Not({"\n"})), w))
scan_html_block_end_1(t, p) == LineTo(t, p, <<"<", "/", "script", ">">>)
scan_html_block_end_2(t, p) == LineTo(t, p, <<"-", "-", ">">>)
scan_html_block_end_3(t, p) == LineTo(t, p, <<"?", ">">>)
scan_html_block_end_4(t, p) == LineTo(t, p, <<">">>)
scan_html_block_end_5(t, p) == LineTo(t, p, <<"]", "]", ">">>)

scan_atx_heading_start(t, p) ==
  LET hashes == Times(t, {p}, {"#"}, 1, 6)
  IN  Longest(p, Plus(t, hashes, Blank) \cup One(t, hashes, LineEnd))

scan_setext_heading_line(t, p) ==
  LET Underline(c) == One(t, Star(t, Plus(t, {p}, {c}), Blank), LineEnd)
  IN  IF Underline("=") # {} THEN 1 ELSE IF Underline("-") # {} THEN 2 ELSE 0

\* What follows the fence must match, and is not part of the length.
FenceBefore(t, p, c, Info) ==
  LET fences == Times(t, {p}, {c}, 3, Len(t))
  IN  {q \in fences : One(t, Star(t, {q}, Info), LineEnd) # {}}
scan_open_code_fence(t, p) ==
  Longest(p, FenceBefore(t, p, "BACKTICK", Not({"BACKTICK"} \cup LineEnd))
               \cup FenceBefore(t, p, "~", Not(LineEnd)))
scan_close_code_fence(t, p) ==
  Longest(p, FenceBefore(t, p, "BACKTICK", Blank) \cup FenceBefore(t, p, "~", Blank))

scan_footnote_definition(t, p) ==
  LET label == Plus(t, Word(t, {p}, <<"[", "^">>), Not({"]", " ", "\t"} \cup LineEnd))
  IN  Longest(p, Star(t, Word(t, label, <<"]", ":">>), Blank))

-----------------------------------------------------------------------------
\* Extensions.  Here a space is not a line ending, and two classes take a NUL.
ExtSpace == Space \ LineEnd
NewLine(t, P) == One(t, Opt(t, P, {"\r"}), {"\n"})
TableMarker(t, P) ==
  Star(t, Opt(t, Plus(t, Opt(t, Star(t, P, ExtSpace), {":"}), {"-"}), {":"}), ExtSpace)
scan_table_start(t, p) ==
  LET first == TableMarker(t, Opt(t, {p}, {"|"}))
      markers == Many(t, first, LAMBDA E : TableMarker(t, One(t, E, {"|"})))
  IN  Longest(p, NewLine(t, Star(t, Opt(t, markers, {"|"}), ExtSpace)))

scan_table_cell(t, p) ==
  Longest(p, EscapedOr(t, {p}, Rune \ ({"|"} \cup LineEnd)))

scan_table_cell_end(t, p) == Longest(p, Star(t, One(t, {p}, {"|"}), ExtSpace))

scan_table_row_end(t, p) == Longest(p, NewLine(t, Star(t, {p}, ExtSpace)))

scan_tasklist(t, p) ==
  LET indent == Star(t, {p}, ExtSpace)
      marker == One(t, indent, {"-", "+", "*"}) \cup One(t, Plus(t, indent, Digit), Rune \ {"\n"})
      box == One(t, Plus(t, marker, ExtSpace), {"["})
  IN  Longest(p, Plus(t, One(t, One(t, box, {" ", "x"}), {"]"}), ExtSpace))

-----------------------------------------------------------------------------
\* A call on the first len characters of a buffer, at an offset from 0: what is
\* in the buffer after them stays there, behind a NUL.
ScanAt(scanner(_, _), buffer, len, offset) ==
  IF offset > len THEN 0
  ELSE LET Beyond == SubSeq(buffer, len + 2, Len(buffer))
       IN  scanner(Append(SubSeq(buffer, 1, len), NUL) \o Beyond, offset + 1)
=============================================================================
