----------------------------- MODULE InlineText -----------------------------
(***************************************************************************)
(* The inline parser over the text of a block (inlines.c, and match of     *)
(* autolink.c): parse_inline looks at the character at the position of the *)
(* subject, one handler appends a node and advances.  Code spans, entities,*)
(* raw HTML, autolinks, link destinations, titles and labels are parsed    *)
(* here, character by character; the pairing of the delimiter runs that it *)
(* leaves in the texts is the subject of Inlines.                          *)
(*                                                                         *)
(* The nodes are in one sequence: a link is the node of its opener with a  *)
(* new type, then what is in it, then a node that closes it.  Each node    *)
(* has the positions in the input, from `at` to `to`, of what it stands    *)
(* for.  Positions count from 0, as they do in the code.                   *)
(***************************************************************************)
EXTENDS Autolinks, References

CONSTANTS
  Texts,             \* sets of texts of blocks, each with options to parse it with
  Labels,            \* the labels of the link references that are defined
  Entities,          \* the names of the entities, as sequences of characters
  BlockOffset,       \* what the columns of the block start at
  MAXBACKTICKS,      \* the longest backtick string that can open a code span
  MaxParentheses     \* how deep parentheses nest in a destination

ASSUME BoundsAssumption ==
  BlockOffset \in Nat /\ MAXBACKTICKS \in Nat /\ MaxParentheses \in Nat

VARIABLES
  input,     \* the text, without the space at its ends
  options,   \* of the parser, and the extensions that are on
  subject,   \* what struct subject has, but its input and its delimiters
  nodes,     \* the children of the block
  phase      \* "inlines", "done" when the texts have been joined

vars == <<input, options, subject, nodes, phase>>

subject_from_buf ==
  [pos |-> 0, line |-> 1, column_offset |-> 0, flags |-> {}, no_link_openers |-> TRUE,
   brackets |-> <<>>, scanned_for_backticks |-> FALSE,
   backticks |-> [n \in 1 .. MAXBACKTICKS |-> 0]]

Init ==
  /\ \E family \in Texts : \E t \in family : input = t.text /\ options = t.options
  /\ subject = subject_from_buf
  /\ nodes = <<>>
  /\ phase = "inlines"

-----------------------------------------------------------------------------
(***************************************************************************)
(* The subject.                                                            *)
(***************************************************************************)
Size == Len(input)
At(i) == IF i < Size THEN input[i + 1] ELSE NUL
Here == At(subject.pos)
Chunk(from, n) == SubSeq(input, from + 1, from + n)
Scan(scanner(_, _), i) == ScanAt(scanner, input, Size, i)

\* The first position from i on with none of C.
Past(i, C) == Min({j \in i .. Size : j = Size \/ At(j) \notin C})

\* make_literal: a node for the positions from..to, and its columns.
Node(type, from, to, literal) ==
  [type |-> type, at |-> from, to |-> to, literal |-> literal,
   start_line |-> subject.line, end_line |-> subject.line,
   start_column |-> from + 1 + subject.column_offset + BlockOffset,
   end_column |-> to + 1 + subject.column_offset + BlockOffset]
Columns(node, from, to) == [node EXCEPT !.start_column = from, !.end_column = to]
Str(from, to) == Node("text", from, to, Chunk(from, to + 1 - from))
\* make_simple: a node without a position.
Simple(type, from, to) ==
  [Columns(Node(type, from, to, <<>>), 0, 0) EXCEPT !.start_line = 0, !.end_line = 0]

Parsing == UNCHANGED <<input, options, phase>>
Emit(s, node) == subject' = s /\ nodes' = Append(nodes, node) /\ Parsing
To(i) == [subject EXCEPT !.pos = i]

\* Mutant: the lines are counted, the column goes on.
AdjustLinesOnly(s, node, matchlen, extra) ==
  LET ends == {i \in s.pos - matchlen - extra .. s.pos - extra - 1 : At(i) = "\n"}
  IN  <<[s EXCEPT !.line = @ + Cardinality(ends)],
        [node EXCEPT !.end_line = @ + Cardinality(ends)]>>

\* A node with line endings in it, once the subject is after it.  They are the
\* ones in the matchlen characters that end extra before the subject.
adjust_subj_node_newlines(s, node, matchlen, extra) ==
  LET from == s.pos - matchlen - extra
      ends == {i \in from .. from + matchlen - 1 : At(i) = "\n"}
      since == from + matchlen - 1 - Max(ends)
  IN  IF "SOURCEPOS" \notin options \/ ends = {} THEN <<s, node>>
      ELSE <<[s EXCEPT !.line = @ + Cardinality(ends),
                       !.column_offset = since + extra - s.pos],
             [node EXCEPT !.end_line = @ + Cardinality(ends), !.end_column = since]>>
EmitAdjusted(s, node, matchlen, extra) ==
  LET adjusted == adjust_subj_node_newlines(s, node, matchlen, extra)
  IN  Emit(adjusted[1], adjusted[2])

Starts(C) == subject.pos < Size /\ Here \in C

-----------------------------------------------------------------------------
(***************************************************************************)
(* Code spans.                                                             *)
(***************************************************************************)
\* The backtick strings from i on, as their positions, and their lengths.
TickStrings(i) == {j \in i .. Size - 1 : At(j) = "BACKTICK" /\ (j = i \/ At(j - 1) # "BACKTICK")}
TickLength(j) == Past(j, {"BACKTICK"}) - j

\* Mutant: once a search came to the end there is no other.
CloserUntilEnd(n, i) ==
  LET closers == {j \in TickStrings(i) : TickLength(j) = n}
  IN  [end |-> IF closers = {} \/ n > MAXBACKTICKS \/ subject.scanned_for_backticks
               THEN 0 ELSE Min(closers) + n,
       subject |-> [subject EXCEPT !.scanned_for_backticks = @ \/ closers = {}]]

\* The search for n backticks from i on: where they end, 0 if there are none.
\* It remembers where it saw the strings of every length, the last of each, and
\* whether it ever came to the end.
scan_to_closing_backticks(n, i) ==
  LET closers == {j \in TickStrings(i) : TickLength(j) = n}
      seen == IF closers = {} THEN TickStrings(i) ELSE {j \in TickStrings(i) : j <= Min(closers)}
      Of(m) == {j \in seen : TickLength(j) = m}
      s == [subject EXCEPT
             !.backticks = [m \in 1 .. MAXBACKTICKS |-> IF Of(m) = {} THEN @[m] ELSE Max(Of(m))],
             !.scanned_for_backticks = @ \/ closers = {}]
  IN  IF n > MAXBACKTICKS \/ (subject.scanned_for_backticks /\ subject.backticks[n] <= i)
      THEN [end |-> 0, subject |-> subject]
      ELSE [end |-> IF closers = {} THEN 0 ELSE Min(closers) + n, subject |-> s]

\* Lines reach the inline parser with a newline at their end and no other.
S_normalize_code(s) ==
  LET spaces == [i \in DOMAIN s |-> IF s[i] = "\n" THEN " " ELSE s[i]]
      padded == (\E i \in DOMAIN s : spaces[i] # " ") /\ spaces[1] = " " /\ spaces[Len(s)] = " "
  IN  IF padded THEN SubSeq(spaces, 2, Len(s) - 1) ELSE spaces

\* The code span that the backticks at p open, after the positions from `from`.
CodeSpan(from, p) ==
  LET n == TickLength(p)
      found == scan_to_closing_backticks(n, p + n)
      start == p + n
      content == Chunk(start, found.end - n - start)
      code == Node("code", from, found.end - 1, S_normalize_code(content))
  IN  [found |-> found.end # 0, subject |-> found.subject, end |-> found.end,
       node |-> Columns(code, start + 1 + subject.column_offset + BlockOffset,
                              found.end - n + subject.column_offset + BlockOffset),
       matchlen |-> found.end - start, extra |-> n]

\* handle_backticks
CodeAt(from, p) ==
  LET span == CodeSpan(from, p)
  IN  /\ span.found
      /\ EmitAdjusted([span.subject EXCEPT !.pos = span.end], span.node, span.matchlen, span.extra)
HandleCode == Starts({"BACKTICK"}) /\ CodeAt(subject.pos, subject.pos)
HandleBackticks ==
  /\ Starts({"BACKTICK"})
  /\ LET end == Past(subject.pos, {"BACKTICK"})
         span == CodeSpan(subject.pos, subject.pos)
         column == end + 1 + subject.column_offset + BlockOffset
     IN  /\ ~span.found
         /\ Emit([span.subject EXCEPT !.pos = end],
                 Columns(Str(subject.pos, end - 1), column, column))

\* The position of the colon in info:`code`, if that begins at i.
InfoStart == Letter \cup Digit
InfoChar == InfoStart \cup {"_", "-", "+", "#", "."}
scan_inline_code_info_prefix(i) ==
  LET colon == Past(i, InfoChar)
  IN  IF /\ At(i) \in InfoStart /\ (i > 0 => At(i - 1) \notin InfoChar)
         /\ At(colon) = ":" /\ At(colon + 1) = "BACKTICK"
      THEN colon ELSE 0

HasInfo == "INLINE_CODE_INFO" \in options /\ scan_inline_code_info_prefix(subject.pos) # 0
HandleInlineCodeInfo ==
  /\ HasInfo
  /\ CodeAt(subject.pos, scan_inline_code_info_prefix(subject.pos) + 1)

\* What the subject is when its info was no info: the search is remembered.
Tried ==
  IF HasInfo
  THEN CodeSpan(subject.pos, scan_inline_code_info_prefix(subject.pos) + 1).subject
  ELSE subject
NoInfo == HasInfo => ~CodeSpan(subject.pos, scan_inline_code_info_prefix(subject.pos) + 1).found

-----------------------------------------------------------------------------
(***************************************************************************)
(* Line endings, delimiter runs, punctuation.                              *)
(***************************************************************************)
HandleNewline ==
  /\ Starts(LineEnd)
  /\ LET nl == subject.pos
         end == Past(nl + 1, Blank)
         hard == nl > 1 /\ At(nl - 1) = " " /\ At(nl - 2) = " "
     IN  Emit([To(end) EXCEPT !.line = @ + 1, !.column_offset = -(nl + 1)],
              Simple(IF hard THEN "linebreak" ELSE "softbreak", nl, end - 1))

\* What scan_delims reads before and after a run: the ends of the text count as
\* line endings.
Before(i) == IF i = 0 THEN "\n" ELSE At(i - 1)
After(i) == IF i >= Size THEN "\n" ELSE At(i)
LeftFlanking(b, a) == a \notin Space /\ (a \notin Punct \/ b \in Space \cup Punct)
RightFlanking(b, a) == b \notin Space /\ (b \notin Punct \/ a \in Space \cup Punct)
Flanking(c, b, a) ==
  LET left == LeftFlanking(b, a)
      right == RightFlanking(b, a)
  IN  CASE c = "_" -> [opens |-> left /\ (~right \/ b \in Punct),
                       closes |-> right /\ (~left \/ a \in Punct)]
        [] c \in {"'", "\""} -> [opens |-> left /\ ~right /\ b \notin {"]", ")"}, closes |-> right]
        [] OTHER -> [opens |-> left, closes |-> right]
scan_delims(c) ==
  LET end == IF c \in {"'", "\""} THEN subject.pos + 1 ELSE Past(subject.pos, {c})
  IN  [end |-> end] @@ Flanking(c, Before(subject.pos), After(end))

SmartQuote(c, closes) ==
  IF "SMART" \notin options \/ c \notin {"'", "\""} THEN <<>>
  ELSE <<IF c = "'" \/ closes THEN "RIGHT QUOTE" ELSE "LEFT QUOTE">>
HandleDelim ==
  /\ Starts({"*", "_", "'", "\""})
  /\ LET run == scan_delims(Here)
         text == Str(subject.pos, run.end - 1)
         glyph == SmartQuote(Here, run.closes)
     IN  Emit(To(run.end), [text EXCEPT !.literal = IF glyph = <<>> THEN @ ELSE glyph])

\* How many em and en dashes n hyphens become.
Dashes(n) ==
  IF n % 3 = 0 THEN [em |-> n \div 3, en |-> 0]
  ELSE IF n % 2 = 0 THEN [em |-> 0, en |-> n \div 2]
  ELSE IF n % 3 = 2 THEN [em |-> (n - 2) \div 3, en |-> 1]
  ELSE [em |-> (n - 4) \div 3, en |-> 2]
HandleHyphen ==
  /\ Starts({"-"})
  /\ LET end == IF "SMART" \in options THEN Past(subject.pos, {"-"}) ELSE subject.pos + 1
         dashes == Dashes(end - subject.pos)
         text == Str(subject.pos, end - 1)
     IN  Emit(To(end), IF end = subject.pos + 1 THEN text
                       ELSE [text EXCEPT !.literal = [i \in 1 .. dashes.em |-> "EM DASH"]
                                                     \o [i \in 1 .. dashes.en |-> "EN DASH"]])

HandlePeriod ==
  /\ Starts({"."})
  /\ LET most == IF "SMART" \in options THEN 3 ELSE 1
         end == Min({Past(subject.pos, {"."}), subject.pos + most})
         text == Str(subject.pos, end - 1)
     IN  Emit(To(end), IF end < subject.pos + 3 THEN text
                       ELSE [text EXCEPT !.literal = <<"ELLIPSIS">>])

HandleBackslash ==
  /\ Starts({"\\"})
  /\ LET next == At(subject.pos + 1)
     IN  IF next \in Punct
         THEN Emit(To(subject.pos + 2),
                   [Str(subject.pos, subject.pos + 1) EXCEPT !.literal = <<next>>])
         ELSE IF next \in LineEnd
         THEN Emit(To(subject.pos + 2), Simple("linebreak", subject.pos, subject.pos + 1))
         ELSE Emit(To(subject.pos + 1), Str(subject.pos, subject.pos))

\* houdini_unescape_ent: how long what follows "&" is, 0 if it is no entity.
houdini_unescape_ent(i) ==
  LET hash == IF At(i) = "#" THEN {i + 2} ELSE {}
      digits == Times(input, hash, Digit, 1, 8)
      hex == Times(input, One(input, hash, {"x"}), Digit \cup Hex, 1, 8)
      named == UNION {Word(input, {i + 1}, name) : name \in Entities}
      ends == One(input, digits \cup hex \cup named, {";"})
  IN  IF ends = {} THEN 0 ELSE Min(ends) - (i + 1)
HandleEntity ==
  /\ Starts({"&"})
  /\ LET length == houdini_unescape_ent(subject.pos + 1)
         text == Str(subject.pos, subject.pos + length)
     IN  Emit(To(subject.pos + 1 + length),
              IF length = 0 THEN text ELSE [text EXCEPT !.literal = <<"ENTITY">>])

-----------------------------------------------------------------------------
(***************************************************************************)
(* Autolinks and raw HTML: what follows "<".                               *)
(***************************************************************************)
\* The columns of an autolink are its positions in the input.
HandleAutolink ==
  /\ Starts({"<"})
  /\ LET start == subject.pos + 1
         uri == Scan(scan_autolink_uri, start)
         length == IF uri > 0 THEN uri ELSE Scan(scan_autolink_email, start)
         end == start + length
     IN  /\ length > 0
         /\ Emit(To(end), Columns(Node("autolink", subject.pos, end - 1, Chunk(start, length - 1)),
                                  subject.pos + 1, end))

\* The length of the raw HTML that follows the "<" before i, and the searches
\* that are off from now on because they came to the end of the text.
NoHtml == [length |-> 0, skip |-> {}]
Html(length) == [length |-> length, skip |-> {}]
Within(i, length, kind) ==
  IF i + length > Size THEN [length |-> 0, skip |-> {kind}] ELSE Html(length)
HtmlComment(i) ==
  LET length == Scan(scan_html_comment, i + 1)
  IN  IF At(i + 3) = ">" THEN Html(4)
      ELSE IF At(i + 3) = "-" /\ At(i + 4) = ">" THEN Html(5)
      ELSE IF length > 0 THEN Html(length + 1) ELSE [length |-> 0, skip |-> {"COMMENT"}]
HtmlCdata(i) ==
  LET length == Scan(scan_html_cdata, i + 2)
  IN  IF "CDATA" \in subject.flags \/ length = 0 THEN NoHtml ELSE Within(i, length + 5, "CDATA")
HtmlDeclaration(i) ==
  LET length == Scan(scan_html_declaration, i + 1)
  IN  IF "DECLARATION" \in subject.flags \/ length = 0 THEN NoHtml
      ELSE Within(i, length + 2, "DECLARATION")
\* Mutant: one flag for all searches.
ProcessingFlagged(i) ==
  IF subject.flags # {} THEN NoHtml ELSE Within(i, Scan(scan_html_pi, i + 1) + 3, "PI")
HtmlProcessing(i) ==
  IF "PI" \in subject.flags THEN NoHtml ELSE Within(i, Scan(scan_html_pi, i + 1) + 3, "PI")

ScanHtml(i) ==
  IF i + 2 > Size THEN NoHtml
  ELSE IF At(i) = "!" /\ "COMMENT" \notin subject.flags
  THEN IF At(i + 1) = "-" /\ At(i + 2) = "-" THEN HtmlComment(i)
       ELSE IF At(i + 1) = "[" THEN HtmlCdata(i) ELSE HtmlDeclaration(i)
  ELSE IF At(i) = "?" THEN HtmlProcessing(i)
  ELSE Html(Scan(scan_html_tag, i))

\* Any tag, if the option is set and nothing else matches.
PointyBrace(i) ==
  LET html == ScanHtml(i)
  IN  IF html.length = 0 /\ "LIBERAL_HTML_TAG" \in options
      THEN [html EXCEPT !.length = Scan(scan_liberal_html_tag, i)] ELSE html
HandlePointyBrace ==
  /\ Starts({"<"})
  /\ Scan(scan_autolink_uri, subject.pos + 1) = 0
  /\ Scan(scan_autolink_email, subject.pos + 1) = 0
  /\ LET i == subject.pos + 1
         html == PointyBrace(i)
         s == [To(i + html.length) EXCEPT !.flags = @ \cup html.skip]
         to == i + html.length - 1
     IN  IF html.length = 0 THEN Emit(s, Str(subject.pos, subject.pos))
         ELSE LET raw == Chunk(subject.pos, html.length + 1)
              IN  EmitAdjusted(s, Node("html_inline", subject.pos, to, raw), html.length, 1)

-----------------------------------------------------------------------------
(***************************************************************************)
(* Brackets.                                                               *)
(***************************************************************************)
Bracket(image, position) ==
  [image |-> image, position |-> position, bracket_after |-> FALSE, node |-> Len(nodes) + 1]
push_bracket(image, position) ==
  LET marked == [k \in DOMAIN subject.brackets |->
                   [subject.brackets[k] EXCEPT !.bracket_after = @ \/ k = Len(subject.brackets)]]
  IN  [To(position) EXCEPT !.brackets = Append(marked, Bracket(image, position)),
                           !.no_link_openers = @ /\ image]

OpenBracket ==
  /\ Starts({"["})
  /\ Emit(push_bracket(FALSE, subject.pos + 1), Str(subject.pos, subject.pos))
Bang ==
  /\ Starts({"!"})
  /\ IF At(subject.pos + 1) = "[" /\ At(subject.pos + 2) # "^"
     THEN Emit(push_bracket(TRUE, subject.pos + 2), Str(subject.pos, subject.pos + 1))
     ELSE Emit(To(subject.pos + 1), Str(subject.pos, subject.pos))

NoMatch == -1

\* A destination in pointy brackets, and one without.  Both return where it ends.
PointyUrl(start) ==
  LET From[i \in start .. Size + 1] ==
        CASE i >= Size -> NoMatch
          [] At(i) = ">" -> i + 1
          [] At(i) = "\\" -> From[i + 2]
          [] At(i) \in {"\n", "<"} -> NoMatch
          [] OTHER -> From[i + 1]
      end == From[start + 1]
  IN  IF end >= Size THEN NoMatch ELSE end
\* Mutant: a parenthesis too few may be open.
PlainUrlShallow(start) ==
  LET From[i \in start .. Size + 1, open \in 0 .. MaxParentheses] ==
        CASE i >= Size \/ open >= MaxParentheses -> NoMatch
          [] At(i) = "\\" /\ At(i + 1) \in Punct -> From[i + 2, open]
          [] At(i) = "(" -> From[i + 1, open + 1]
          [] At(i) = ")" -> IF open = 0 THEN i ELSE From[i + 1, open - 1]
          [] At(i) \in Space -> IF i = start THEN NoMatch ELSE i
          [] OTHER -> From[i + 1, open]
  IN  From[start, 0]
manual_scan_link_url_2(start) ==
  LET From[i \in start .. Size + 1, open \in 0 .. MaxParentheses + 1] ==
        CASE i >= Size \/ open > MaxParentheses -> NoMatch
          [] At(i) = "\\" /\ At(i + 1) \in Punct -> From[i + 2, open]
          [] At(i) = "(" -> From[i + 1, open + 1]
          [] At(i) = ")" -> IF open = 0 THEN i ELSE From[i + 1, open - 1]
          [] At(i) \in Space -> IF i = start THEN NoMatch ELSE i
          [] OTHER -> From[i + 1, open]
  IN  From[start, 0]
manual_scan_link_url(start) ==
  IF At(start) = "<" THEN PointyUrl(start) ELSE manual_scan_link_url_2(start)

\* "(destination title)" from i on: where it ends.
InlineTail(i) ==
  LET start == i + 1 + Scan(scan_spacechars, i + 1)
      endurl == manual_scan_link_url(start)
      starttitle == endurl + Scan(scan_spacechars, endurl)
      endtitle == IF starttitle = endurl THEN starttitle
                  ELSE starttitle + Scan(scan_link_title, starttitle)
      endall == endtitle + Scan(scan_spacechars, endtitle)
  IN  IF At(i) # "(" THEN NoMatch
      ELSE IF endurl = NoMatch THEN NoMatch
      ELSE IF At(endall) = ")" THEN endall + 1 ELSE NoMatch

\* "[label]" from i on: where it ends.
link_label(i) ==
  LET From[j \in i .. Size + 1, length \in 0 .. MaxLabel + 2] ==
        CASE length > MaxLabel -> NoMatch
          [] At(j) = "]" -> j + 1
          [] At(j) \in {NUL, "["} -> NoMatch
          [] At(j) = "\\" /\ At(j + 1) \in Punct -> From[j + 2, length + 2]
          [] OTHER -> From[j + 1, length + 1]
  IN  IF At(i) = "[" THEN From[i + 1, 0] ELSE NoMatch

\* The map of the references finds a label (cmark_map_lookup).
Defined(label) == Len(label) <= MaxLabel /\ normalize_map_label(label) \in Labels

Opener == Last(subject.brackets)
Popped == [subject EXCEPT !.brackets = Front(@)]
Closing == Starts({"]"}) /\ subject.brackets # <<>>
Inactive == ~Opener.image /\ subject.no_link_openers

\* The label of a reference that ends at the closing bracket or after it, and
\* where the link then ends.  A label that is not there, or empty, is the text
\* of the link, if there is no bracket in it.
Reference ==
  LET after == subject.pos + 1
      end == link_label(after)
      label == IF end = NoMatch THEN <<>> ELSE Trim(Chunk(after + 1, end - after - 2))
      shortcut == label = <<>> /\ ~Opener.bracket_after
  IN  [found |-> end # NoMatch \/ shortcut, end |-> IF end = NoMatch THEN after ELSE end,
       label |-> IF shortcut THEN Chunk(Opener.position, subject.pos - Opener.position) ELSE label]
ReferenceMatches == Reference.found /\ Defined(Reference.label)

\* Where the link ends that the bracket at the subject closes.
LinkEnd ==
  LET tail == InlineTail(subject.pos + 1)
  IN  IF tail # NoMatch THEN tail ELSE IF ReferenceMatches THEN Reference.end ELSE NoMatch

FootnoteMatches ==
  /\ "FOOTNOTES" \in options
  /\ Opener.node < Len(nodes)
  /\ LET text == nodes[Opener.node + 1]
     IN  /\ text.type = "text" /\ text.literal # <<>> /\ text.literal[1] = "^"
         /\ Len(text.literal) > 1 \/ Opener.node + 1 < Len(nodes)

CloseLiteral ==
  /\ Starts({"]"})
  /\ subject.brackets = <<>>
  /\ Emit(To(subject.pos + 1), Str(subject.pos, subject.pos))
CloseInactive ==
  /\ Closing /\ Inactive
  /\ Emit([Popped EXCEPT !.pos = @ + 1], Str(subject.pos, subject.pos))
CloseNoMatch ==
  /\ Closing /\ ~Inactive /\ LinkEnd = NoMatch /\ ~FootnoteMatches
  /\ Emit([Popped EXCEPT !.pos = @ + 1], Str(subject.pos, subject.pos))

\* The opener becomes the link; what follows it is in the link.
CloseLink ==
  /\ Closing /\ ~Inactive /\ LinkEnd # NoMatch
  /\ Parsing
  /\ subject' = [Popped EXCEPT !.pos = LinkEnd, !.no_link_openers = @ \/ ~Opener.image]
  /\ LET column == LinkEnd + subject.column_offset + BlockOffset
         type == IF Opener.image THEN "image" ELSE "link"
     IN  nodes' = Append([nodes EXCEPT ![Opener.node].type = type,
                                       ![Opener.node].start_line = subject.line,
                                       ![Opener.node].end_line = subject.line,
                                       ![Opener.node].end_column = column],
                         Simple(IF Opener.image THEN "close image" ELSE "close link",
                                subject.pos, LinkEnd - 1))

\* The reference replaces its opener and everything after it.  Its text is as
\* long as the columns of its ends say.
FootnoteLength(end, start) == IF start + 2 <= end THEN end - start - 2 ELSE 0
CloseFootnote ==
  /\ Closing /\ ~Inactive /\ LinkEnd = NoMatch /\ FootnoteMatches
  /\ Parsing
  /\ LET opener == nodes[Opener.node]
         end == subject.pos + 1 + subject.column_offset + BlockOffset
         length == FootnoteLength(end, opener.start_column)
         next == nodes[Opener.node + 1].at
         caret == IF At(next) = "\\" THEN next + 1 ELSE next
         text == Chunk(caret + 1, length)
     IN  /\ subject' = [Popped EXCEPT !.pos = @ + 1]
         /\ nodes' = Append(SubSeq(nodes, 1, Opener.node - 1),
                            Columns(Node("footnote_reference", opener.at, subject.pos, text),
                                    opener.start_column, end))

-----------------------------------------------------------------------------
(***************************************************************************)
(* Text, and what the autolink extension makes of a ":" or a "w" in it.    *)
(***************************************************************************)
Special ==
  LineEnd \cup {"\\", "BACKTICK", "&", "_", "*", "[", "]", "<", "!"}
    \cup (IF "SMART" \in options THEN {"\"", "'", ".", "-"} ELSE {})
    \cup (IF "AUTOLINK" \in options THEN {":", "w"} ELSE {})
Plain == subject.pos < Size /\ Here \notin
           LineEnd \cup {"\\", "BACKTICK", "&", "_", "*", "[", "]", "<", "!", "\"", "'", ".", "-"}

\* match: no link in brackets, whatever becomes of them.
UrlMatch ==
  IF "AUTOLINK" \in options /\ subject.brackets = <<>> /\ Here = ":"
  THEN url_match(input, subject.pos) ELSE [rewind |-> 0, length |-> 0]
WwwMatch ==
  IF "AUTOLINK" \in options /\ subject.brackets = <<>> /\ Here = "w"
  THEN www_match(input, subject.pos) ELSE 0

\* Mutant: the scheme stays in the text.
UnputNothing(ns, n) == ns

\* cmark_node_unput: the texts at the end lose their last n characters.
Unput(ns, n) ==
  LET Ending == {k \in DOMAIN ns : \A j \in k .. Len(ns) : ns[j].type = "text"}
      Behind(k) == FoldLeft(LAMBDA sum, n2 : sum + Len(n2.literal), 0, SubSeq(ns, k + 1, Len(ns)))
      Cut(k) == IF k \notin Ending \/ Behind(k) >= n THEN 0
                ELSE Min({Len(ns[k].literal), n - Behind(k)})
  IN  [k \in DOMAIN ns |-> [ns[k] EXCEPT !.to = @ - Cut(k),
                                         !.literal = SubSeq(@, 1, Len(@) - Cut(k))]]

HandleWww ==
  /\ Plain /\ NoInfo /\ WwwMatch > 0
  /\ LET end == subject.pos + WwwMatch
         offset == subject.column_offset + BlockOffset
     IN  Emit([Tried EXCEPT !.pos = end],
              Columns(Node("autolink", subject.pos, end - 1, Chunk(subject.pos, WwwMatch)),
                      subject.pos + offset, end + offset))
HandleUrl ==
  /\ Plain /\ UrlMatch.length > 0
  /\ Parsing
  /\ LET end == subject.pos + UrlMatch.length
         from == subject.pos - UrlMatch.rewind
     IN  /\ subject' = To(end)
         /\ nodes' = Append(Unput(nodes, UrlMatch.rewind),
                            Columns(Node("autolink", from, end - 1, Chunk(from, end - from)),
                                    from, end + subject.column_offset + BlockOffset))

HandleText ==
  /\ Plain /\ NoInfo /\ WwwMatch = 0 /\ UrlMatch.length = 0
  /\ LET start == subject.pos
         special == Min({i \in start + 1 .. Size : i = Size \/ At(i) \in Special})
         infos == {i \in start + 1 .. special - 1 :
                     "INLINE_CODE_INFO" \in options /\ scan_inline_code_info_prefix(i) # 0}
         end == Min(infos \cup {special})
         text == Str(start, end - 1)
     IN  Emit([Tried EXCEPT !.pos = end],
              [text EXCEPT !.literal = IF At(end) \in LineEnd THEN Rtrim(@) ELSE @])

\* At the end the texts that are neighbours are joined, and the extension looks
\* for addresses in those that are in no link.
Joined(ns) ==
  FoldLeft(LAMBDA list, n :
    IF list # <<>> /\ n.type = "text" /\ Last(list).type = "text"
    THEN Append(Front(list), [Last(list) EXCEPT !.literal = @ \o n.literal, !.to = n.to,
                                                !.end_column = n.end_column])
    ELSE Append(list, n), <<>>, ns)
\* postprocess follows the events of the iterator: the end of any link is taken
\* for the end of the one it is in.
InLink(ns, k) ==
  FoldLeft(LAMBDA in, n : n.type = "link" \/ (in /\ n.type \notin {"close link", "autolink"}),
           FALSE, SubSeq(ns, 1, k))

\* postprocess_text: the text, cut before and after each address.
Pieces(text) ==
  LET emails == Emails(text.literal, 0)
      Piece(from, to) ==
        [Simple("text", text.at, text.to) EXCEPT !.literal = SubSeq(text.literal, from, to)]
      Until(k) == IF k > Len(emails) THEN Len(text.literal) ELSE emails[k].from - 1
      Link(e) == [Piece(e.from, e.to) EXCEPT !.type = IF e.mailto THEN "mailto" ELSE "autolink"]
  IN  FoldLeft(LAMBDA list, k : list \o <<Link(emails[k]), Piece(emails[k].to + 1, Until(k + 1))>>,
               <<Piece(1, Until(1))>>, [k \in DOMAIN emails |-> k])

-----------------------------------------------------------------------------
\* parse_inline returns when there is no character, cmark_parse_inlines then.
End ==
  /\ subject.pos >= Size
  /\ phase = "inlines"
  /\ phase' = "done"
  /\ LET joined == Joined(nodes)
     IN  nodes' = IF "AUTOLINK" \notin options THEN joined
                  ELSE FlattenSeq([k \in DOMAIN joined |->
                         IF joined[k].type = "text" /\ ~InLink(joined, k)
                         THEN Pieces(joined[k]) ELSE <<joined[k]>>])
  /\ subject' = [subject EXCEPT !.brackets = <<>>]
  /\ UNCHANGED <<input, options>>

ParseInline ==
  \/ HandleInlineCodeInfo \/ HandleNewline \/ HandleCode \/ HandleBackticks
  \/ HandleBackslash \/ HandleEntity \/ HandleAutolink \/ HandlePointyBrace
  \/ HandleDelim \/ HandleHyphen \/ HandlePeriod \/ OpenBracket \/ Bang
  \/ CloseLiteral \/ CloseInactive \/ CloseLink \/ CloseFootnote \/ CloseNoMatch
  \/ HandleWww \/ HandleUrl \/ HandleText

\* Where nothing is left to do.
Done == phase = "done" /\ UNCHANGED vars

Next == ParseInline \/ End \/ Done

Spec == Init /\ [][Next]_vars
-----------------------------------------------------------------------------
(***************************************************************************)
(* Properties.                                                             *)
(***************************************************************************)
TypeOK ==
  /\ phase \in {"inlines", "done"} /\ subject.pos \in 0 .. Size
  /\ subject.backticks \in [1 .. MAXBACKTICKS -> 0 .. Size]
  /\ subject.flags \subseteq {"COMMENT", "CDATA", "DECLARATION", "PI"}
  /\ \A b \in ToSet(subject.brackets) : b.position \in 1 .. subject.pos /\ b.node \in DOMAIN nodes
  /\ \A n \in ToSet(nodes) : n.at \in 0 .. Size /\ n.to \in -1 .. Size - 1

\* The text in the brackets of a footnote reference is its label (the comment at
\* inlines.c:1332), if it is on one line and the "^" is not escaped.
Label(n) == Chunk(n.at + 2, n.to - n.at - 2)
LabelKept(n) ==
  n.type = "footnote_reference" /\ At(n.at + 1) = "^" /\ "\n" \notin ToSet(Label(n)) =>
    n.literal = Label(n)

\* Every character before the subject is in exactly one node, in order: no
\* handler that looks ahead and backs up, takes characters back from a text or
\* replaces what is in a bracket loses or repeats any.
SourceKept ==
  phase = "inlines" =>
    /\ \A n \in ToSet(nodes) : LabelKept(n)
    /\ \A k \in DOMAIN nodes : nodes[k].at = IF k = 1 THEN 0 ELSE nodes[k - 1].to + 1
    /\ subject.pos = IF nodes = <<>> THEN 0 ELSE Last(nodes).to + 1

\* The line and the column of position p of the input.
Newlines(p) == {i \in 0 .. p - 1 : At(i) = "\n"}
LineOf(p) == Cardinality(Newlines(p)) + 1
ColumnOf(p) == p - Max(Newlines(p) \cup {-1}) + BlockOffset

\* A newline is counted where it is a node of its own or in a code span or raw
\* HTML; one in a destination, in a label or after a backslash is not.
Counted(i) ==
  \E n \in ToSet(nodes) :
    i \in n.at .. n.to /\ (n.at = i \/ n.type \in {"code", "html_inline"})
LiteralTicks(n) == n.type = "text" /\ At(n.at) = "BACKTICK" /\ n.to >= n.at
ClosingTicks(n) == CHOOSE j \in TickStrings(n.at) : j + TickLength(j) = n.to + 1

\* Texts and raw HTML begin, and the content of code spans ends, where their
\* source positions say, as long as every newline before was counted.  The
\* texts of unmatched backticks are left out: their column is that after them.
\* The column a code span over several lines ends at leaves out its block's.
Multiline(n) == \E i \in n.at .. n.to : At(i) = "\n"
PositionsRight ==
  phase = "inlines" /\ "SOURCEPOS" \in options =>
    \A n \in ToSet(nodes) :
      /\ n.type \in {"text", "html_inline"} /\ ~LiteralTicks(n)
           /\ (\A i \in Newlines(n.at) : Counted(i))
         => n.start_line = LineOf(n.at) /\ n.start_column = ColumnOf(n.at)
      /\ n.type = "code" /\ (\A i \in Newlines(n.to) : Counted(i))
         => LET close == ClosingTicks(n)
            IN  /\ n.end_line = LineOf(close)
                /\ At(close - 1) # "\n" =>
                     n.end_column = ColumnOf(close - 1) - (IF Multiline(n) THEN BlockOffset ELSE 0)

\* The content of a code span with the line endings and one space at each end
\* taken away, if it is not all spaces.
CodeContent(s) ==
  LET t == [i \in DOMAIN s |-> IF s[i] \in LineEnd THEN " " ELSE s[i]]
  IN  {IF Len(t) > 1 /\ t[1] = " " /\ Last(t) = " " /\ ToSet(t) # {" "} THEN Tail(Front(t)) ELSE t}

\* A code span is closed by the first backtick string as long as its opener.
CodeSpansClose ==
  \A n \in ToSet(nodes) : n.type = "code" =>
    LET close == ClosingTicks(n)
        m == TickLength(close)
        Opens(j) == /\ j < close /\ TickLength(j) = m
                    /\ \A i \in TickStrings(n.at) : j < i /\ i < close => TickLength(i) # m
                    /\ n.literal \in CodeContent(Chunk(j + m, close - j - m))
    IN  \E j \in TickStrings(n.at) : Opens(j)

\* Backticks that are left as text have no closer (spec.txt:6133).
Unclosed(k) ==
  \A j \in TickStrings(nodes[k].to + 1) : TickLength(j) # TickLength(nodes[k].at)
\* Code spans are those of the specification, but for the backticks that come
\* after a search to the end and a later code span in which as many were seen:
\* there the remembered position is no longer the last.
CodeSpansAsSpecified ==
  phase = "inlines" =>
    /\ CodeSpansClose
    /\ \A k \in DOMAIN nodes :
         LiteralTicks(nodes[k]) /\ TickLength(nodes[k].at) <= MAXBACKTICKS =>
           \/ Unclosed(k)
           \/ \E i, j \in 1 .. k - 1 :
                /\ i < j /\ LiteralTicks(nodes[i]) /\ nodes[j].type = "code"
                /\ \E q \in TickStrings(nodes[j].at + 1) :
                     q <= nodes[j].to /\ TickLength(q) = TickLength(nodes[k].at)

\* A construct of raw HTML begins with "<" at i: where what is in it begins,
\* counted from 0, and what closes it (spec.txt:9409 to 9426).
Begun(kind, i) ==
  LET Open(w) == Word(input, {i + 1}, w)
      declaration == Plus(input, Plus(input, Open(<<"<", "!">>), Upper), Space)
      ends == CASE kind = "COMMENT" -> Open(<<"<", "!", "-", "-">>)
                [] kind = "PI" -> Open(<<"<", "?">>)
                [] kind = "CDATA" -> Open(<<"<", "!", "[", "CDATA", "[">>)
                [] kind = "DECLARATION" -> declaration
  IN  {q - 1 : q \in ends}
CloserOf ==
  [COMMENT |-> <<"-", "-", ">">>, PI |-> <<"?", ">">>, CDATA |-> <<"]", "]", ">">>,
   DECLARATION |-> <<">">>]
Closers(kind, from) ==
  {j \in from .. Size - Len(CloserOf[kind]) : Chunk(j, Len(CloserOf[kind])) = CloserOf[kind]}
Clear(kind, from, j) == kind = "DECLARATION" \/ j = from \/ At(j - 1) # CloserOf[kind][1]
LiteralPointy(n) == n.type = "text" /\ n.at = n.to /\ At(n.at) = "<"

\* After a comment without an end, no more comments, CDATA sections or
\* declarations; after another construct without an end, no more of its kind.
Skipped(k, kind) ==
  \E m \in 1 .. k - 1, off \in IF kind = "PI" THEN {kind} ELSE {kind, "COMMENT"} :
    LiteralPointy(nodes[m]) /\ Begun(off, nodes[m].at) # {}

\* Raw HTML ends at the first closer of its kind, and a "<" with a closer is no
\* text: the searches that are switched off would not have found one.  A closer
\* right after another of its first character may be overlooked.
HtmlAsSpecified ==
  phase = "inlines" /\ "LIBERAL_HTML_TAG" \notin options =>
    \A k \in DOMAIN nodes, kind \in DOMAIN CloserOf : \A from \in Begun(kind, nodes[k].at) :
      LET n == nodes[k]
          closer == n.to + 1 - Len(CloserOf[kind])
          empty == /\ kind = "COMMENT"
                   /\ At(from) = ">" \/ (At(from) = "-" /\ At(from + 1) = ">")
      IN  /\ n.type = "html_inline" /\ ~empty =>
               /\ closer \in Closers(kind, from)
               /\ \A j \in Closers(kind, from) : j < closer => ~Clear(kind, from, j)
          /\ LiteralPointy(n) /\ ~Skipped(k, kind) =>
               ~empty /\ \A j \in Closers(kind, from) : ~Clear(kind, from, j)

\* The ends of what the specification allows after a link text, from i on: a
\* destination and a title in parentheses (spec.txt, "Links").  Escaped says
\* whether position j comes after a backslash that is not itself escaped.
Escaped(j) ==
  (j - 1 - Max({-1} \cup {p \in 0 .. j - 1 : At(p) # "\\"})) % 2 = 1
NoneOf(C, from, to) == \A j \in from .. to : At(j) \in C => Escaped(j)
Count(c, from, to) == Cardinality({j \in from .. to : At(j) = c /\ ~Escaped(j)})
Spaced(from) == {q \in from .. Size : \A j \in from .. q - 1 : At(j) \in Space}
Destinations(from) ==
  IF At(from) = "<"
  THEN {q + 1 : q \in {p \in from + 1 .. Size - 1 :
          At(p) = ">" /\ ~Escaped(p) /\ NoneOf({"<", ">", "\n"}, from + 1, p - 1)}}
  ELSE {q \in from .. Size :
          /\ \A j \in from .. q - 1 : At(j) \notin Space
          /\ \A j \in from .. q - 1 : Count("(", from, j) >= Count(")", from, j)
          /\ \A j \in from .. q - 1 : Count("(", from, j) - Count(")", from, j) <= MaxParentheses
          /\ Count("(", from, q - 1) = Count(")", from, q - 1) \/ (q > from /\ At(q) \in Space)}
TitleClosers == [d \in {"\"", "'", "("} |-> IF d = "(" THEN ")" ELSE d]
Titles(from) ==
  IF At(from) \notin DOMAIN TitleClosers THEN {}
  ELSE {q + 1 : q \in {p \in from + 1 .. Size - 1 :
          /\ At(p) = TitleClosers[At(from)] /\ ~Escaped(p)
          /\ NoneOf({At(from), TitleClosers[At(from)]}, from + 1, p - 1)}}
Tails(i) ==
  {q + 1 : q \in {p \in i + 1 .. Size - 1 :
     /\ At(i) = "(" /\ At(p) = ")"
     /\ \E start \in Spaced(i + 1) : \E endurl \in Destinations(start) :
        /\ At(start) \notin Space
        /\ \/ p \in Spaced(endurl)
           \/ \E title \in Spaced(endurl) \ {endurl} :
                \E endtitle \in Titles(title) : p \in Spaced(endtitle)}}

\* The scanner of titles may take a backslash for an ordinary character.
BackslashInTitle ==
  \E j \in subject.pos .. Size - 1 : At(j) = "\\" /\ At(j + 1) \in {"\"", "'", ")"}

\* The destination and title after a closing bracket are what the specification
\* says, wherever the hand-written scan that looks ahead for them stops; but a
\* destination before a space may have parentheses that are never closed.
LinksAsSpecified ==
  Closing /\ ~Inactive /\ ~BackslashInTitle =>
    Tails(subject.pos + 1) = {InlineTail(subject.pos + 1)} \ {NoMatch}

\* An autolink without brackets is the longest beginning of the characters up to
\* a space or "<" that ends neither in punctuation nor in a parenthesis with no
\* partner.
Run(n) == Chunk(n.at, Past(n.at, Char \ (Space \cup {"<"})) - n.at)
PathEnd(run, k) ==
  /\ run[k] \notin Trailing
  /\ run[k] = ")" =>
       Cardinality({j \in 1 .. k : run[j] = ")"}) <= Cardinality({j \in 1 .. k : run[j] = "("})
UrlRight(n) ==
  n.type = "autolink" /\ At(n.at) # "<" /\ ";" \notin ToSet(Run(n)) =>
    n.to + 1 - n.at = Max({k \in DOMAIN Run(n) : PathEnd(Run(n), k)})

\* The addresses found in a text are ordered and each is an address; one that
\* stands alone between other characters is found.  ("x@c.d@e" is not alone.)
Address(t, from, to) ==
  \E at \in from + 1 .. to - 1 :
    /\ t[at] = "@" /\ \A p \in from .. at - 1 : t[p] \in LocalChar
    /\ \A p \in at + 1 .. to : t[p] \in Alnum \cup {"-", "_", "."}
    /\ \E p \in at + 1 .. to : t[p] = "."
    /\ \A p \in at + 1 .. to : t[p] = "." => t[p + 1] \in Alnum
    /\ t[to] \in Letter
Alone(t, from, to) ==
  /\ from > 1 => t[from - 1] \notin LocalChar \cup {":", "/", "@"}
  /\ to < Len(t) => t[to + 1] \notin Alnum \cup {"-", "_", ".", "@", "/"}
EmailsRight(t, emails) ==
  /\ \A k \in DOMAIN emails :
       /\ emails[k].from > (IF k = 1 THEN 0 ELSE emails[k - 1].to)
       /\ emails[k].to <= Len(t)
       /\ Cardinality({p \in DOMAIN t : t[p] = "@"}) = 1 /\ emails[k].mailto =>
            Address(t, emails[k].from, emails[k].to)
  /\ \A from, to \in DOMAIN t :
       Address(t, from, to) /\ Alone(t, from, to) =>
         \E k \in DOMAIN emails : emails[k].from = from /\ emails[k].to = to

\* Autolinks are those of the specification (spec.txt, "Autolinks (extension)"):
\* the addresses that inline parsing finds, and the emails found when it is done,
\* in texts that it has split and consolidation has joined.
AutolinksAsSpecified ==
  phase = "inlines" =>
    /\ \A n \in ToSet(nodes) : UrlRight(n)
    /\ subject.pos >= Size /\ "AUTOLINK" \in options =>
         \A n \in ToSet(Joined(nodes)) :
           n.type = "text" => EmailsRight(n.literal, Emails(n.literal, 0))
=============================================================================
