------------------------------- MODULE LineFeed ------------------------------
(****************************************************************************)
(* How text becomes lines (S_parser_feed, the first part of S_process_line, *)
(* cmark_parser_finish in blocks.c) and how the first lines may become      *)
(* front matter (front_matter.c).                                           *)
(*                                                                          *)
(* The program cuts the text where it likes and feeds the pieces.  One turn *)
(* of the loop in S_parser_feed is one step.  Lines end with "CR" or "LF";  *)
(* "NUL", "BOM" and "REPL" (the replacement character) stand for the bytes  *)
(* of their names.                                                          *)
(****************************************************************************)
EXTENDS Integers, Sequences, FiniteSets

CONSTANTS Texts,       \* what is parsed
          LaterTexts,  \* what is parsed with a parser that was used before
          UINT_MAX,    \* the limit of parser->total_size
          Parses,      \* how many texts one parser is used for
          NONE

\* The node of the front matter: its info string, its lines and where it ends.
FrontMatter == [info : Seq(STRING), literal : Seq(Seq(STRING)), end_line : Nat]

ASSUME LineFeedAssumption ==
  /\ UINT_MAX \in Nat /\ Parses \in Nat
  /\ Texts \subseteq Seq(STRING) /\ LaterTexts \subseteq Texts
  /\ NONE \notin FrontMatter
  /\ "REPL" \in STRING    \* which the provers are not told

VARIABLES
  text,                        \* the text of this parse
  parses,                      \* how many texts were finished
  front_matter_option,         \* CMARK_OPT_FRONT_MATTER
  buffer,                      \* the next character of the buffer, in text
  end,                         \* the last character of the buffer
  eof,                         \* S_parser_feed's parameter
  total_size,                  \* parser->total_size
  linebuf,                     \* parser->linebuf: a line begun
  last_buffer_ended_with_cr,
  finishing,                   \* cmark_parser_finish was called
  lines,                       \* the lines S_process_line was called for
  body,                        \* the numbers of those passed on to the blocks
  front_matter_scanning,
  front_matter_info,
  front_matter_buf,            \* the lines gathered
  front                        \* the front matter node, or NONE

feedVars == <<buffer, end, eof, total_size, linebuf, last_buffer_ended_with_cr>>
frontVars == <<front_matter_scanning, front_matter_info, front_matter_buf, front>>
callVars == <<text, parses, front_matter_option, finishing>>
vars == <<callVars, feedVars, lines, body, frontVars>>

line_number == Len(lines)

-----------------------------------------------------------------------------
(* front_matter.c *)

Dashes(l) == Len(l) >= 3 /\ \A i \in 1..3 : l[i] = "-"

is_opening_delimiter(l) == Dashes(l) /\ ~(Len(l) > 3 /\ l[4] = "-")

\* Mutant: the closing delimiter may have an info string too.
ClosingWithInfo(l) == Dashes(l) /\ ~(Len(l) > 3 /\ l[4] = "-")

is_closing_delimiter(l) == Dashes(l) /\ \A i \in 4..Len(l) : l[i] = " "

parse_info(l) ==
  LET word == {i \in 4..Len(l) : l[i] # " "}
      first == CHOOSE i \in word : \A j \in word : i <= j
      last == CHOOSE i \in word : \A j \in word : j <= i
  IN  IF word = {} THEN <<>> ELSE SubSeq(l, first, last)

\* The node has the lines gathered so far and ends on line n.
create_front_matter_node(n) ==
  /\ front' = [info |-> front_matter_info, literal |-> front_matter_buf, end_line |-> n]
  /\ front_matter_scanning' = FALSE
  /\ front_matter_buf' = <<>>
  /\ front_matter_info' = <<>>

OpenFrontMatter(l) ==
  /\ front_matter_scanning' = TRUE
  /\ front_matter_info' = parse_info(l)
  /\ UNCHANGED <<front_matter_buf, front, body>>

GatherFrontMatter(l) ==
  /\ front_matter_buf' = Append(front_matter_buf, l)
  /\ UNCHANGED <<front_matter_scanning, front_matter_info, front, body>>

\* cmark_front_matter_process_line returns false: the blocks get the line.
ToBlocks(n) ==
  /\ body' = Append(body, n)
  /\ UNCHANGED frontVars

\* cmark_front_matter_process_line for line n with text l.
FrontMatterLine(l, n) ==
  \/ /\ front_matter_option /\ n = 1 /\ is_opening_delimiter(l)
     /\ OpenFrontMatter(l)
  \/ /\ front_matter_option /\ n > 1 /\ front_matter_scanning
     /\ \/ is_closing_delimiter(l) /\ create_front_matter_node(n) /\ UNCHANGED body
        \/ ~is_closing_delimiter(l) /\ GatherFrontMatter(l)
  \/ /\ ~front_matter_option \/ IF n = 1 THEN ~is_opening_delimiter(l)
                                         ELSE ~front_matter_scanning
     /\ ToBlocks(n)

\* S_process_line up to the blocks: a byte order mark is skipped on line 1.
SkipBom(l) == IF line_number = 0 /\ l # <<>> /\ l[1] = "BOM" THEN Tail(l) ELSE l

ProcessLine(l) ==
  /\ lines' = Append(lines, SkipBom(l))
  /\ FrontMatterLine(SkipBom(l), line_number + 1)

-----------------------------------------------------------------------------
(* S_parser_feed *)

LineEnd(c) == c \in {"CR", "LF"}

\* Where the chunk that begins at buffer stops: a line end, a NUL, or past the
\* end of the buffer.
eol ==
  LET stops == {i \in buffer..end : LineEnd(text[i]) \/ text[i] = "NUL"}
  IN  IF stops = {} THEN end + 1 ELSE CHOOSE i \in stops : \A j \in stops : i <= j

Chunk == SubSeq(text, buffer, eol - 1)

\* Mutant: the parser forgets that its buffer ended with CR.
CrForgotten ==
  LET next == IF eol <= end /\ text[eol] = "CR" THEN eol + 1 ELSE eol
  IN  /\ last_buffer_ended_with_cr' = FALSE
      /\ buffer' = IF next <= end /\ text[next] = "LF" THEN next + 1 ELSE next

\* Past the line end: CR, LF or CR LF; a CR at the very end is remembered.
SkipLineEnd ==
  LET cr == eol <= end /\ text[eol] = "CR"
      next == IF cr THEN eol + 1 ELSE eol
  IN  /\ last_buffer_ended_with_cr' = (cr /\ next = end + 1)
      /\ buffer' = IF next <= end /\ text[next] = "LF" THEN next + 1 ELSE next

Fed == buffer > end

\* The program hands over k more characters.  A LF that completes the CR LF of
\* the last buffer is skipped.
Feed(k, last) ==
  /\ Fed /\ ~finishing
  /\ end + k <= Len(text)
  /\ last => end + k = Len(text)
  /\ total_size' = IF k > UINT_MAX - total_size THEN UINT_MAX ELSE total_size + k
  /\ end' = end + k
  /\ eof' = last
  /\ buffer' = IF last_buffer_ended_with_cr /\ text[buffer] = "LF" THEN buffer + 1 ELSE buffer
  /\ last_buffer_ended_with_cr' = FALSE
  /\ UNCHANGED <<callVars, linebuf, lines, body, frontVars>>

\* A chunk that ends its line.
FeedLine ==
  /\ ~Fed
  /\ IF eol > end THEN eof ELSE LineEnd(text[eol])
  /\ ProcessLine(linebuf \o Chunk)
  /\ linebuf' = <<>>
  /\ SkipLineEnd
  /\ UNCHANGED <<callVars, end, eof, total_size>>

\* Mutant: the NUL is not skipped.
NulNotSkipped ==
  /\ ~Fed
  /\ eol <= end /\ text[eol] = "NUL"
  /\ linebuf' = Chunk \o <<"REPL">>
  /\ buffer' = eol
  /\ UNCHANGED <<callVars, end, eof, total_size, last_buffer_ended_with_cr, lines, body, frontVars>>

\* A chunk before a NUL, for which a replacement character is added.
FeedNul ==
  /\ ~Fed
  /\ eol <= end /\ text[eol] = "NUL"
  /\ linebuf' = linebuf \o Chunk \o <<"REPL">>
  /\ buffer' = eol + 1
  /\ UNCHANGED <<callVars, end, eof, total_size, last_buffer_ended_with_cr, lines, body, frontVars>>

\* The rest of a buffer whose line goes on in the next.
FeedRest ==
  /\ ~Fed
  /\ eol > end /\ ~eof
  /\ linebuf' = linebuf \o Chunk
  /\ buffer' = eol
  /\ UNCHANGED <<callVars, end, eof, total_size, last_buffer_ended_with_cr, lines, body, frontVars>>

-----------------------------------------------------------------------------
(* cmark_parser_finish *)

Finish ==
  /\ Fed /\ end = Len(text) /\ ~finishing
  /\ finishing' = TRUE
  /\ UNCHANGED <<text, parses, front_matter_option, feedVars, lines, body, frontVars>>

FinishLine ==
  /\ finishing /\ linebuf # <<>>
  /\ ProcessLine(linebuf)
  /\ linebuf' = <<>>
  /\ UNCHANGED <<callVars, buffer, end, eof, total_size, last_buffer_ended_with_cr>>

\* Front matter that was not closed: all of the document.
FinishFrontMatter ==
  /\ finishing /\ linebuf = <<>>
  /\ front_matter_option /\ front_matter_scanning
  /\ create_front_matter_node(line_number)
  /\ UNCHANGED <<callVars, feedVars, lines, body>>

Finished ==
  /\ finishing /\ linebuf = <<>>
  /\ ~(front_matter_option /\ front_matter_scanning)

\* cmark_parser_reset, at the end of cmark_parser_finish: the options stay.
Reset ==
  /\ Finished /\ parses < Parses
  /\ parses' = parses + 1
  /\ text' \in LaterTexts
  /\ finishing' = FALSE
  /\ buffer' = 1 /\ end' = 0 /\ eof' = FALSE /\ total_size' = 0
  /\ linebuf' = <<>> /\ last_buffer_ended_with_cr' = FALSE
  /\ lines' = <<>> /\ body' = <<>>
  /\ front_matter_scanning' = FALSE /\ front_matter_info' = <<>>
  /\ front_matter_buf' = <<>> /\ front' = NONE
  /\ UNCHANGED front_matter_option

-----------------------------------------------------------------------------
Init ==
  /\ text \in Texts
  /\ parses = 0
  /\ front_matter_option \in BOOLEAN
  /\ finishing = FALSE
  /\ buffer = 1 /\ end = 0 /\ eof = FALSE /\ total_size = 0
  /\ linebuf = <<>> /\ last_buffer_ended_with_cr = FALSE
  /\ lines = <<>> /\ body = <<>>
  /\ front_matter_scanning = FALSE /\ front_matter_info = <<>>
  /\ front_matter_buf = <<>> /\ front = NONE

\* An empty buffer is not fed: no caller in the repository does.
FeedSome == \E k \in 1..(Len(text) - end), last \in BOOLEAN : Feed(k, last)

Next ==
  \/ FeedSome \/ FeedLine \/ FeedNul \/ FeedRest
  \/ Finish \/ FinishLine \/ FinishFrontMatter \/ Reset

\* The calls run on; whether the program makes another is up to it.
Fairness == WF_vars(FeedLine \/ FeedNul \/ FeedRest \/ FinishLine \/ FinishFrontMatter)

Spec == Init /\ [][Next]_vars /\ Fairness

-----------------------------------------------------------------------------
TypeOK ==
  /\ text \in Texts
  /\ parses \in 0..Parses
  /\ front_matter_option \in BOOLEAN /\ finishing \in BOOLEAN
  /\ end \in 0..Len(text) /\ buffer \in 1..(end + 1)
  /\ eof \in BOOLEAN /\ last_buffer_ended_with_cr \in BOOLEAN
  /\ total_size \in 0..UINT_MAX
  /\ linebuf \in Seq(STRING)
  /\ \A i \in DOMAIN linebuf : linebuf[i] \notin {"CR", "LF", "NUL"}
  /\ lines \in Seq(Seq(STRING)) /\ body \in Seq(Nat)
  /\ front_matter_scanning \in BOOLEAN
  /\ front_matter_info \in Seq(STRING) /\ front_matter_buf \in Seq(Seq(STRING))
  /\ front \in FrontMatter \cup {NONE}

\* The lines the blocks get do not depend on where the program cuts the text:
\* also in the middle of a CR LF, before or after a NUL, or inside the first
\* line; and a parser that is used again begins afresh (S_parser_feed,
\* cmark_parser_reset).
Promise == INSTANCE LineSplit WITH fed <- end, ended <- eof \/ finishing
ImplementsSplit == Promise!Spec

\* Front matter begins on the first line, with exactly three dashes, and goes
\* to the first line that has nothing else (or to the end), whatever is in
\* between; the other lines, and no others, go to the blocks, with the numbers
\* they have in the text (guides/extensions, Front Matter).
FrontMatterDivided ==
  LET Delimiter(k) == Len(lines[k]) >= 3 /\ SubSeq(lines[k], 1, 3) = <<"-", "-", "-">>
      opens == /\ front_matter_option /\ lines # <<>> /\ Delimiter(1)
               /\ Len(lines[1]) = 3 \/ lines[1][4] # "-"
      closing == {k \in 2..Len(lines) :
                    Delimiter(k) /\ {lines[k][i] : i \in 4..Len(lines[k])} \subseteq {" "}}
      close == CHOOSE k \in closing : \A j \in closing : k <= j
      last == IF closing = {} THEN Len(lines) ELSE close
      bodyFrom == IF opens THEN last + 1 ELSE 1
  IN  Finished =>
        /\ body = [i \in 1..(Len(lines) - bodyFrom + 1) |-> bodyFrom + i - 1]
        /\ IF opens
           THEN /\ front # NONE /\ front.end_line = last
                /\ front.literal =
                     SubSeq(lines, 2, IF closing = {} THEN last ELSE last - 1)
           ELSE front = NONE

\* Every call returns: each turn of the loop in S_parser_feed uses up part of
\* the buffer, and cmark_parser_finish gets to the end of the text.
Returns ==
  /\ ~Fed ~> Fed
  /\ finishing ~> Finished
=============================================================================
