------------------------------ MODULE References ------------------------------
(***************************************************************************)
(* The map of the link references (map.c, references.c): definitions are   *)
(* put in front of a list, the first look-up sorts them and keeps one for  *)
(* each label, and what the look-ups return in all is limited.             *)
(***************************************************************************)
EXTENDS Scanners

CONSTANT MaxLabel    \* the length of the longest label

ASSUME LabelAssumption == MaxLabel \in Nat

\* The text without the space at its end, and at both ends.
Rtrim(s) == SubSeq(s, 1, Max({0} \cup {i \in 1 .. Len(s) : s[i] \notin Space}))
Trim(s) == Reverse(Rtrim(Reverse(Rtrim(s))))

\* Labels are compared in one case, with their spaces collapsed.
normalize_map_label(label) ==
  LET Fold(c) == IF c \in Space THEN " " ELSE IF c = "A" THEN "a" ELSE c
      Keep(s, c) == IF Fold(c) = " " /\ (s = <<>> \/ Last(s) = " ") THEN s ELSE Append(s, Fold(c))
  IN  Rtrim(FoldLeft(Keep, <<>>, label))

\* Labels in the order of their bytes, where characters that are not listed
\* come after the others; a label that another begins with is before it.
Bytes == <<" ", "!", "\"", "#", "&", "'", "(", ")", "*", "+", "-", ".", "/", "0", "1", ":", ";",
           "<", "=", ">", "?", "@", "A", "[", "\\", "]", "^", "_", "BACKTICK", "a", "g", "w", "x",
           "|", "~", "UTF8">>
Byte(c) == IF c \in ToSet(Bytes) THEN CHOOSE i \in DOMAIN Bytes : Bytes[i] = c ELSE Len(Bytes) + 1
LabelLess(a, b) ==
  \E i \in 1 .. Len(b) :
    /\ \A j \in 1 .. i - 1 : j <= Len(a) /\ a[j] = b[j]
    /\ i > Len(a) \/ Byte(a[i]) < Byte(b[i])
refcmp(r1, r2) == LabelLess(r1.label, r2.label) \/ (r1.label = r2.label /\ r1.age < r2.age)

-----------------------------------------------------------------------------
\* A map: the newest entry first, how many there are, the entries that the
\* look-ups see once there was one, and how much they have returned.
cmark_map_new(max) ==
  [refs |-> <<>>, size |-> 0, is_sorted |-> FALSE, sorted |-> <<>>, ref_size |-> 0,
   max_ref_size |-> max]

cmark_reference_create(map, label, url, title) ==
  LET entry == [label |-> normalize_map_label(label), url |-> url, title |-> title,
                age |-> map.size, size |-> Len(url) + Len(title)]
  IN  IF entry.label = <<>> THEN map
      ELSE [map EXCEPT !.refs = <<entry>> \o @, !.size = @ + 1]

\* Mutant: the last entry of a label is kept.
KeepLast(entries) ==
  FoldLeft(LAMBDA kept, e :
    IF kept # <<>> /\ Last(kept).label = e.label THEN Append(Front(kept), e) ELSE Append(kept, e),
    <<>>, SortSeq(entries, refcmp))

\* The entries in order, the first of each label.
FirstOfEach(entries) ==
  FoldLeft(LAMBDA kept, e :
    IF kept # <<>> /\ Last(kept).label = e.label THEN kept ELSE Append(kept, e),
    <<>>, SortSeq(entries, refcmp))

sort_map(map) ==
  IF map.is_sorted THEN map
  ELSE LET sorted == FirstOfEach(map.refs)
       IN  [map EXCEPT !.is_sorted = TRUE, !.sorted = sorted, !.size = Len(sorted)]

\* The map after a look-up, and what that returns: none or one entry.
cmark_map_lookup(map, label) ==
  LET norm == normalize_map_label(label)
      m == sort_map(map)
      hits == SelectSeq(m.sorted, LAMBDA e : e.label = norm)
  IN  IF Len(label) \notin 1 .. MaxLabel \/ map.size = 0 \/ norm = <<>>
      THEN [map |-> map, entry |-> <<>>]
      ELSE IF hits = <<>> \/ hits[1].size > m.max_ref_size - m.ref_size
      THEN [map |-> m, entry |-> <<>>]
      ELSE [map |-> [m EXCEPT !.ref_size = @ + hits[1].size], entry |-> hits]
=============================================================================
