------------------------------ MODULE Footnotes ------------------------------
(***************************************************************************)
(* process_footnotes (blocks.c) with its map (footnotes.c, map.c): the     *)
(* step of cmark_parser_finish that pairs footnote references with their   *)
(* definitions.  It iterates over the document and edits it on the way:    *)
(* an undefined reference becomes a text again, the used definitions move  *)
(* to the end of the document, the others are freed.  Then comes           *)
(* cmark_consolidate_text_nodes (iterator.c), which does the like.         *)
(*                                                                         *)
(* The document is any that the block and inline phases can leave, built   *)
(* in document order.  Definitions may stand inside of each other.         *)
(***************************************************************************)
EXTENDS Iterator, Integers, SequencesExt

CONSTANTS
  Label,       \* normalized labels, as numbers in the order of strcmp
  LongLabel,   \* those longer than MAX_LINK_LABEL_LENGTH
  Shapes,      \* what is added to the document: a branch, as its node types
  MaxSize      \* bound on the nodes of the document

ASSUME AddressAssumption == Node \subseteq Nat \ {0} /\ 1 \in Node
ASSUME LabelAssumption == Label \subseteq Nat \ {0} /\ LongLabel \subseteq Label
ASSUME ShapesAssumption ==
  \A shape \in Shapes :
    /\ shape # <<>> /\ shape \in Seq(NodeTypes \ {"none"})
    /\ \A i \in 1 .. Len(shape) - 1 : CanContainType(shape[i], shape[i + 1])
\* There is always an address for calloc to return.
ASSUME SizeAssumption ==
  IsFiniteSet(Node) /\ MaxSize \in Nat \ {0} /\ MaxSize < Cardinality(Node)

VARIABLES
  heap,     \* the nodes and their links
  as,       \* the fields of struct cmark_node the footnotes and renderers use
  phase,    \* where cmark_parser_finish is
  iter,     \* its iterator
  refs,     \* map->refs, oldest first: label, node and ix of each entry
  sorted,   \* the entries in map->sorted, as indices of refs; {} while it is NULL
  ix,       \* the last number given
  todo,     \* entries the loop at the end has yet to handle
  tmp       \* the text that the loop joining texts frees next, or NULL

vars == <<heap, as, phase, iter, refs, sorted, ix, todo, tmp>>

root == 1

Init ==
  /\ heap = [type        |-> [n \in Node |-> IF n = root THEN "document" ELSE "none"],
             next        |-> [n \in Node |-> NULL],
             prev        |-> [n \in Node |-> NULL],
             parent      |-> [n \in Node |-> NULL],
             first_child |-> [n \in Node |-> NULL],
             last_child  |-> [n \in Node |-> NULL]]
  /\ as = [label               |-> [n \in Node |-> 0],
           number              |-> [n \in Node |-> 0],
           parent_footnote_def |-> [n \in Node |-> NULL],
           ref_ix              |-> [n \in Node |-> 0],
           def_count           |-> [n \in Node |-> 0],
           tight               |-> [n \in Node |-> FALSE],
           is_header           |-> [n \in Node |-> FALSE]]
  /\ phase = "build"
  /\ iter = IterNew(root)
  /\ refs = <<>>
  /\ sorted = {}
  /\ ix = 0
  /\ todo = <<>>
  /\ tmp = NULL

live == Live(heap)

\* calloc returns the lowest free address, also one that was just freed.
FreeAddress(h) == CHOOSE n \in Node \ Live(h) : \A m \in Node \ Live(h) : n <= m

-----------------------------------------------------------------------------
(***************************************************************************)
(* The document.                                                           *)
(***************************************************************************)

\* The nodes that the parser may still add to: the last of each list.
LastPath ==
  LET Path[n \in Pointer] == IF n = NULL THEN {} ELSE {n} \cup Path[heap.last_child[n]]
  IN  live \cap Path[root]

\* A branch of new nodes with these types, hanging below p.
Grown(p, shape) ==
  LET Grow[k \in 0 .. Len(shape)] ==
        IF k = 0 THEN [h |-> heap, at |-> p]
        ELSE LET s == Grow[k - 1]
                 n == FreeAddress(s.h)
             IN  [h |-> AppendChild(Fresh(s.h, n, shape[k]), s.at, n), at |-> n]
  IN  Grow[Len(shape)].h

Labelled == {"footnote_definition", "footnote_reference"}

\* A branch is added below p.  Its definition or reference has the label l,
\* its list is tight or not, the first row of its table is the header.
Add(p, shape, l, t) ==
  LET new == Live(heap') \ live
  IN  /\ phase = "build"
      /\ Cardinality(live) + Len(shape) <= MaxSize
      /\ CanContainType(heap.type[p], Head(shape))
      /\ Head(shape) = "table_row" => heap.type[p] = "table"
      /\ heap' = Grown(p, shape)
      /\ as' = [as EXCEPT
           !.label = [n \in Node |->
             IF n \in new /\ heap'.type[n] \in Labelled THEN l ELSE @[n]],
           !.tight = [n \in Node |-> IF n \in new THEN t ELSE @[n]],
           !.is_header = [n \in Node |->
             IF n \in new THEN Head(shape) = "table" ELSE @[n]]]
      /\ UNCHANGED <<phase, iter, refs, sorted, ix, todo, tmp>>

\* Only definitions and references have labels, only lists are tight.
LabelsOf(shape) == IF ToSet(shape) \cap Labelled # {} THEN Label ELSE {0}
TightnessOf(shape) == IF Head(shape) = "list" THEN BOOLEAN ELSE {FALSE}

-----------------------------------------------------------------------------
(***************************************************************************)
(* The loops over the document.                                            *)
(***************************************************************************)
AtDefinition(it) == it.ev = "exit" /\ heap.type[it.cur] = "footnote_definition"

AtReference(it) == it.ev = "exit" /\ heap.type[it.cur] = "footnote_reference"

AtTexts(it) ==
  /\ it.ev = "enter" /\ heap.type[it.cur] = "text"
  /\ heap.next[it.cur] # NULL /\ heap.type[heap.next[it.cur]] = "text"

\* What the loop that runs looks for.
Sought(it) ==
  \/ phase = "collect" /\ AtDefinition(it)
  \/ phase = "number" /\ AtReference(it)
  \/ phase = "consolidate" /\ AtTexts(it)

\* What an iterator may hold: a node and what has or will be done with it.
Iterators ==
  {it \in [ev : {"none", "enter", "exit", "done"}, cur : Pointer,
           next_ev : {"enter", "exit", "done"}, next : Pointer, root : Node] :
     it.next = NULL <=> it.next_ev = "done"}

\* The iterator when it comes to what is sought, or is done.
Forward ==
  LET From[it \in Iterators] ==
        IF Sought(it) \/ it.ev = "done" THEN it ELSE From[IterNext(heap, it)]
  IN  From[IterNext(heap, iter)]

-----------------------------------------------------------------------------
(***************************************************************************)
(* The map of definitions.                                                 *)
(***************************************************************************)

\* cmark_footnote_create for the definition the first loop has come to.
Collect(it) ==
  /\ AtDefinition(it)
  /\ refs' = Append(refs, [label |-> as.label[it.cur], node |-> it.cur, ix |-> 0])
  /\ iter' = it
  /\ UNCHANGED <<heap, as, phase, sorted, ix, todo, tmp>>

\* The second loop has an iterator of its own.
Collected(it) ==
  /\ it.ev = "done"
  /\ phase' = "number"
  /\ iter' = IterNew(root)
  /\ UNCHANGED <<heap, as, refs, sorted, ix, todo, tmp>>

\* sort_map: only the oldest entry of each label is kept.
SortedRefs == {i \in DOMAIN refs : \A j \in 1 .. i - 1 : refs[j].label # refs[i].label}

\* cmark_map_lookup sorts the map when it is first asked for a label that
\* is not too long.  What bsearch finds is the entry with the label.
Consults(l) == l \notin LongLabel /\ refs # <<>>
Sorted(l) == IF Consults(l) /\ sorted = {} THEN SortedRefs ELSE sorted
Found(l) == IF Consults(l) THEN {i \in Sorted(l) : refs[i].label = l} ELSE {}

-----------------------------------------------------------------------------
(***************************************************************************)
(* The second loop.                                                        *)
(***************************************************************************)
\* Mutant: the reference is not told which of its definition's it is.
NumberFirst(it) ==
  /\ AtReference(it)
  /\ \E i \in Found(as.label[it.cur]) :
       LET d == refs[i].node
           number == IF refs[i].ix = 0 THEN ix + 1 ELSE refs[i].ix
       IN  /\ refs' = [refs EXCEPT ![i].ix = number]
           /\ ix' = IF refs[i].ix = 0 THEN ix + 1 ELSE ix
           /\ as' = [as EXCEPT !.parent_footnote_def[it.cur] = d,
                               !.def_count[d] = @ + 1,
                               !.ref_ix[it.cur] = 1,
                               !.number[it.cur] = number]
  /\ sorted' = Sorted(as.label[it.cur])
  /\ iter' = it
  /\ UNCHANGED <<heap, phase, todo, tmp>>

\* The reference is given the number of its definition, and counted.
Number(it) ==
  /\ AtReference(it)
  /\ \E i \in Found(as.label[it.cur]) :
       LET d == refs[i].node
           number == IF refs[i].ix = 0 THEN ix + 1 ELSE refs[i].ix
       IN  /\ refs' = [refs EXCEPT ![i].ix = number]
           /\ ix' = IF refs[i].ix = 0 THEN ix + 1 ELSE ix
           /\ as' = [as EXCEPT !.parent_footnote_def[it.cur] = d,
                               !.def_count[d] = @ + 1,
                               !.ref_ix[it.cur] = as.def_count[d] + 1,
                               !.number[it.cur] = number]
  /\ sorted' = Sorted(as.label[it.cur])
  /\ iter' = it
  /\ UNCHANGED <<heap, phase, todo, tmp>>

\* What cmark_node_free releases: Subtree, by recursion along the lists.
BelowOf(h, n) ==
  LET Reach[m \in Pointer] ==
        IF m = NULL THEN {}
        ELSE {m} \cup Reach[h.first_child[m]] \cup Reach[h.next[m]]
  IN  {n} \cup Reach[h.first_child[n]]

\* cmark_node_free
FreeTree(h, n) == Release(NodeUnlink(h, n), BelowOf(h, n))

\* calloc and free leave the fields of a node blank.
Blank(a, F) ==
  LET Reset(f, v) == [n \in Node |-> IF n \in F THEN v ELSE f[n]]
  IN  [label               |-> Reset(a.label, 0),
       number              |-> Reset(a.number, 0),
       parent_footnote_def |-> Reset(a.parent_footnote_def, NULL),
       ref_ix              |-> Reset(a.ref_ix, 0),
       def_count           |-> Reset(a.def_count, 0),
       tight               |-> Reset(a.tight, FALSE),
       is_header           |-> Reset(a.is_header, FALSE)]

\* A reference without a definition becomes the text it was made from.
Restore(it) ==
  LET n == it.cur
      text == FreeAddress(heap)
      inserted == InsertAfter(Fresh(heap, text, "text"), n, text)
  IN  /\ AtReference(it)
      /\ Found(as.label[n]) = {}
      /\ heap' = FreeTree(inserted, n)
      /\ as' = Blank([as EXCEPT !.label[text] = as.label[n]], {n})
      /\ sorted' = Sorted(as.label[n])
      /\ iter' = it
      /\ UNCHANGED <<phase, refs, ix, todo, tmp>>

\* Mutant: the entries stay in the order of their labels.
ByLabel == {s \in SetToSeqs(sorted) :
              \A i, j \in DOMAIN s : i < j => refs[s[i]].label < refs[s[j]].label}

\* qsort with sort_footnote_by_ix, which puts unused entries in any order.
ByNumber == {s \in SetToSeqs(sorted) :
               \A i, j \in DOMAIN s : i < j => refs[s[i]].ix <= refs[s[j]].ix}

\* The entries of map->refs, newest first.
NewestFirst == Reverse([i \in DOMAIN refs |-> i])

\* The loop has ended.
Numbered(it) ==
  /\ it.ev = "done"
  /\ phase' = IF sorted = {} THEN "unlink" ELSE "move"
  /\ IF sorted = {} THEN todo' = NewestFirst ELSE todo' \in ByNumber
  /\ iter' = it
  /\ UNCHANGED <<heap, as, refs, sorted, ix, tmp>>

-----------------------------------------------------------------------------
(***************************************************************************)
(* The loops at the end: each handles the first entry of todo.             *)
(***************************************************************************)
Entry == refs[Head(todo)]

MoveUsed ==
  /\ phase = "move" /\ todo # <<>>
  /\ Entry.ix # 0
  /\ heap' = AppendChild(heap, root, Entry.node)
  /\ refs' = [refs EXCEPT ![Head(todo)].node = NULL]
  /\ todo' = Tail(todo)
  /\ UNCHANGED <<as, phase, iter, sorted, ix, tmp>>

UnlinkUnused ==
  /\ phase = "move" /\ todo # <<>>
  /\ Entry.ix = 0
  /\ heap' = Unlink(heap, Entry.node)
  /\ todo' = Tail(todo)
  /\ UNCHANGED <<as, phase, iter, refs, sorted, ix, tmp>>

\* Mutant: entries are freed where they hang.
UnlinkNothing ==
  /\ phase = "unlink" /\ todo # <<>>
  /\ todo' = Tail(todo)
  /\ UNCHANGED <<heap, as, phase, iter, refs, sorted, ix, tmp>>

\* cmark_unlink_footnotes_map
UnlinkEntry ==
  /\ phase = "unlink" /\ todo # <<>>
  /\ heap' = IF Entry.node = NULL THEN heap ELSE Unlink(heap, Entry.node)
  /\ todo' = Tail(todo)
  /\ UNCHANGED <<as, phase, iter, refs, sorted, ix, tmp>>

\* footnote_free, called by cmark_map_free
FreeEntry ==
  /\ phase = "free" /\ todo # <<>>
  /\ IF Entry.node = NULL THEN UNCHANGED <<heap, as>>
     ELSE /\ heap' = FreeTree(heap, Entry.node)
          /\ as' = Blank(as, BelowOf(heap, Entry.node))
  /\ todo' = Tail(todo)
  /\ UNCHANGED <<phase, iter, refs, sorted, ix, tmp>>

LoopEnd ==
  /\ phase \in {"move", "unlink"} /\ todo = <<>>
  /\ phase' = IF phase = "move" THEN "unlink" ELSE "free"
  /\ todo' = NewestFirst
  /\ UNCHANGED <<heap, as, iter, refs, sorted, ix, tmp>>

MapFreed ==
  /\ phase = "free" /\ todo = <<>>
  /\ phase' = "consolidate"
  /\ iter' = IterNew(root)
  /\ UNCHANGED <<heap, as, refs, sorted, ix, todo, tmp>>

-----------------------------------------------------------------------------
(***************************************************************************)
(* cmark_consolidate_text_nodes                                            *)
(***************************************************************************)
\* A text with texts after it: these are added to it.
Consolidate(it) ==
  /\ AtTexts(it)
  /\ tmp' = heap.next[it.cur]
  /\ iter' = it
  /\ UNCHANGED <<heap, as, phase, refs, sorted, ix, todo>>

\* One of them is freed, the iterator one ahead.
Join ==
  /\ phase = "consolidate" /\ tmp # NULL
  /\ iter' = IterNext(heap, iter)
  /\ heap' = FreeTree(heap, tmp)
  /\ as' = Blank(as, {tmp})
  /\ tmp' = IF heap.next[tmp] # NULL /\ heap.type[heap.next[tmp]] = "text"
            THEN heap.next[tmp] ELSE NULL
  /\ UNCHANGED <<phase, refs, sorted, ix, todo>>

Consolidated(it) ==
  /\ it.ev = "done"
  /\ phase' = "done"
  /\ iter' = it
  /\ UNCHANGED <<heap, as, refs, sorted, ix, todo, tmp>>

\* The document is complete.
Built ==
  /\ phase = "build"
  /\ phase' = "collect"
  /\ UNCHANGED <<heap, as, iter, refs, sorted, ix, todo, tmp>>

Process ==
  \/ Built
  \/ /\ phase = "collect"
     /\ LET it == Forward IN Collect(it) \/ Collected(it)
  \/ /\ phase = "number"
     /\ LET it == Forward IN Number(it) \/ Restore(it) \/ Numbered(it)
  \/ MoveUsed \/ UnlinkUnused \/ UnlinkEntry \/ FreeEntry \/ LoopEnd \/ MapFreed
  \/ /\ phase = "consolidate" /\ tmp = NULL
     /\ LET it == Forward IN Consolidate(it) \/ Consolidated(it)
  \/ Join

Next ==
  \/ \E p \in LastPath, shape \in Shapes :
       \E l \in LabelsOf(shape), t \in TightnessOf(shape) : Add(p, shape, l, t)
  \/ Process

Spec == Init /\ [][Next]_vars

-----------------------------------------------------------------------------
Entries == [label : Label, node : Pointer, ix : 0 .. Cardinality(Node)]

TypeOK ==
  /\ heap \in Heap
  /\ DOMAIN as = {"label", "number", "parent_footnote_def", "ref_ix", "def_count",
                  "tight", "is_header"}
  /\ as.label \in [Node -> Label \cup {0}]
  /\ as.number \in [Node -> 0 .. Cardinality(Node)]
  /\ as.parent_footnote_def \in [Node -> Pointer]
  /\ as.ref_ix \in [Node -> 0 .. Cardinality(Node)]
  /\ as.def_count \in [Node -> 0 .. Cardinality(Node)]
  /\ as.tight \in [Node -> BOOLEAN] /\ as.is_header \in [Node -> BOOLEAN]
  /\ phase \in {"build", "collect", "number", "move", "unlink", "free", "consolidate",
                "done"}
  /\ iter \in Iterators
  /\ \A i \in DOMAIN refs : refs[i] \in Entries
  /\ sorted \subseteq DOMAIN refs
  /\ ToSet(todo) \subseteq DOMAIN refs
  /\ tmp \in Pointer

\* While nodes are replaced, moved, joined and freed, whatever the code still
\* holds is allocated: the node an iterator has decided to visit next, the
\* definitions in the map, also one inside a definition that is freed first,
\* and every pointer of a node that is left, including those of numbered
\* references to their definitions.
NothingStale ==
  /\ phase \in {"collect", "number", "consolidate"} => iter.next \in live \cup {NULL}
  /\ tmp \in live \cup {NULL}
  /\ \A i \in IF phase = "free" THEN ToSet(todo)
           ELSE IF phase \in {"consolidate", "done"} THEN {} ELSE DOMAIN refs :
       refs[i].node \in live \cup {NULL}
  /\ \A n \in live :
       Targets(heap, n) \cup {as.parent_footnote_def[n]} \subseteq live \cup {NULL}

OfType(t) == {n \in live : heap.type[n] = t}

\* The children of the document that are in S, in order.
ChildrenIn(S) ==
  LET From[n \in Pointer] ==
        IF n = NULL THEN <<>>
        ELSE (IF n \in S THEN <<n>> ELSE <<>>) \o From[heap.next[n]]
  IN  From[heap.first_child[root]]

TopLevel == ChildrenIn(Node)
Definitions == ChildrenIn(OfType("footnote_definition"))

\* In the end every definition that is left is at the end of the document and
\* no two have the same label; a reference carries the position of its
\* definition there, and its own rank among the references that were counted;
\* a text stands only for a label without a definition (or too long); of the
\* definitions with one label the one that ended first was used; all nodes that
\* are not in the document have been freed; and no text follows another.
Settled ==
  /\ phase = "done" => \A n \in OfType("text") :
       heap.next[n] # NULL => heap.type[heap.next[n]] # "text"
  /\ phase \in {"consolidate", "done"} =>
    /\ live = BelowOf(heap, root)
    /\ ToSet(Definitions) = OfType("footnote_definition")
    /\ IsSuffix(Definitions, TopLevel)
    /\ \A i, j \in DOMAIN Definitions :
         as.label[Definitions[i]] = as.label[Definitions[j]] => i = j
    /\ \A r \in OfType("footnote_reference") :
         /\ as.number[r] \in DOMAIN Definitions
         /\ as.parent_footnote_def[r] = Definitions[as.number[r]]
         /\ as.label[r] = as.label[as.parent_footnote_def[r]]
         /\ as.ref_ix[r] \in 1 .. as.def_count[as.parent_footnote_def[r]]
    /\ \A q, r \in OfType("footnote_reference") :
         as.label[q] = as.label[r] /\ as.ref_ix[q] = as.ref_ix[r] => q = r
    /\ \A n \in OfType("text"), i \in DOMAIN refs :
         refs[i].label = as.label[n] => refs[i].label \in LongLabel
    /\ \A i, j \in DOMAIN refs :
         refs[i].node = NULL /\ refs[i].label = refs[j].label => i <= j
=============================================================================
