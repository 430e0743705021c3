------------------------------ MODULE NodeEdits ------------------------------
(***************************************************************************)
(* The methods of Markly::Node written in Ruby (lib/markly/node.rb) that   *)
(* walk a list of siblings while they edit it, over the tree of NodeLinks, *)
(* and the extraction of headings with anchors (renderer/headings.rb),     *)
(* which walks the tree.                                                   *)
(*                                                                         *)
(* One turn of a Ruby loop is one step.  A call is a sequence of what is   *)
(* still to be done: replace_section consists of three other methods.      *)
(***************************************************************************)
EXTENDS NodeLinks, Naturals, Sequences, FiniteSets, TLC

CONSTANTS
  Documents,    \* the trees to begin with: heap, and what their headings say
  MaxCalls      \* how many calls the program makes

ASSUME CallsAssumption == MaxCalls \in Nat

VARIABLES
  heap,
  level,      \* the level of each heading
  text,       \* the text of each heading, as a sequence of characters
  todo,       \* what the running call has still to do, <<>> if none runs
  calls,      \* how many calls were made
  before,     \* the heap when the call was made
  request,    \* the call
  raised,     \* whether it ended with an exception
  yielded,    \* the nodes given to the block
  ids,        \* Headings: how often each base anchor was seen
  headings    \* Headings: the headings found, with their anchors

document == <<level, text>>
walking == <<yielded, ids, headings>>
asked == <<calls, before, request>>
vars == <<heap, document, todo, asked, raised, walking>>

Idle == todo = <<>>
Op == Head(todo)
Running(op) == ~Idle /\ Op.op = op
Continue(op) == todo' = <<op>> \o Tail(todo)
Return == todo' = Tail(todo)

\* What a C function refuses is an exception, and the end of the call.
Raise == raised' = TRUE /\ todo' = <<>> /\ UNCHANGED heap

\* A call that the program makes.
Call(steps, what) ==
  /\ Idle /\ calls < MaxCalls
  /\ todo' = steps
  /\ calls' = calls + 1
  /\ before' = heap
  /\ request' = what
  /\ raised' = FALSE
  /\ yielded' = <<>> /\ ids' = <<>> /\ headings' = <<>>
  /\ UNCHANGED <<heap, document>>

Step == UNCHANGED <<document, asked, walking>>

-----------------------------------------------------------------------------
\* What following f from n leads to, in a heap where that ends.
Follow(f, n) ==
  LET From[k \in 0..Cardinality(Node), m \in Pointer] ==
        IF m = NULL \/ k = 0 THEN <<>> ELSE <<m>> \o From[k - 1, f[m]]
  IN  From[Cardinality(Node), n]

ListFrom(h, n) == Follow(h.next, n)

ChildLists(h) == [p \in Node |-> ListFrom(h, h.first_child[p])]

Elements(s) == {s[i] : i \in DOMAIN s}

-----------------------------------------------------------------------------
(* append_after and append_before                                          *)

AppendAfter(s, n) == [op |-> "append_after", self |-> s, node |-> n]
AppendBefore(s, n) == [op |-> "append_before", self |-> s, node |-> n]

Appends == {"append_after", "append_before"}

CallAppend ==
  \E s, n \in Live(heap) : \E method \in Appends :
    /\ heap.parent[s] # NULL
    /\ Call(<<[op |-> method, self |-> s, node |-> n]>>,
            [method |-> method, self |-> s, node |-> n])

\* A document stands for its children.
EnterAppend ==
  /\ ~Idle /\ Op.op \in Appends
  /\ Continue([op |-> IF Op.op = "append_after" THEN "after" ELSE "before",
               current |-> Op.self,
               node |-> IF heap.type[Op.node] = "document" THEN heap.first_child[Op.node]
                        ELSE Op.node])
  /\ UNCHANGED <<heap, raised>>
  /\ Step

\* Mutant: the next node is read after this one has moved.
NextTooLate ==
  /\ heap' = InsertAfter(heap, Op.current, Op.node)
  /\ Continue([op |-> "after", current |-> Op.node, node |-> heap'.next[Op.node]])
  /\ UNCHANGED raised

InsertOneAfter ==
  /\ heap' = InsertAfter(heap, Op.current, Op.node)
  /\ Continue([op |-> "after", current |-> Op.node, node |-> heap.next[Op.node]])
  /\ UNCHANGED raised

InsertOneBefore ==
  /\ heap' = InsertBefore(heap, Op.current, Op.node)
  /\ Continue([op |-> "before", current |-> Op.current, node |-> heap.next[Op.node]])
  /\ UNCHANGED raised

AppendTurn ==
  /\ Running("after") \/ Running("before")
  /\ Op.node # NULL
  /\ MayInsertBeside(heap, Op.current, Op.node)
  /\ IF Op.op = "after" THEN InsertOneAfter ELSE InsertOneBefore
  /\ Step

AppendRefused ==
  /\ Running("after") \/ Running("before")
  /\ Op.node # NULL
  /\ ~MayInsertBeside(heap, Op.current, Op.node)
  /\ Raise
  /\ Step

AppendReturn ==
  /\ Running("after") \/ Running("before")
  /\ Op.node = NULL
  /\ Return
  /\ UNCHANGED <<heap, raised>>
  /\ Step

-----------------------------------------------------------------------------
(* replace_section, delete_until, delete                                   *)

\* Where a section ends: at a heading that is not one of its subsections.
Ends(s, n, remove_subsections) ==
  heap.type[n] = "heading" /\ (~remove_subsections \/ level[n] <= level[s])

CallReplaceSection ==
  \E s \in Live(heap), n \in Live(heap) \cup {NULL}, header, subsections \in BOOLEAN :
    /\ heap.type[s] = "heading" /\ heap.parent[s] # NULL
    /\ Call((IF heap.next[s] = NULL THEN <<>>
             ELSE <<[op |-> "delete_until", self |-> s, current |-> heap.next[s],
                     subsections |-> subsections]>>)
              \o (IF n = NULL THEN <<>> ELSE <<AppendAfter(s, n)>>)
              \o (IF header THEN <<[op |-> "delete", self |-> s]>> ELSE <<>>),
            [method |-> "replace_section", self |-> s, node |-> n, header |-> header,
             subsections |-> subsections])

\* Mutant: the next sibling is read after the node has been unlinked.
DeleteThenNext ==
  /\ heap' = Unlink(heap, Op.current)
  /\ Continue([Op EXCEPT !.current = heap'.next[@]])

DeleteOne ==
  /\ heap' = Unlink(heap, Op.current)
  /\ Continue([Op EXCEPT !.current = heap.next[@]])

AtSectionEnd ==
  IF Op.current = NULL THEN TRUE ELSE Ends(Op.self, Op.current, Op.subsections)

DeleteTurn ==
  /\ Running("delete_until")
  /\ ~AtSectionEnd
  /\ DeleteOne
  /\ UNCHANGED raised
  /\ Step

DeleteReturn ==
  /\ Running("delete_until")
  /\ AtSectionEnd
  /\ Return
  /\ UNCHANGED <<heap, raised>>
  /\ Step

DeleteHeader ==
  /\ Running("delete")
  /\ heap' = Unlink(heap, Op.self)
  /\ Return
  /\ UNCHANGED raised
  /\ Step

-----------------------------------------------------------------------------
(* extract_children                                                        *)

\* The fragment is a new node.
CallExtractChildren ==
  \E s \in Live(heap), f \in Node \ Live(heap) :
    /\ heap' = Fresh(heap, f, "custom_inline")
    /\ Idle /\ calls < MaxCalls
    /\ todo' = <<[op |-> "extract", self |-> s, fragment |-> f]>>
    /\ calls' = calls + 1
    /\ before' = heap
    /\ request' = [method |-> "extract_children", self |-> s, fragment |-> f]
    /\ raised' = FALSE
    /\ yielded' = <<>> /\ ids' = <<>> /\ headings' = <<>>
    /\ UNCHANGED document

\* Mutant: a child that is refused is no error.
RefusalIgnored ==
  /\ Running("extract")
  /\ LET child == heap.first_child[Op.self]
     IN  /\ child # NULL
         /\ heap' = IF CanContain(heap, Op.fragment, child)
                    THEN AppendChild(heap, Op.fragment, child) ELSE heap
         /\ UNCHANGED <<todo, raised>>
  /\ Step

ExtractTurn ==
  /\ Running("extract")
  /\ LET child == heap.first_child[Op.self]
     IN  /\ child # NULL
         /\ IF CanContain(heap, Op.fragment, child)
            THEN heap' = AppendChild(heap, Op.fragment, child) /\ UNCHANGED <<todo, raised>>
            ELSE Raise
  /\ Step

ExtractReturn ==
  /\ Running("extract")
  /\ heap.first_child[Op.self] = NULL
  /\ Return
  /\ UNCHANGED <<heap, raised>>
  /\ Step

-----------------------------------------------------------------------------
(* walk and each, with a block that may delete the node it is given, and   *)
(* Headings.extract, whose block registers headings                        *)

\* base_anchor_for: in lower case, with a hyphen for any blanks.
base_anchor_for(t) ==
  LET Lower(c) == IF c = "A" THEN "a" ELSE IF c = " " THEN "-" ELSE c
      Kept == {i \in DOMAIN t : t[i] # " " \/ i = 1 \/ t[i - 1] # " "}
      Nth(k) == CHOOSE i \in Kept : Cardinality({j \in Kept : j <= i}) = k
  IN  [k \in 1..Cardinality(Kept) |-> Lower(t[Nth(k)])]

Seen(base) == base \in DOMAIN ids

\* Mutant: the counter is not raised.
AnchorNotCounted(n) ==
  LET base == base_anchor_for(text[n])
  IN  /\ headings' = Append(headings, [node |-> n,
            anchor |-> IF Seen(base) THEN base \o <<"-", ToString(ids[base] + 1)>> ELSE base])
      /\ ids' = [b \in DOMAIN ids \cup {base} |-> IF b = base THEN 1 ELSE ids[b]]

anchor_for(n) ==
  LET base == base_anchor_for(text[n])
      count == IF Seen(base) THEN ids[base] + 1 ELSE 1
  IN  /\ headings' = Append(headings, [node |-> n,
            anchor |-> IF Seen(base) THEN base \o <<"-", ToString(count)>> ELSE base])
      /\ ids' = [b \in DOMAIN ids \cup {base} |-> IF b = base THEN count ELSE ids[b]]

\* The block of extract: a heading between min_level and max_level is taken.
Register(n, min_level, max_level) ==
  IF heap.type[n] = "heading" /\ level[n] \in min_level..max_level
  THEN anchor_for(n)
  ELSE UNCHANGED <<headings, ids>>

\* The node is given to the block.
Yield(n) ==
  /\ yielded' = Append(yielded, n)
  /\ IF Op.block = "register"
     THEN Register(n, Op.min_level, Op.max_level) /\ UNCHANGED heap
     ELSE /\ heap' \in IF Op.block = "delete" THEN {heap, Unlink(heap, n)} ELSE {heap}
          /\ UNCHANGED <<headings, ids>>

CallWalk ==
  \E s \in Live(heap), block \in {"delete", "register"}, least, most \in 1..2 :
    /\ block = "delete" => least = 1 /\ most = 2
    /\ Call(<<[op |-> "walk", self |-> s, frames |-> <<>>, block |-> block,
               min_level |-> least, max_level |-> most]>>,
            [method |-> "walk", self |-> s, block |-> block,
             min_level |-> least, max_level |-> most])

\* walk gives the receiver to the block, and then begins an each on it.
WalkReceiver ==
  /\ Running("walk") /\ yielded = <<>>
  /\ Yield(Op.self)
  /\ Continue([Op EXCEPT !.frames = <<heap'.first_child[Op.self]>>])
  /\ UNCHANGED <<document, asked, raised>>

Child == Op.frames[Len(Op.frames)]
Outer == SubSeq(Op.frames, 1, Len(Op.frames) - 1)

\* Mutant: each reads the next child when the block has returned.
EachTooLate ==
  /\ Yield(Child)
  /\ Continue([Op EXCEPT !.frames = Outer \o <<heap'.next[Child], heap'.first_child[Child]>>])

\* A turn of an each: the next child is read before the block is called.
EachTurn ==
  /\ Yield(Child)
  /\ Continue([Op EXCEPT !.frames = Outer \o <<heap.next[Child], heap'.first_child[Child]>>])

WalkTurn ==
  /\ Running("walk") /\ yielded # <<>>
  /\ Op.frames # <<>> /\ Child # NULL
  /\ EachTurn
  /\ UNCHANGED <<document, asked, raised>>

WalkReturn ==
  /\ Running("walk") /\ yielded # <<>>
  /\ Op.frames # <<>> /\ Child = NULL
  /\ IF Outer = <<>> THEN Return ELSE Continue([Op EXCEPT !.frames = Outer])
  /\ UNCHANGED <<heap, raised>>
  /\ Step

-----------------------------------------------------------------------------
Init ==
  /\ \E d \in Documents : heap = d.heap /\ level = d.level /\ text = d.text
  /\ todo = <<>>
  /\ calls = 0
  /\ before = heap
  /\ request = [method |-> "none"]
  /\ raised = FALSE
  /\ yielded = <<>> /\ ids = <<>> /\ headings = <<>>

Turn ==
  \/ EnterAppend \/ AppendTurn \/ AppendRefused \/ AppendReturn
  \/ DeleteTurn \/ DeleteReturn \/ DeleteHeader
  \/ ExtractTurn \/ ExtractReturn
  \/ WalkReceiver \/ WalkTurn \/ WalkReturn

Next ==
  \/ CallAppend \/ CallReplaceSection \/ CallExtractChildren \/ CallWalk
  \/ EnterAppend \/ AppendTurn \/ AppendRefused \/ AppendReturn
  \/ DeleteTurn \/ DeleteReturn \/ DeleteHeader
  \/ ExtractTurn \/ ExtractReturn
  \/ WalkReceiver \/ WalkTurn \/ WalkReturn

\* A method that is called runs; the program need not call any.
Spec == Init /\ [][Next]_vars /\ WF_vars(Turn)

-----------------------------------------------------------------------------
Lists == ChildLists(heap)

\* The lists f once the nodes of S have left their places.
Left(f, S) == [p \in Node |-> SelectSeq(f[p], LAMBDA c : c \notin S)]

\* The nodes of sequence m placed in f after (offset 0) or before (offset 1) s.
Placed(f, m, s, offset) ==
  LET g == Left(f, Elements(m))
      At(p) == CHOOSE i \in DOMAIN g[p] : g[p][i] = s
  IN  [p \in Node |->
         IF s \notin Elements(g[p]) THEN g[p]
         ELSE SubSeq(g[p], 1, At(p) - offset) \o m
                \o SubSeq(g[p], At(p) - offset + 1, Len(g[p]))]

\* The section at s in f: what follows it up to the heading that ends it.
Section(f, s, subsections) ==
  LET siblings == CHOOSE l \in {f[p] : p \in Node} : s \in Elements(l)
      At(n) == CHOOSE i \in DOMAIN siblings : siblings[i] = n
      closing == {n \in Elements(siblings) : At(n) > At(s) /\ Ends(s, n, subsections)}
  IN  {n \in Elements(siblings) : At(n) > At(s) /\ \A e \in closing : At(n) < At(e)}

\* The section that the last call replaces.
Replaced ==
  IF request.method = "replace_section"
  THEN Section(ChildLists(before), request.self, request.subsections)
  ELSE {}

Appending ==
  \/ request.method \in Appends
  \/ request.method = "replace_section" /\ request.node # NULL

\* What is to be appended: the node given, and for a document its children.
Appended ==
  LET n == request.node
  IN  IF before.type[n] = "document" THEN ListFrom(before, before.first_child[n]) ELSE <<n>>

\* The siblings after a node that is no document, unless the section that is
\* deleted first has both.
LaterSiblings ==
  LET n == request.node
  IN  IF before.type[n] = "document" \/ n \in Replaced THEN {}
      ELSE Elements(ListFrom(before, before.next[n]))

\* The loop of append_after or append_before comes to the receiver, or to what
\* the receiver is in: one then does not end, the other leaves no list.
MeetsReceiver ==
  Appending /\ (Elements(Appended) \cup LaterSiblings)
                 \cap Elements(Follow(before.parent, request.self)) # {}

\* Siblings that come along with the node given, which nothing promises.
Brought == IF Appending THEN LaterSiblings ELSE {}

Expected ==
  LET f == ChildLists(before)
      s == request.self
      kept == Left(f, Replaced)
      replaced == IF request.node = NULL THEN kept ELSE Placed(kept, Appended, s, 0)
  IN  CASE request.method = "append_after" -> Placed(f, Appended, s, 0)
        [] request.method = "append_before" -> Placed(f, Appended, s, 1)
        [] request.method = "replace_section" ->
             IF request.header THEN Left(replaced, {s}) ELSE replaced
        [] request.method = "extract_children" ->
             [f EXCEPT ![s] = <<>>, ![request.fragment] = f[s]]
        [] OTHER -> Lists

\* Each method does what it is documented to do, although it edits the list it
\* walks: a section is replaced up to the next heading of its level and no
\* further, wherever the new nodes come from; the given node, or the children of
\* a document, arrive complete and in order (lib/markly/node.rb, append_after,
\* replace_section); no other node changes its place.  Two disagreements with
\* the code are left out: where the siblings after the given node go (Brought),
\* and calls whose loop meets the receiver (MeetsReceiver).
\* When appending or extracting is refused halfway, no node has left the tree.
\* (replace_section has deleted the section before what replaces it is refused.)
EditsAsNamed ==
  ~MeetsReceiver =>
    /\ Linked(heap)
    /\ Idle /\ ~raised => Left(Lists, Brought) = Left(Expected, Brought)
    /\ Idle /\ raised /\ request.method # "replace_section" =>
         \A n \in Live(before) :
           (heap.parent[n] = NULL) = (before.parent[n] = NULL)

\* The nodes below s in f, s first, in document order.
Preorder(f, s) ==
  LET Under[k \in 0..Cardinality(Node), n \in Node] ==
        IF k = 0 THEN <<n>>
        ELSE LET From[i \in 1..Len(f[n]) + 1] ==
                   IF i > Len(f[n]) THEN <<>> ELSE Under[k - 1, f[n][i]] \o From[i + 1]
             IN  <<n>> \o From[1]
  IN  Under[Cardinality(Node), s]

\* A heading that says something like "a-2" can have an anchor that is also
\* the second of another heading; without such headings anchors are unique.
Counted(n) ==
  LET base == base_anchor_for(text[n])
  IN  Len(base) > 1 /\ base[Len(base)] \in {"2", "3", "4"} /\ base[Len(base) - 1] = "-"

\* A walk gives each node to the block once, in document order, also when the
\* block deletes the node it is given; extract finds the headings between the
\* given levels, with anchors that are unique (Headings, "unique anchor").
WalksInOrder ==
  Idle /\ request.method = "walk" =>
    LET order == Preorder(ChildLists(before), request.self)
        wanted == SelectSeq(order, LAMBDA n : heap.type[n] = "heading"
                    /\ level[n] >= request.min_level /\ level[n] <= request.max_level)
    IN  /\ yielded = order
        /\ request.block = "register" =>
             /\ [i \in DOMAIN headings |-> headings[i].node] = wanted
             /\ \/ \E n \in Elements(wanted) : Counted(n)
                \/ \A i, j \in DOMAIN headings :
                     headings[i].anchor = headings[j].anchor => i = j

\* Every call returns, unless its loop meets the receiver: what is appended,
\* deleted or extracted leaves the list that the loop follows.
CallsReturn == (~Idle /\ ~MeetsReceiver) ~> Idle
=============================================================================
