------------------------------- MODULE Iterator -------------------------------
(***************************************************************************)
(* The tree iterator (iterator.c): a cursor that enters and leaves every   *)
(* node below a root.  It has already decided on the next event when it    *)
(* reports the current one.                                                *)
(***************************************************************************)
EXTENDS NodeLinks

\* S_is_leaf: types that are entered and never left.
LeafTypes ==
  {"html_block", "thematic_break", "code_block", "text", "softbreak",
   "linebreak", "code", "html_inline"}

\* cmark_iter_new
IterNew(n) ==
  [ev |-> "none", cur |-> NULL, next_ev |-> "enter", next |-> n, root |-> n]

Into(h, it) ==
  IF h.first_child[it.next] = NULL
  THEN [ev |-> "exit", node |-> it.next]
  ELSE [ev |-> "enter", node |-> h.first_child[it.next]]

Onward(h, it) ==
  IF it.next = it.root THEN [ev |-> "done", node |-> NULL]
  ELSE IF h.next[it.next] # NULL THEN [ev |-> "enter", node |-> h.next[it.next]]
  ELSE IF h.parent[it.next] # NULL THEN [ev |-> "exit", node |-> h.parent[it.next]]
  ELSE [ev |-> "done", node |-> NULL]

\* cmark_iter_next: report the event decided on before and decide on another.
IterNext(h, it) ==
  LET coming == IF it.next_ev = "done" THEN [ev |-> "done", node |-> NULL]
                ELSE IF it.next_ev = "enter" /\ h.type[it.next] \notin LeafTypes
                THEN Into(h, it)
                ELSE Onward(h, it)
  IN  [it EXCEPT !.ev = it.next_ev, !.cur = it.next,
                 !.next_ev = coming.ev, !.next = coming.node]

\* cmark_iter_reset: the event given becomes the current one.
IterReset(h, it, n, ev) == IterNext(h, [it EXCEPT !.next = n, !.next_ev = ev])
=============================================================================
