------------------------------ MODULE MCInlines ------------------------------
(***************************************************************************)
(* Instances of Inlines.                                                   *)
(***************************************************************************)
EXTENDS Inlines

Run(c, k, open, close) ==
  [char |-> c, length |-> k, can_open |-> open, can_close |-> close]

\* Runs on either side of the rule of 3, and both lengths of strikethrough.
MixedRuns ==
  {Run("*", 1, f[1], f[2]) : f \in {<<TRUE, FALSE>>, <<FALSE, TRUE>>, <<TRUE, TRUE>>}}
  \cup {Run("*", 2, f, TRUE) : f \in BOOLEAN}
  \cup {Run("~", k, TRUE, TRUE) : k \in {1, 2}}
  \cup {Run("'", 1, TRUE, TRUE)}
=============================================================================
