----------------------------- MODULE MCNodeEdits -----------------------------
(* Small trees for NodeEdits.                                               *)
EXTENDS NodeEdits

CONSTANTS n1, n2, n3, n4, n5, n6, n7

\* The heap in which each node has the type and the children given.
Built(type, children) ==
  LET Siblings(n) == CHOOSE l \in {children[p] : p \in DOMAIN children} : n \in Elements(l)
      IsChild(n) == \E p \in DOMAIN children : n \in Elements(children[p])
      At(n) == CHOOSE i \in DOMAIN Siblings(n) : Siblings(n)[i] = n
      Kids(p) == IF p \in DOMAIN children THEN children[p] ELSE <<>>
      Nth(l, i) == IF i \in DOMAIN l THEN l[i] ELSE NULL
  IN  [type |-> [n \in Node |-> IF n \in DOMAIN type THEN type[n] ELSE "none"],
       next |-> [n \in Node |-> IF IsChild(n) THEN Nth(Siblings(n), At(n) + 1) ELSE NULL],
       prev |-> [n \in Node |-> IF IsChild(n) THEN Nth(Siblings(n), At(n) - 1) ELSE NULL],
       parent |-> [n \in Node |-> IF IsChild(n)
                     THEN CHOOSE p \in DOMAIN children : n \in Elements(children[p]) ELSE NULL],
       first_child |-> [n \in Node |-> Nth(Kids(n), 1)],
       last_child |-> [n \in Node |-> Nth(Kids(n), Len(Kids(n)))]]

\* A document of three blocks and one of two; and a document with a quote.
Flat == (n1 :> <<n2, n3, n4>>) @@ (n5 :> <<n6>>)
Nested == (n1 :> <<n2, n3>>) @@ (n3 :> <<n4>>) @@ (n5 :> <<n6>>)
Cells == (n1 :> <<n2>>) @@ (n3 :> <<n4, n5, n6>>)

Headings(types) ==
  {[heap |-> Built(types, Flat), level |-> [n \in Node |-> IF n = n3 THEN l ELSE 1],
    text |-> [n \in Node |-> IF n = n4 THEN t ELSE <<"a">>]] :
      l \in 1..2, t \in {<<"a">>, <<"A", " ", " ", "2">>, <<"b">>}}

FlatTypes ==
  {(n1 :> "document") @@ (n5 :> "document") @@ (n6 :> "paragraph")
     @@ (n2 :> "heading") @@ (n3 :> a) @@ (n4 :> b) : a, b \in {"heading", "paragraph"}}

Other ==
  {[heap |-> Built((n1 :> "document") @@ (n2 :> "heading") @@ (n3 :> "block_quote")
                     @@ (n4 :> "heading") @@ (n5 :> "document") @@ (n6 :> "heading"), Nested),
    level |-> [n \in Node |-> IF n = n4 THEN 2 ELSE 1],
    text |-> [n \in Node |-> <<"a">>]],
   [heap |-> Built((n1 :> "table_cell") @@ (n2 :> "text") @@ (n3 :> "heading")
                     @@ (n4 :> "text") @@ (n5 :> "softbreak") @@ (n6 :> "text"), Cells),
    level |-> [n \in Node |-> 1], text |-> [n \in Node |-> <<"a">>]]}

MCDocuments == UNION {Headings(t) : t \in FlatTypes} \cup Other
=============================================================================
