------------------------------ MODULE MCRendering ------------------------------
(***************************************************************************)
(* Rendering on small documents.                                           *)
(***************************************************************************)
EXTENDS Rendering

AllShapes ==
  {<<"block_quote">>, <<"list", "item">>, <<"heading", "footnote_reference">>,
   <<"footnote_definition">>,
   <<"paragraph", "footnote_reference">>, <<"footnote_reference">>,
   <<"strong", "footnote_reference">>, <<"image", "footnote_reference">>,
   <<"table", "table_row", "table_cell">>, <<"table_row", "table_cell">>}
=============================================================================
