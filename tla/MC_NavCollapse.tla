--------------------------- MODULE MC_NavCollapse ---------------------------
(***************************************************************************)
(* Model-checking root for NavCollapse: the page's links are model values. *)
(***************************************************************************)
EXTENDS NavCollapse

CONSTANTS l1, l2

MC_Links == {l1, l2}
MC_NoLinks == {}
MC_OneLink == {l1}

=============================================================================
