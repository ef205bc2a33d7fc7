------------------------------- MODULE MCText -------------------------------
(* Constant values of Text that a .cfg cannot write. *)
EXTENDS Text

\* Rows wide enough for two words, on pages longer than any line; and pages so small
\* that lines are longer than a page.
BothGrids == {<<3, 2>>, <<2, 2>>}

=============================================================================
