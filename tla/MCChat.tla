------------------------------- MODULE MCChat -------------------------------
(* Constant values of Chat that a .cfg cannot write. *)
EXTENDS Chat

\* The deck fills both strings.
DeckAsks == {<<"prompt", "math">>}

=============================================================================
