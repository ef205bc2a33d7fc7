------------------------------ MODULE MCBridge ------------------------------
(* Constant values of Bridge that a .cfg cannot write. *)
EXTENDS Bridge

\* The deck always fills both strings.
WholeAsks == {<<"prompt", "math">>}
\* prgmCHAT run with Str1 or Str2 missing as well.
AnyAsks == {<<"prompt", "math">>, <<"prompt">>, <<"math">>}
\* And another variable sent by hand.
AnyTraffic == AnyAsks \cup {<<"raw">>}

=============================================================================
