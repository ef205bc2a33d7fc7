----------------------------- MODULE MCWsBridge -----------------------------
(* The proxy and the console, for TLC. *)
EXTENDS WsBridge

=============================================================================
