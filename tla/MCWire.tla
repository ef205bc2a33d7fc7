------------------------------- MODULE MCWire -------------------------------
(* Wire for TLC: the constants are given in the .cfg file. *)
EXTENDS Wire
=============================================================================
