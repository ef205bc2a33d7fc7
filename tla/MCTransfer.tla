----------------------------- MODULE MCTransfer -----------------------------
(* Transfer for TLC: the constants are given in the .cfg files. *)
EXTENDS Transfer
=============================================================================
