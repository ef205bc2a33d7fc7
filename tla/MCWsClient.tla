----------------------------- MODULE MCWsClient -----------------------------
(* WsClient for TLC: the constants are given in the .cfg files. *)
EXTENDS WsClient
=============================================================================
