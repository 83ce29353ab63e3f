---------------------------- MODULE MCApiClients ----------------------------
(***************************************************************************)
(* A small instance of ApiClients for TLC.                                 *)
(***************************************************************************)
EXTENDS ApiClients

TwoKeys == <<"test", "c1">>
NoToken == ""
=============================================================================
