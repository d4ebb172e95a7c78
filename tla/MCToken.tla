------------------------------ MODULE MCToken ------------------------------
(***************************************************************************)
(* TLC instance of TokenProvider, with a margin no longer than a call.      *)
(***************************************************************************)
EXTENDS TokenProvider
=============================================================================
