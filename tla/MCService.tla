------------------------------ MODULE MCService ------------------------------
(***************************************************************************)
(* TLC instance of ServiceProcess.                                          *)
(***************************************************************************)
EXTENDS ServiceProcess, TLC

CONSTANTS c1, c2, c3, callA, callB

\* Two connections of one conversation (a reconnect that overlaps the session it
\* replaces) and one of another.
ThreeConns == c1 :> callA @@ c2 :> callA @@ c3 :> callB
=============================================================================
