---------------------------- MODULE MCOwnership ----------------------------
(***************************************************************************)
(* TLC instance of SessionOwnership.                                        *)
(***************************************************************************)
EXTENDS SessionOwnership, TLC

CONSTANTS s1, s2, s3, task1, task2

\* Two sessions in one task, the third in another.
TwoTasks == s1 :> task1 @@ s2 :> task2 @@ s3 :> task1
=============================================================================
