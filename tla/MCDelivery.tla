----------------------------- MODULE MCDelivery -----------------------------
(***************************************************************************)
(* TLC instance of LosslessDelivery.                                        *)
(***************************************************************************)
EXTENDS LosslessDelivery, TLC

CONSTANTS s1, s2, task1, task2

\* A call: a transcript, another one, and the end.
Call == {[seq |-> 0, event |-> "SESSION_ONGOING"],
         [seq |-> 1, event |-> "SESSION_ONGOING"],
         [seq |-> 2, event |-> "SESSION_COMPLETE"]}

\* Each session in a task of its own: a fail-over between tasks.
TwoTasks == s1 :> task1 @@ s2 :> task2
=============================================================================
