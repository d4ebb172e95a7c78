----------------------------- MODULE MCTwoPhase -----------------------------
(***************************************************************************)
(* TLC instance of TwoPhaseOrchestrator.                                    *)
(***************************************************************************)
EXTENDS TwoPhaseOrchestrator, TLC

CONSTANTS s1, s2, task1, task2

Ongoing(n) == [seq |-> n, event |-> "SESSION_ONGOING"]
Complete(n) == [seq |-> n, event |-> "SESSION_COMPLETE"]

\* A conforming client: two transcripts, then the end of the call.
CallFrames == {Ongoing(0), Ongoing(1), Complete(2)}

\* Each session in a task of its own: a fail-over between tasks.
TwoTasks == s1 :> task1 @@ s2 :> task2
=============================================================================
