-------------------------- MODULE SessionsAndTasks --------------------------
(***************************************************************************)
(* What the lease and the message handlers of one conversation have in      *)
(* common: its WebSocket sessions and the service processes they live in.   *)
(***************************************************************************)
CONSTANTS
    Sessions,   \* WebSocket sessions that may carry the conversation, each used once
    Procs,      \* service processes (ECS tasks)
    ProcOf      \* the process each session lives in

ASSUME SessionAssumption == ProcOf \in [Sessions -> Procs]
=============================================================================
