------------------------- MODULE ConversationService -------------------------
(***************************************************************************)
(* One conversation end to end: WebSocket sessions that hold the ownership  *)
(* lease (SessionOwnership) run handle_message (TwoPhaseOrchestrator) in    *)
(* their message loops (transport/session.py).  The two share the sessions  *)
(* and their processes; nothing in Redis or Kafka connects the lease with   *)
(* the sequence key, which is what makes the composition interesting.       *)
(***************************************************************************)
EXTENDS SessionOwnership, TwoPhaseOrchestrator

\* Nothing tells the orchestrator how many sessions send; the lease has to.
ASSUME UntoldAssumption == ~SingleSender

serviceVars == <<ownerVars, vars>>

ServiceInit == OwnerInit /\ Init

-----------------------------------------------------------------------------
\* Every result but the ACK of a transcript comes with disconnect=True.
Disconnects(r) == r # "TRANSCRIPT_ACK"

\* The message loop runs handle_message while the session lives; a socket that
\* the refresh task has closed may still deliver a frame already received.
Handle(s) ==
    /\ Sending(s)
    /\ HandleMessage(s)
    /\ UNCHANGED ownerVars

\* The response is sent and the loop goes on, or it returns (disconnect=True) or
\* raises (the socket was closed meanwhile).
Respond(s) ==
    /\ Sending(s)
    /\ Reply(s)
    /\ \/ Finish(s)
       \/ ~Disconnects(result[s]) /\ UNCHANGED ownerVars

\* Faulty variant of Disconnect: the close of the socket ends the session, and
\* releases its lease, without waiting for the handler.
AbruptDisconnect(s) == Finish(s) /\ UNCHANGED vars

\* The loop is left while it waits for a frame: the client disconnects or sends
\* something that is not JSON or belongs to another conversation.
Disconnect(s) ==
    /\ ~Busy(s)
    /\ Finish(s)
    /\ UNCHANGED vars

\* Everything else the lease is subject to, next to the running handlers.
LeaseStep ==
    /\ \/ \E s \in Sessions :
            \/ Handshake(s) \/ RefreshTask(s) \/ RefreshRaises(s)
            \/ Release(s) \/ StragglerRuns(s)
       \/ Tick
    /\ UNCHANGED vars

\* The producers, the broker, lagging commits and the expiry of the sequence key.
BackendStep ==
    /\ \/ \E p \in Procs : Producer(p)
       \/ \E f \in Frames : LateCommit(f)
       \/ KeyExpires
    /\ UNCHANGED ownerVars

\* A killed task takes its sessions and its accumulator with it.
TaskCrash(p) ==
    LET live == \E s \in Sessions : ProcOf[s] = p /\ phase[s] \notin {"new", "gone"}
        used == buffer[p] # << >> \/ \E s \in Sessions : ProcOf[s] = p /\ Busy(s)
    IN  /\ live \/ used
        /\ IF live THEN OwnerCrash(p) ELSE UNCHANGED ownerVars
        /\ IF used THEN Crash(p) ELSE UNCHANGED vars

ServiceNext ==
    \/ \E s \in Sessions : Handle(s) \/ Respond(s) \/ Disconnect(s)
    \/ LeaseStep
    \/ BackendStep
    \/ \E p \in Procs : TaskCrash(p)

ServiceSpec == ServiceInit /\ [][ServiceNext]_serviceVars

-----------------------------------------------------------------------------
(***************************************************************************)
(* Properties, besides those of the two parts                              *)
(***************************************************************************)

\* The orchestrator with one active sender, as its documentation takes for granted.
SingleSenderOrchestrator == INSTANCE TwoPhaseOrchestrator WITH SingleSender <- TRUE

\* Timely sessions make the service a single-sender orchestrator: no session
\* starts on a frame while another one's handler is anywhere between prepare
\* and its reply, across hand-overs, closes and crashes.
ServesOneSender == SingleSenderOrchestrator!Spec

\* Within a conversation the expected sequence number only advances, except by
\* the expiry of its key, which this module can switch off.
SequenceAdvances == ExpectedNeverRegresses
=============================================================================
