-------------------------- MODULE LosslessDelivery --------------------------
(***************************************************************************)
(* The call seen from a client that keeps to the protocol: it sends its     *)
(* frames in order, one at a time, and resends a frame, over a new          *)
(* connection if need be, until it has the ACK (api-contract.md: every      *)
(* ERROR but a validation one asks for exactly that).  The server is        *)
(* TwoPhaseOrchestrator, with everything that can go wrong there.           *)
(*                                                                         *)
(* Faults are drawn from a budget, so that the question is what happens     *)
(* once they stop: does every retry path lead to the end of the call?       *)
(***************************************************************************)
EXTENDS TwoPhaseOrchestrator

CONSTANT MaxFaults   \* bound: failures, and frames out of turn, in a behaviour

\* A commit that took effect after its frame was acknowledged would set the server
\* back behind the client, which never resends what it has an ACK for.
ASSUME PromptAssumption == ~CommitMayLag
ASSUME FaultAssumption == MaxFaults \in Nat

VARIABLE faults      \* failures so far

deliveryVars == <<vars, faults>>

DeliveryInit == Init /\ faults = 0

-----------------------------------------------------------------------------
Unacknowledged == Frames \ acked

\* The frame a conforming client sends: the first it has no ACK for.
InTurn(f) ==
    /\ f \in Unacknowledged
    /\ \A g \in Unacknowledged : f.seq <= g.seq

\* A frame of the call arrives in its turn.
ClientSends(s) == Receive(s) /\ InTurn(frame'[s])

\* A frame arrives out of turn: a replay of one acknowledged, or a gap.
ClientStrays(s) == Receive(s) /\ ~InTurn(frame'[s])

\* The response reaches the client ...
Answer(s) ==
    /\ Reply(s)
    /\ result[s] \in Acks => frame[s] \in acked'

\* ... or is lost with the connection.
AnswerLost(s) ==
    /\ Reply(s)
    /\ result[s] \in Acks /\ frame[s] \notin acked'

\* The handler's own progress: each Redis call returns, the record is queued.
Work(s) == Prepare(s) \/ Enqueue(s) \/ Commit(s) \/ Cleanup(s) \/ Answer(s)

\* The broker stores the oldest record of an accumulator and says so.
Deliver(p) == BrokerAppends(p) \/ BrokerAcks(p)

Fault ==
    \/ \E s \in Sessions :
         \/ ClientStrays(s) \/ FailValidation(s) \/ PrepareRaises(s)
         \/ SendRefused(s) \/ SendTimesOut(s) \/ CommitRaises(s) \/ AnswerLost(s)
    \/ \E p \in Procs : DeliveryFails(p) \/ Crash(p)

DeliveryNext ==
    \/ /\ \/ \E s \in Sessions : ClientSends(s) \/ Work(s)
          \/ \E p \in Procs : Deliver(p)
       /\ UNCHANGED faults
    \/ /\ faults < MaxFaults
       /\ faults' = faults + 1
       /\ Fault

DeliverySpec == DeliveryInit /\ [][DeliveryNext]_deliveryVars

\* The client goes on sending, handlers are scheduled, Redis calls return and the
\* broker, unless it fails, stores what it is given.
DeliveryFairness ==
    /\ WF_deliveryVars((\E s \in Sessions : ClientSends(s)) /\ UNCHANGED faults)
    /\ \A s \in Sessions : WF_deliveryVars(Work(s) /\ UNCHANGED faults)
    /\ \A p \in Procs : WF_deliveryVars(Deliver(p) /\ UNCHANGED faults)

FairDeliverySpec == DeliverySpec /\ DeliveryFairness

-----------------------------------------------------------------------------
\* Once failures stop, a client that keeps resending is acknowledged to the end
\* of its call, however the E1011, E1008, E1007, lost ACKs, crashes and late
\* deliveries before were combined (one active sender, a live sequence key, no
\* commit lagging).
CallIsDelivered == <>(Unacknowledged = {})
=============================================================================
