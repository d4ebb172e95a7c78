---------------------- MODULE ConversationServiceProofs ----------------------
(***************************************************************************)
(* The lease and the handlers together.  Whatever the timing, the service   *)
(* is an implementation of both its parts, so what was proved of each holds *)
(* of it.  With a lease that is long enough (LeaseLongEnough) it has one    *)
(* active sender, which is what the orchestrator takes for granted, so what *)
(* was proved of the orchestrator under that assumption holds as well.      *)
(***************************************************************************)
EXTENDS ConversationService, SessionOwnershipProofs, TwoPhaseOrchestratorProofs

\* To the lease a step of the service is a step of a session, or nothing.
LEMMA IsOwnerStep == [ServiceNext]_serviceVars => [OwnerNext]_ownerVars
<1> SUFFICES ASSUME ServiceNext PROVE [OwnerNext]_ownerVars
  BY DEF serviceVars
<1>1. ASSUME NEW s \in Sessions, Handle(s) \/ Respond(s) \/ Disconnect(s)
      PROVE  Finish(s) \/ UNCHANGED ownerVars
  BY <1>1 DEF Handle, Respond, Disconnect
<1>2. CASE LeaseStep
  BY <1>2 DEF LeaseStep, OwnerNext, Session
<1>3. CASE BackendStep
  BY <1>3 DEF BackendStep
<1>4. ASSUME NEW p \in Procs, TaskCrash(p)
      PROVE  OwnerCrash(p) \/ UNCHANGED ownerVars
  BY <1>4 DEF TaskCrash
<1> QED
  BY <1>1, <1>2, <1>3, <1>4 DEF ServiceNext, OwnerNext, Session

\* To the orchestrator it is a step of a handler, a producer or a crash, or nothing.
LEMMA IsOrchestratorStep == [ServiceNext]_serviceVars => [Next]_vars
<1> SUFFICES ASSUME ServiceNext PROVE [Next]_vars
  BY DEF serviceVars
<1>1. ASSUME NEW s \in Sessions, Handle(s) \/ Respond(s) \/ Disconnect(s)
      PROVE  Handler(s) \/ UNCHANGED vars
  BY <1>1 DEF Handle, Respond, Disconnect, Handler
<1>2. CASE LeaseStep
  BY <1>2 DEF LeaseStep
<1>3. CASE BackendStep
  BY <1>3 DEF BackendStep, Next
<1>4. ASSUME NEW p \in Procs, TaskCrash(p)
      PROVE  Crash(p) \/ UNCHANGED vars
  BY <1>4 DEF TaskCrash
<1> QED
  BY <1>1, <1>2, <1>3, <1>4 DEF ServiceNext, Next

\* The composition implements the lease protocol ...
THEOREM ServiceKeepsLease == ServiceSpec => OwnerSpec
BY IsOwnerStep, PTL DEF ServiceSpec, ServiceInit, OwnerSpec

\* ... and the orchestrator with any number of senders.
THEOREM ServiceOrchestrates == ServiceSpec => Spec
BY IsOrchestratorStep, PTL DEF ServiceSpec, ServiceInit, Spec

\* Hence, however late refreshes are and however many sessions send, an ACK that a
\* client of the service got is for a frame Kafka holds, and the partition is as
\* LosslessTranscript promises.
THEOREM ServiceKeepsPromise == ServiceSpec => []AckedIsStored /\ KeepsPromise
BY ServiceOrchestrates, NoAcknowledgedLoss, ImplementsPromise, PTL

\* With a lease that is long enough, whoever may send holds it: the message loop
\* ends sessions only as the lease protocol allows.
THEOREM ServiceSenderIsOwner ==
    ASSUME LeaseLongEnough
    PROVE  ServiceSpec => []SenderHoldsLease
BY ServiceKeepsLease, SenderIsOwner, PTL

-----------------------------------------------------------------------------
\* A handler runs only in a session that has not ended: the message loop is left
\* between frames, or after the response.
BusyIsSending == \A s \in Sessions : Busy(s) => Sending(s)

\* Only the end of a session's own loop, or of its process, stops it from sending.
LEMMA SendingStays ==
    ASSUME OwnerTypeOK, NEW t \in Sessions, Sending(t),
           \/ LeaseStep
           \/ \E s \in Sessions : s # t /\ Finish(s)
           \/ UNCHANGED ownerVars
    PROVE  Sending(t)'
<1> USE DEF OwnerTypeOK, Sending
<1>1. ASSUME NEW s \in Sessions, s # t, NEW p, NEW r, NEW n, Move(s, p, r, n)
      PROVE  phase'[t] = phase[t]
  BY <1>1 DEF Move
<1>2. ASSUME NEW s \in Sessions,
             \/ Handshake(s) \/ RefreshTask(s) \/ RefreshRaises(s) \/ Release(s)
             \/ Finish(s) /\ s # t
      PROVE  \/ s # t /\ \E p, r, n : Move(s, p, r, n)
             \/ s = t /\ phase'[t] \in {"open", "closing"}
  BY <1>2 DEF Handshake, RefreshTask, Claim, ClaimRaises, Accept, AcceptFails, EndpointNotReached,
     Wake, RefreshRuns, RefreshReturns, RefreshRaises, Finish, Release, Move
<1>3. ASSUME NEW s \in Sessions, StragglerRuns(s) PROVE Sending(t)'
  BY <1>3 DEF StragglerRuns
<1>4. CASE Tick
  BY <1>4 DEF Tick
<1>5. CASE UNCHANGED ownerVars
  BY <1>5 DEF ownerVars
<1>6. ASSUME NEW s \in Sessions,
             \/ Handshake(s) \/ RefreshTask(s) \/ RefreshRaises(s) \/ Release(s)
             \/ Finish(s) /\ s # t
      PROVE  Sending(t)'
  BY <1>1, <1>2, <1>6
<1> QED
  BY <1>3, <1>4, <1>5, <1>6 DEF LeaseStep

\* A session is busy only if it was, unless its own loop received a frame.
LEMMA BusyStays ==
    ASSUME TypeOK, BufferInv, [Next]_vars, NEW t \in Sessions, Busy(t)'
    PROVE  Busy(t) \/ Handler(t)
BY SessionsMove DEF Busy

\* A handler that was idle has received a frame, which is counted.
LEMMA IdleReceives ==
    ASSUME TypeOK, NEW t \in Sessions, Handler(t)
    PROVE  Busy(t) \/ (Receive(t) /\ frames' # frames)
<1>1. Busy(t) \/ Receive(t)
  BY DEF Handler, HandleMessage, FailValidation, Prepare, PrepareRaises,
     Enqueue, SendRefused, SendTimesOut, Commit, CommitRaises, Cleanup, Reply, Busy
<1>2. Receive(t) => frames' # frames
  BY DEF TypeOK, Receive
<1> QED
  BY <1>1, <1>2

\* Frames are read and handlers run only by the loops of sessions that go on.
LEMMA BusyIsSendingStep ==
    ASSUME OwnerTypeOK, TypeOK, BufferInv, BusyIsSending, [ServiceNext]_serviceVars
    PROVE  BusyIsSending'
<1> SUFFICES ASSUME NEW t \in Sessions, Busy(t)' PROVE Sending(t)'
  BY DEF BusyIsSending
<1>0. /\ [Next]_vars
      /\ Busy(t) => Sending(t)
      /\ Busy(t) \/ Handler(t)
  BY IsOrchestratorStep, BusyStays DEF BusyIsSending
<1>1. ASSUME NEW s \in Sessions, Handle(s) PROVE Sending(t)'
  <2>1. CASE s = t
    BY <1>1, <2>1, SendingStays DEF Handle
  <2>2. CASE s # t
    <3>1. Busy(t)
      BY <1>0, <1>1, <2>2, SessionsMove DEF Handle, Handler, Busy
    <3> QED
      BY <1>0, <1>1, <3>1, SendingStays DEF Handle
  <2> QED
    BY <2>1, <2>2
<1>2. ASSUME NEW s \in Sessions, Respond(s) PROVE Sending(t)'
  <2>1. s # t
    BY <1>2 DEF Respond, Reply, Busy, TypeOK
  <2>2. Busy(t)
    BY <1>0, <1>2, <2>1, SessionsMove DEF Respond, Handler, Busy
  <2> QED
    BY <1>0, <1>2, <2>1, <2>2, SendingStays DEF Respond
<1>3. ASSUME NEW s \in Sessions, Disconnect(s) PROVE Sending(t)'
  <2>1. Busy(t) /\ s # t
    BY <1>3 DEF Disconnect, vars, Busy
  <2> QED
    BY <1>0, <1>3, <2>1, SendingStays DEF Disconnect
<1>4. CASE LeaseStep
  <2>1. Busy(t)
    BY <1>4 DEF LeaseStep, vars, Busy
  <2> QED
    BY <1>0, <1>4, <2>1, SendingStays
<1>5. CASE BackendStep
  <2>1. frames' = frames
    BY <1>5 DEF BackendStep, Producer, BrokerAppends, BrokerAcks, DeliveryFails, LateCommit, KeyExpires
  <2>2. Busy(t)
    BY <1>0, <2>1, IdleReceives
  <2> QED
    BY <1>0, <1>5, <2>2, SendingStays DEF BackendStep
<1>6. ASSUME NEW p \in Procs, TaskCrash(p) PROVE Sending(t)'
  <2>1. Busy(t) /\ ProcOf[t] # p
    BY <1>6 DEF TaskCrash, Crash, Busy, vars
  <2> QED
    BY <1>0, <1>6, <2>1, SendingStays DEF TaskCrash, OwnerCrash, Sending
<1>7. CASE UNCHANGED serviceVars
  BY <1>0, <1>7, SendingStays DEF serviceVars, vars, Busy, BusyIsSending
<1> QED
  BY <1>1, <1>2, <1>3, <1>4, <1>5, <1>6, <1>7 DEF ServiceNext

LEMMA BusyIsSendingInduction ==
    ServiceSpec => [](OwnerTypeOK /\ DurabilityInv /\ BusyIsSending)
<1>1. ServiceInit => BusyIsSending
  BY DEF ServiceInit, Init, BusyIsSending, Busy
<1>2. OwnerTypeOK /\ DurabilityInv /\ BusyIsSending /\ [ServiceNext]_serviceVars => BusyIsSending'
  BY BusyIsSendingStep DEF DurabilityInv
<1>3. ServiceSpec => [](OwnerTypeOK /\ DurabilityInv)
  BY ServiceKeepsLease, OwnerTypeCorrect, ServiceOrchestrates, DurabilityInduction, PTL
<1> QED
  BY <1>1, <1>2, <1>3, PTL DEF ServiceSpec

-----------------------------------------------------------------------------
\* While whoever may send holds the lease, a frame is received only when no
\* handler runs in any session: all of them would have to hold it.
LEMMA ReceivesAlone ==
    ASSUME TypeOK, SenderHoldsLease, BusyIsSending, [ServiceNext]_serviceVars,
           NEW s \in Sessions, Receive(s), NEW t \in Sessions
    PROVE  ~Busy(t)
<1>1. frames' # frames /\ ~Busy(s) /\ Busy(s)'
  BY DEF Receive, TypeOK, Goto, Busy
<1>2. Sending(s)
  <2>1. ASSUME NEW r \in Sessions, Handle(r) PROVE Sending(s)
    <3>1. CASE r = s
      BY <2>1, <3>1 DEF Handle
    <3>2. CASE r # s
      <4>1. step'[s] = step[s]
        BY <2>1, <3>2 DEF TypeOK, Handle, HandleMessage, Receive, FailValidation, Prepare,
           PrepareRaises, Enqueue, SendRefused, SendTimesOut, Commit, CommitRaises, Cleanup,
           Goto, Return
      <4> QED
        BY <4>1, <1>1 DEF Busy
    <3> QED
      BY <3>1, <3>2
  <2>2. ASSUME NEW r \in Sessions, Respond(r) \/ Disconnect(r) PROVE frames' = frames
    BY <2>2 DEF Respond, Reply, Disconnect, vars
  <2>3. LeaseStep \/ BackendStep \/ UNCHANGED serviceVars => frames' = frames
    BY DEF LeaseStep, BackendStep, Producer, BrokerAppends, BrokerAcks, DeliveryFails,
       LateCommit, KeyExpires, serviceVars, vars
  <2>4. ASSUME NEW p \in Procs, TaskCrash(p) PROVE frames' = frames
    BY <2>4 DEF TaskCrash, Crash, vars
  <2> QED
    BY <1>1, <2>1, <2>2, <2>3, <2>4 DEF ServiceNext
<1>3. ~Busy(t) \/ Sending(t)
  BY DEF BusyIsSending
<1> QED
  BY <1>1, <1>2, <1>3 DEF SenderHoldsLease

\* The orchestrator with one sender handles a frame the way it does with many ...
LEMMA SameHandler ==
    ASSUME NEW s \in Sessions, Handler(s), ~Receive(s)
    PROVE  SingleSenderOrchestrator!Handler(s)
<1>1. FailValidation(s) => SingleSenderOrchestrator!FailValidation(s)
  BY DEF FailValidation, SingleSenderOrchestrator!FailValidation, Return,
     SingleSenderOrchestrator!Return
<1>2. Prepare(s) => SingleSenderOrchestrator!Prepare(s)
  BY DEF Prepare, SingleSenderOrchestrator!Prepare, PrepareStatus,
     SingleSenderOrchestrator!PrepareStatus, Prepared,
     SingleSenderOrchestrator!Prepared, AckFor, SingleSenderOrchestrator!AckFor, Goto,
     SingleSenderOrchestrator!Goto, Return, SingleSenderOrchestrator!Return
<1>3. PrepareRaises(s) => SingleSenderOrchestrator!PrepareRaises(s)
  BY DEF PrepareRaises, SingleSenderOrchestrator!PrepareRaises, PrepareStatus,
     SingleSenderOrchestrator!PrepareStatus, Prepared,
     SingleSenderOrchestrator!Prepared, Return, SingleSenderOrchestrator!Return
<1>4. Enqueue(s) => SingleSenderOrchestrator!Enqueue(s)
  BY DEF Enqueue, SingleSenderOrchestrator!Enqueue, Goto, SingleSenderOrchestrator!Goto
<1>5. SendRefused(s) => SingleSenderOrchestrator!SendRefused(s)
  BY DEF SendRefused, SingleSenderOrchestrator!SendRefused, Return,
     SingleSenderOrchestrator!Return
<1>6. SendTimesOut(s) => SingleSenderOrchestrator!SendTimesOut(s)
  BY DEF SendTimesOut, SingleSenderOrchestrator!SendTimesOut, Abandon,
     SingleSenderOrchestrator!Abandon, Return, SingleSenderOrchestrator!Return
<1>7. Commit(s) => SingleSenderOrchestrator!Commit(s)
  BY DEF Commit, SingleSenderOrchestrator!Commit, Committed,
     SingleSenderOrchestrator!Committed, AckFor, SingleSenderOrchestrator!AckFor, Goto,
     SingleSenderOrchestrator!Goto, Return, SingleSenderOrchestrator!Return
<1>8. CommitRaises(s) => SingleSenderOrchestrator!CommitRaises(s)
  BY DEF CommitRaises, SingleSenderOrchestrator!CommitRaises, Committed,
     SingleSenderOrchestrator!Committed, Return, SingleSenderOrchestrator!Return
<1>9. Cleanup(s) => SingleSenderOrchestrator!Cleanup(s)
  BY DEF Cleanup, SingleSenderOrchestrator!Cleanup, Cleaned,
     SingleSenderOrchestrator!Cleaned, Exists, SingleSenderOrchestrator!Exists, AckFor,
     SingleSenderOrchestrator!AckFor, Return, SingleSenderOrchestrator!Return
<1>10. Reply(s) => SingleSenderOrchestrator!Reply(s)
  BY DEF Reply, SingleSenderOrchestrator!Reply, Acks, SingleSenderOrchestrator!Acks
<1> QED
  BY <1>1, <1>2, <1>3, <1>4, <1>5, <1>6, <1>7, <1>8, <1>9, <1>10
     DEF Handler, SingleSenderOrchestrator!Handler, HandleMessage, SingleSenderOrchestrator!HandleMessage

\* ... and so do the producers and a crash.
LEMMA SameProducer ==
    ASSUME NEW p \in Procs, Producer(p) \/ Crash(p)
    PROVE  SingleSenderOrchestrator!Producer(p) \/ SingleSenderOrchestrator!Crash(p)
<1>1. BrokerAppends(p) => SingleSenderOrchestrator!BrokerAppends(p)
  BY DEF BrokerAppends, SingleSenderOrchestrator!BrokerAppends, MarkStored,
     SingleSenderOrchestrator!MarkStored
<1>2. BrokerAcks(p) => SingleSenderOrchestrator!BrokerAcks(p)
  BY DEF BrokerAcks, SingleSenderOrchestrator!BrokerAcks, Goto,
     SingleSenderOrchestrator!Goto
<1>3. DeliveryFails(p) => SingleSenderOrchestrator!DeliveryFails(p)
  BY DEF DeliveryFails, SingleSenderOrchestrator!DeliveryFails, Return,
     SingleSenderOrchestrator!Return
<1>4. Crash(p) => SingleSenderOrchestrator!Crash(p)
  BY DEF Crash, SingleSenderOrchestrator!Crash, Busy, SingleSenderOrchestrator!Busy, InCommit,
     SingleSenderOrchestrator!InCommit
<1> QED
  BY <1>1, <1>2, <1>3, <1>4 DEF Producer, SingleSenderOrchestrator!Producer

\* Only a frame received while another one is handled would set the service apart
\* from an orchestrator with one sender.
LEMMA IsSingleSenderStep ==
    ASSUME TypeOK, SenderHoldsLease, BusyIsSending, [ServiceNext]_serviceVars
    PROVE  [SingleSenderOrchestrator!Next]_vars
<1>1. [Next]_vars
  BY IsOrchestratorStep
<1>2. ASSUME NEW s \in Sessions, Receive(s) PROVE SingleSenderOrchestrator!Receive(s)
  <2>1. \A t \in Sessions : ~Busy(t)
    BY <1>2, ReceivesAlone
  <2> QED
    BY <1>2, <2>1 DEF Receive, SingleSenderOrchestrator!Receive, Busy, SingleSenderOrchestrator!Busy, Goto,
       SingleSenderOrchestrator!Goto
<1>3. ASSUME NEW s \in Sessions, Handler(s) PROVE SingleSenderOrchestrator!Handler(s)
  BY <1>2, <1>3, SameHandler
     DEF SingleSenderOrchestrator!Handler, SingleSenderOrchestrator!HandleMessage
<1>4. KeyExpires => SingleSenderOrchestrator!KeyExpires
  BY DEF KeyExpires, SingleSenderOrchestrator!KeyExpires, Exists,
     SingleSenderOrchestrator!Exists, Absent, SingleSenderOrchestrator!Absent
<1>5. ASSUME NEW f \in Frames, LateCommit(f) PROVE SingleSenderOrchestrator!LateCommit(f)
  BY <1>5 DEF LateCommit, SingleSenderOrchestrator!LateCommit, Committed,
     SingleSenderOrchestrator!Committed
<1> QED
  BY <1>1, <1>3, <1>4, <1>5, SameProducer DEF Next, SingleSenderOrchestrator!Next

\* With a lease that is long enough the service is an orchestrator with one active
\* sender, through hand-overs, closes, lost releases and crashes: what
\* two_phase.py takes for granted is what ownership_guard.py provides.
THEOREM ServiceHasOneSender ==
    ASSUME LeaseLongEnough
    PROVE  ServiceSpec => ServesOneSender
<1>1. ServiceInit => SingleSenderOrchestrator!Init
  BY DEF ServiceInit, Init, SingleSenderOrchestrator!Init, Absent,
     SingleSenderOrchestrator!Absent, IdleFrame, SingleSenderOrchestrator!IdleFrame
<1>2. DurabilityInv /\ SenderHoldsLease /\ BusyIsSending /\ [ServiceNext]_serviceVars =>
        [SingleSenderOrchestrator!Next]_(SingleSenderOrchestrator!vars)
  BY IsSingleSenderStep DEF DurabilityInv, vars, SingleSenderOrchestrator!vars
<1> QED
  BY <1>1, <1>2, BusyIsSendingInduction, ServiceSenderIsOwner, PTL
     DEF ServiceSpec, ServesOneSender, SingleSenderOrchestrator!Spec

-----------------------------------------------------------------------------
\* So what the orchestrator guarantees with one sender and no commit lagging, the
\* service guarantees.
LEMMA ServiceOneHandlerInduction ==
    ASSUME LeaseLongEnough, ~CommitMayLag
    PROVE  ServiceSpec => [](DurabilityInv /\ OneHandler)
<1>1. ServiceInit => OneHandler
  BY DEF ServiceInit, Init, OneHandler, Busy
<1>2. ASSUME DurabilityInv, SenderHoldsLease, BusyIsSending, OneHandler,
             [ServiceNext]_serviceVars
      PROVE  OneHandler'
  <2>1. \A s \in Sessions : Receive(s) => \A t \in Sessions : ~Busy(t)
    BY <1>2, ReceivesAlone DEF DurabilityInv
  <2> QED
    BY <1>2, <2>1, IsOrchestratorStep, OneHandlerStep
<1>3. DurabilityInv /\ SenderHoldsLease /\ BusyIsSending /\ OneHandler
        /\ [ServiceNext]_serviceVars => OneHandler'
  BY <1>2
<1> QED
  BY <1>1, <1>3, BusyIsSendingInduction, ServiceSenderIsOwner, PTL DEF ServiceSpec

\* The unconditional SET of LUA_COMMIT never takes the conversation's expected
\* number back, if no commit outlives its call, although no script of the sequence key knows of the lease.
THEOREM ServiceNeverRegresses ==
    ASSUME LeaseLongEnough, ~CommitMayLag
    PROVE  ServiceSpec => SequenceAdvances
<1>1. DurabilityInv /\ OneHandler /\ [Next]_vars =>
        [key'.expected >= key.expected \/ ~Exists(key')]_vars
  BY AdvancesStep
<1> QED
  BY <1>1, ServiceOneHandlerInduction, ServiceOrchestrates, PTL
     DEF Spec, SequenceAdvances, ExpectedNeverRegresses

\* And with a key that outlives the call, a client of the service may retry
\* anything: no number Kafka holds is refused, none that was acknowledged is
\* produced again, and one whose send failed is accepted.
THEOREM ServiceRetriesAreSafe ==
    ASSUME LeaseLongEnough, ~CommitMayLag, ~KeyMayExpire
    PROVE  ServiceSpec => [](StoredNeverRefused /\ NoSendAfterAck /\ FailedSendIsRetryable)
<1>1. ServiceInit => KeyDominates
  BY DEF ServiceInit, Init, KeyDominates, Acks
<1>2. DurabilityInv /\ OneHandler /\ KeyDominates /\ [Next]_vars => KeyDominates'
  BY KeyDominatesStep
<1>3. ServiceSpec => [](DurabilityInv /\ OneHandler /\ KeyDominates)
  BY <1>1, <1>2, ServiceOneHandlerInduction, ServiceOrchestrates, PTL DEF Spec, ServiceSpec
<1> QED
  BY <1>3, DominatingKeyServesRetries, PTL
=============================================================================
