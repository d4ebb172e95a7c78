------------------------ MODULE TwoPhaseOrchestrator ------------------------
(***************************************************************************)
(* handle_message of orchestrator/two_phase.py for ONE conversation (all    *)
(* state it touches is keyed by conversationId), with the Redis sequence    *)
(* key, the Kafka partition the conversation hashes to, and the aiokafka    *)
(* accumulator of every service process.                                    *)
(*                                                                         *)
(* Every WebSocket session runs handle_message for one frame at a time;     *)
(* sessions interleave at each await: the Redis calls, producer.send and    *)
(* the reply.  A Redis call that raises may or may not have taken effect,   *)
(* and a commit may even do so later; a send whose caller timed out stays   *)
(* in the accumulator and may reach the broker later; a process may be      *)
(* killed at any point.                                                     *)
(***************************************************************************)
EXTENDS SessionsAndTasks, SequenceStateMachine, Integers, Sequences

CONSTANTS
    Frames,        \* the sequence number and event type of the frames clients may send
    MaxFrames,     \* bound: frames received in a behaviour
    SingleSender,  \* TRUE: the ownership guard keeps all but one session quiet
    KeyMayExpire,  \* TRUE: the sequence key may expire at any moment
    CommitMayLag   \* TRUE: a commit whose caller is gone may still be on its way to Redis

Events == {"SESSION_ONGOING", "SESSION_COMPLETE"}

ASSUME FramesAssumption == Frames \subseteq [seq : Nat, event : Events] /\ Frames # {}
ASSUME BoundAssumption == MaxFrames \in Nat
ASSUME SwitchAssumption ==
    SingleSender \in BOOLEAN /\ KeyMayExpire \in BOOLEAN /\ CommitMayLag \in BOOLEAN

Acks == {"TRANSCRIPT_ACK", "EOL_ACK"}

\* ProtocolErrorScenario members handle_message answers with; the members a
\* schema failure is classified into are one value here.
Errors == {"VALIDATION_FAILED", "SEQUENCE_OUT_OF_ORDER", "DOWNSTREAM_TIMEOUT",
           "DOWNSTREAM_UNAVAILABLE", "ORCHESTRATOR_INTERNAL_EXCEPTION"}

Results == Acks \cup Errors \cup {"none"}

\* Where a session's handler awaits; "receive" is the idle message loop.
Steps == {"receive", "prepare", "send", "sending", "commit", "cleanup", "reply"}

\* A record in an accumulator: who sent it, whether that caller still awaits
\* the delivery, and whether the broker has already appended it.
Entries == [session : Sessions, frame : Frames, awaited : BOOLEAN, stored : BOOLEAN]

\* What `frame' holds for a session that has not received anything yet.
IdleFrame == CHOOSE f \in Frames : TRUE

VARIABLES
    key,      \* the Redis sequence key
    late,     \* frames whose commit is on its way to Redis although its caller is gone
    topic,    \* the Kafka partition, oldest record first
    buffer,   \* [Procs -> Seq(Entries)], the accumulators
    step,     \* [Sessions -> Steps]
    frame,    \* [Sessions -> Frames], the frame being handled (the last one)
    result,   \* [Sessions -> Results], what handle_message returned
    acked,    \* history: frames whose success ACK was sent to a client
    frames    \* number of frames received so far

vars == <<key, late, topic, buffer, step, frame, result, acked, frames>>

Init ==
    /\ key = Absent
    /\ late = {}
    /\ topic = << >>
    /\ buffer = [p \in Procs |-> << >>]
    /\ step = [s \in Sessions |-> "receive"]
    /\ frame = [s \in Sessions |-> IdleFrame]
    /\ result = [s \in Sessions |-> "none"]
    /\ acked = {}
    /\ frames = 0

-----------------------------------------------------------------------------
Busy(s) == step[s] # "receive"

\* Faulty variant of AckFor: the ACK echoes the request's event type.
EchoingAckFor(f) == f.event

\* _build_success_ack: the ACK that matches the event type.
AckFor(f) == IF f.event = "SESSION_COMPLETE" THEN "EOL_ACK" ELSE "TRANSCRIPT_ACK"

Goto(s, l) == step' = [step EXCEPT ![s] = l] /\ UNCHANGED result

Return(s, r) ==
    /\ step' = [step EXCEPT ![s] = "reply"]
    /\ result' = [result EXCEPT ![s] = r]

\* The message loop reads a frame and calls handle_message.
Receive(s) ==
    /\ ~Busy(s)
    /\ SingleSender => \A t \in Sessions : ~Busy(t)
    /\ frames < MaxFrames
    /\ frames' = frames + 1
    /\ \E f \in Frames : frame' = [frame EXCEPT ![s] = f]
    /\ Goto(s, "prepare")
    /\ UNCHANGED <<key, late, topic, buffer, acked>>

\* Scenario D: schema validation fails before any downstream call.  The fields
\* it rejects are not modelled, so it may fail on any frame.
FailValidation(s) ==
    /\ step[s] = "prepare"
    /\ Return(s, "VALIDATION_FAILED")
    /\ UNCHANGED <<key, late, topic, buffer, frame, acked, frames>>

\* The prepare script answers: go on (A), ACK a replay (B) or refuse (C).
Prepare(s) ==
    LET status == PrepareStatus(key, frame[s].seq) IN
    /\ step[s] = "prepare"
    /\ key' = Prepared(key, frame[s].seq)
    /\ \/ status = "PRE_CHECK_OK" /\ Goto(s, "send")
       \/ status = "IDEMPOTENT" /\ Return(s, AckFor(frame[s]))
       \/ status = "OUT_OF_ORDER" /\ Return(s, "SEQUENCE_OUT_OF_ORDER")
    /\ UNCHANGED <<late, topic, buffer, frame, acked, frames>>

\* Scenario F: the prepare call raises, with or without having run the script.
PrepareRaises(s) ==
    /\ step[s] = "prepare"
    /\ key' \in {key, Prepared(key, frame[s].seq)}
    /\ Return(s, "ORCHESTRATOR_INTERNAL_EXCEPTION")
    /\ UNCHANGED <<late, topic, buffer, frame, acked, frames>>

-----------------------------------------------------------------------------
\* wait_for cancels the wait of session s; its records stay where they are.
Abandon(b, s) ==
    [i \in DOMAIN b |-> IF b[i].session = s THEN [b[i] EXCEPT !.awaited = FALSE] ELSE b[i]]

MarkStored(b) == [b EXCEPT ![1] = [@ EXCEPT !.stored = TRUE]]

\* Faulty variant of Enqueue: the record is queued and its delivery not awaited.
FireAndForgetEnqueue(s) ==
    LET entry == [session |-> s, frame |-> frame[s], awaited |-> FALSE, stored |-> FALSE] IN
    /\ step[s] = "send"
    /\ buffer' = [buffer EXCEPT ![ProcOf[s]] = Append(@, entry)]
    /\ Goto(s, "commit")
    /\ UNCHANGED <<key, late, topic, frame, acked, frames>>

\* producer.send puts the record in the accumulator and awaits its delivery.
Enqueue(s) ==
    LET entry == [session |-> s, frame |-> frame[s], awaited |-> TRUE, stored |-> FALSE] IN
    /\ step[s] = "send"
    /\ buffer' = [buffer EXCEPT ![ProcOf[s]] = Append(@, entry)]
    /\ Goto(s, "sending")
    /\ UNCHANGED <<key, late, topic, frame, acked, frames>>

\* Before the record is queued the producer cannot start or waits for metadata beyond
\* send_timeout_sec (scenario E), or the conversion to the Kafka payload raises, which
\* the caller answers as an internal error.
SendRefused(s) ==
    /\ step[s] = "send"
    /\ \E r \in {"DOWNSTREAM_TIMEOUT", "DOWNSTREAM_UNAVAILABLE",
                 "ORCHESTRATOR_INTERNAL_EXCEPTION"} : Return(s, r)
    /\ UNCHANGED <<key, late, topic, buffer, frame, acked, frames>>

\* Faulty variant of SendTimesOut: the timeout falls through to the commit.
CommittingSendTimesOut(s) ==
    /\ step[s] = "sending"
    /\ buffer' = [buffer EXCEPT ![ProcOf[s]] = Abandon(@, s)]
    /\ Goto(s, "commit")
    /\ UNCHANGED <<key, late, topic, frame, acked, frames>>

\* Scenario E: send_timeout_sec passes, the delivery still pending or unanswered.
SendTimesOut(s) ==
    /\ step[s] = "sending"
    /\ buffer' = [buffer EXCEPT ![ProcOf[s]] = Abandon(@, s)]
    /\ Return(s, "DOWNSTREAM_TIMEOUT")
    /\ UNCHANGED <<key, late, topic, frame, acked, frames>>

\* The leader appends the oldest record of an accumulator (acks=all, one
\* request in flight, idempotent producer: in order, never twice).
BrokerAppends(p) ==
    /\ buffer[p] # << >>
    /\ ~Head(buffer[p]).stored
    /\ topic' = Append(topic, Head(buffer[p]).frame)
    /\ buffer' = [buffer EXCEPT ![p] = MarkStored(@)]
    /\ UNCHANGED <<key, late, step, frame, result, acked, frames>>

\* The broker's acknowledgement resolves the caller that still awaits it.
BrokerAcks(p) ==
    LET e == Head(buffer[p]) IN
    /\ buffer[p] # << >>
    /\ e.stored
    /\ buffer' = [buffer EXCEPT ![p] = Tail(@)]
    /\ IF e.awaited THEN Goto(e.session, "commit") ELSE UNCHANGED <<step, result>>
    /\ UNCHANGED <<key, late, topic, frame, acked, frames>>

\* Scenario E: aiokafka gives the record up, although it may have been stored.
DeliveryFails(p) ==
    LET e == Head(buffer[p]) IN
    /\ buffer[p] # << >>
    /\ buffer' = [buffer EXCEPT ![p] = Tail(@)]
    /\ IF e.awaited THEN Return(e.session, "DOWNSTREAM_UNAVAILABLE")
                    ELSE UNCHANGED <<step, result>>
    /\ UNCHANGED <<key, late, topic, frame, acked, frames>>

-----------------------------------------------------------------------------
\* Faulty variant of Commit: cleanup follows every event.
AlwaysCleaningCommit(s) ==
    /\ step[s] = "commit"
    /\ key' = Committed(key, frame[s].seq)
    /\ Goto(s, "cleanup")
    /\ UNCHANGED <<late, topic, buffer, frame, acked, frames>>

\* The commit script runs; SESSION_COMPLETE goes on to cleanup.
Commit(s) ==
    /\ step[s] = "commit"
    /\ key' = Committed(key, frame[s].seq)
    /\ IF frame[s].event = "SESSION_COMPLETE"
         THEN Goto(s, "cleanup")
         ELSE Return(s, AckFor(frame[s]))
    /\ UNCHANGED <<late, topic, buffer, frame, acked, frames>>

\* Scenario F: the commit call raises, the script having run, never to run, or on
\* its way.  (A prepare or cleanup on its way could only set a TTL.)
CommitRaises(s) ==
    /\ step[s] = "commit"
    /\ \/ key' \in {key, Committed(key, frame[s].seq)} /\ UNCHANGED late
       \/ CommitMayLag /\ late' = late \cup {frame[s]} /\ UNCHANGED key
    /\ Return(s, "ORCHESTRATOR_INTERNAL_EXCEPTION")
    /\ UNCHANGED <<topic, buffer, frame, acked, frames>>

\* A commit nobody waits for any more reaches Redis; another one of the same frame
\* may be behind it.
LateCommit(f) ==
    /\ f \in late
    /\ key' = Committed(key, f.seq)
    /\ late' \in {late, late \ {f}}
    /\ UNCHANGED <<topic, buffer, step, frame, result, acked, frames>>

\* Scenario G: cleanup runs, or fails and is downgraded to the same ACK.
Cleanup(s) ==
    /\ step[s] = "cleanup"
    /\ key' \in {key, Cleaned(key)}
    /\ Return(s, AckFor(frame[s]))
    /\ UNCHANGED <<late, topic, buffer, frame, acked, frames>>

\* The session sends the response frame, or finds its client gone.
Reply(s) ==
    /\ step[s] = "reply"
    /\ acked' \in {acked, IF result[s] \in Acks THEN acked \cup {frame[s]} ELSE acked}
    /\ step' = [step EXCEPT ![s] = "receive"]
    /\ result' = [result EXCEPT ![s] = "none"]
    /\ UNCHANGED <<key, late, topic, buffer, frame, frames>>

-----------------------------------------------------------------------------
\* The active or final TTL of the key elapses.
KeyExpires ==
    /\ KeyMayExpire
    /\ Exists(key)
    /\ key' = Absent
    /\ UNCHANGED <<late, topic, buffer, step, frame, result, acked, frames>>

\* The frames task p has sent a commit for and had no answer to.
InCommit(p) == {frame[s] : s \in {t \in Sessions : ProcOf[t] = p /\ step[t] = "commit"}}

\* A task is killed: its sessions vanish and its accumulator is lost.
Crash(p) ==
    /\ \/ buffer[p] # << >>
       \/ \E s \in Sessions : ProcOf[s] = p /\ Busy(s)
    /\ buffer' = [buffer EXCEPT ![p] = << >>]
    /\ step' = [s \in Sessions |-> IF ProcOf[s] = p THEN "receive" ELSE step[s]]
    /\ result' = [s \in Sessions |-> IF ProcOf[s] = p THEN "none" ELSE result[s]]
    /\ \E F \in SUBSET InCommit(p) : (F # {} => CommitMayLag) /\ late' = late \cup F
    /\ UNCHANGED <<key, topic, frame, acked, frames>>

HandleMessage(s) ==
    \/ Receive(s) \/ FailValidation(s)
    \/ Prepare(s) \/ PrepareRaises(s)
    \/ Enqueue(s) \/ SendRefused(s) \/ SendTimesOut(s)
    \/ Commit(s) \/ CommitRaises(s) \/ Cleanup(s)

Handler(s) == HandleMessage(s) \/ Reply(s)

Producer(p) == BrokerAppends(p) \/ BrokerAcks(p) \/ DeliveryFails(p)

Next ==
    \/ \E s \in Sessions : Handler(s)
    \/ \E p \in Procs : Producer(p) \/ Crash(p)
    \/ \E f \in Frames : LateCommit(f)
    \/ KeyExpires

Spec == Init /\ [][Next]_vars

-----------------------------------------------------------------------------
(***************************************************************************)
(* Properties                                                              *)
(***************************************************************************)

\* Every variable keeps the shape the code gives it.
TypeOK ==
    /\ key \in Keys
    /\ late \in SUBSET Frames
    /\ topic \in Seq(Frames)
    /\ buffer \in [Procs -> Seq(Entries)]
    /\ step \in [Sessions -> Steps]
    /\ frame \in [Sessions -> Frames]
    /\ result \in [Sessions -> Results]
    /\ acked \in SUBSET Frames
    /\ frames \in Nat

\* The partition holds a record with sequence number n.
Stored(n) == \E i \in DOMAIN topic : topic[i].seq = n

\* Zero loss: an ACK is sent only for a sequence number Kafka has persisted
\* (two_phase.py: ACK after commit after producer.send, or an idempotent hit).
AckedIsStored == \A f \in acked : Stored(f.seq)

\* Redis never runs ahead of Kafka: everything below the expected sequence
\* number is in the partition, whatever raised, expired, crashed or arrived late.
RedisBehindKafka == \A n \in 0..(key.expected - 1) : Stored(n)

\* The partition never shows a sequence number before all smaller ones have
\* appeared: a consumer that drops duplicates reads the transcript in order.
TopicInOrder ==
    \A i \in DOMAIN topic : \A n \in 0..(topic[i].seq - 1) :
        \E j \in 1..(i - 1) : topic[j].seq = n

\* The TTL is shortened only once SESSION_COMPLETE has been persisted
\* (two_phase.py:241, cleanup only for that event and only after commit).
FinalTtlOnlyAfterComplete ==
    key.ttl = "final" => \E i \in DOMAIN topic : topic[i].event = "SESSION_COMPLETE"

\* With one active sender and no commit lagging, the expected sequence number never
\* moves back except by the key's expiry, although LUA_COMMIT overwrites it unconditionally.
ExpectedNeverRegresses ==
    [][key'.expected >= key.expected \/ ~Exists(key')]_vars

\* With one active sender, a live key and no commit lagging, a sequence number Kafka
\* holds is never answered with E1006: after a timeout, a failed send or a failed commit the
\* client's retry of it is accepted or acknowledged (lossless retry).
StoredNeverRefused ==
    \A s \in Sessions :
        result[s] = "SEQUENCE_OUT_OF_ORDER" => ~Stored(frame[s].seq)

\* With one active sender, a live key and no commit lagging, a sequence number
\* already acknowledged to the client is never handed to the producer again.
NoSendAfterAck ==
    \A s \in Sessions :
        step[s] \in {"send", "sending"} => \A f \in acked : f.seq # frame[s].seq

\* With one active sender, a live key and no commit lagging, a send that failed or
\* timed out leaves its own sequence number expected, so the retry passes prepare.
FailedSendIsRetryable ==
    \A s \in Sessions :
        result[s] \in {"DOWNSTREAM_TIMEOUT", "DOWNSTREAM_UNAVAILABLE"} =>
            PrepareStatus(key, frame[s].seq) = "PRE_CHECK_OK"

\* When every client gives a sequence number one event type, an EOL_ACK means
\* that the SESSION_COMPLETE record itself is in the partition.
EolAckMeansEolStored ==
    \A f \in acked : f.event = "SESSION_COMPLETE" =>
        \E i \in DOMAIN topic : topic[i] = f

-----------------------------------------------------------------------------
(***************************************************************************)
(* The strengthening that makes the properties inductive.                   *)
(***************************************************************************)

Persisted(f) == \E i \in DOMAIN topic : topic[i] = f

\* Every sequence number below n is in the partition.
StoredBelow(n) == \A m \in 0..(n - 1) : Stored(m)

\* A record is queued only after prepare accepted it, and only the session whose
\* handler is suspended in that very send awaits it.
EntryInv(p, e) ==
    /\ ProcOf[e.session] = p
    /\ StoredBelow(e.frame.seq)
    /\ e.stored => Persisted(e.frame)
    /\ e.awaited => step[e.session] = "sending" /\ frame[e.session] = e.frame

BufferInv == \A p \in Procs : \A i \in DOMAIN buffer[p] : EntryInv(p, buffer[p][i])

AwaitedOnce ==
    \A p \in Procs : \A i, j \in DOMAIN buffer[p] :
        /\ buffer[p][i].awaited /\ buffer[p][j].awaited
        /\ buffer[p][i].session = buffer[p][j].session
        => i = j

\* What a handler may rely on at each await.
SessionInv(s) ==
    /\ step[s] \in {"send", "sending", "commit", "cleanup"} => StoredBelow(frame[s].seq)
    /\ step[s] \in {"commit", "cleanup"} => Persisted(frame[s])
    /\ step[s] = "cleanup" => frame[s].event = "SESSION_COMPLETE"
    /\ result[s] \in Acks => Stored(frame[s].seq)
    /\ result[s] # "none" => step[s] = "reply"

HandlerInv == \A s \in Sessions : SessionInv(s)

\* Whenever a lagging commit arrives, it promises no more than Kafka holds.
LateInv == \A f \in late : CommitMayLag /\ StoredBelow(f.seq) /\ Persisted(f)

DurabilityInv ==
    /\ TypeOK /\ BufferInv /\ AwaitedOnce /\ HandlerInv /\ LateInv
    /\ AckedIsStored /\ RedisBehindKafka /\ TopicInOrder /\ FinalTtlOnlyAfterComplete

\* What a single active sender adds: one handler runs at a time, and nobody moves
\* the key past its frame.
OneHandler ==
    /\ \A s, t \in Sessions : Busy(s) /\ Busy(t) => s = t
    /\ \A s \in Sessions :
         step[s] \in {"send", "sending", "commit"} => key.expected <= frame[s].seq

\* What a key that does not expire adds: it dominates everything ever accepted.
KeyDominates ==
    /\ \A i \in DOMAIN topic : topic[i].seq <= key.expected
    /\ \A p \in Procs : \A i \in DOMAIN buffer[p] : buffer[p][i].frame.seq <= key.expected
    /\ \A f \in acked : f.seq < key.expected
    /\ \A s \in Sessions :
         /\ step[s] \in {"send", "sending", "commit"} => key.expected = frame[s].seq
         /\ step[s] = "cleanup" \/ result[s] \in Acks => frame[s].seq < key.expected
         /\ result[s] = "SEQUENCE_OUT_OF_ORDER" => key.expected < frame[s].seq
         /\ result[s] \in {"DOWNSTREAM_TIMEOUT", "DOWNSTREAM_UNAVAILABLE"} =>
              key.expected = frame[s].seq

-----------------------------------------------------------------------------
Promise == INSTANCE LosslessTranscript

\* The handlers, processes and failures of this module show the outside no more
\* than LosslessTranscript allows: persisted in order, acknowledged if persisted.
KeepsPromise == Promise!Spec
=============================================================================
