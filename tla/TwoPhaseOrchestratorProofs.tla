--------------------- MODULE TwoPhaseOrchestratorProofs ---------------------
(***************************************************************************)
(* Theorems of TwoPhaseOrchestrator, for every set of sessions, processes   *)
(* and frames and every bound on the number of frames.                      *)
(***************************************************************************)
EXTENDS TwoPhaseOrchestrator, SequenceTheorems, TLAPS

LEMMA EntryFacts ==
    ASSUME NEW e \in Entries
    PROVE  /\ e.session \in Sessions /\ e.frame \in Frames /\ e.frame.seq \in Nat
           /\ e.awaited \in BOOLEAN /\ e.stored \in BOOLEAN
BY FramesAssumption DEF Entries

\* What the producer's operations do to an accumulator, entry by entry.
LEMMA BufferOps ==
    ASSUME NEW b \in Seq(Entries)
    PROVE  /\ Len(b) \in Nat
           /\ DOMAIN b = 1..Len(b)
           /\ \A i \in DOMAIN b : b[i] \in Entries
           /\ \A e \in Entries :
                /\ Append(b, e) \in Seq(Entries)
                /\ DOMAIN Append(b, e) = 1..(Len(b) + 1)
                /\ \A i \in 1..(Len(b) + 1) :
                     Append(b, e)[i] = IF i = Len(b) + 1 THEN e ELSE b[i]
BY LenProperties, ElementOfSeq

LEMMA HeadOps ==
    ASSUME NEW b \in Seq(Entries), b # << >>
    PROVE  /\ 1 \in DOMAIN b
           /\ Head(b) = b[1]
           /\ Head(b) \in Entries
           /\ Tail(b) \in Seq(Entries)
           /\ DOMAIN Tail(b) = 1..(Len(b) - 1)
           /\ \A i \in DOMAIN Tail(b) : i + 1 \in DOMAIN b /\ Tail(b)[i] = b[i + 1]
           /\ MarkStored(b) \in Seq(Entries)
           /\ DOMAIN MarkStored(b) = DOMAIN b
           /\ \A i \in DOMAIN b :
                /\ MarkStored(b)[i].session = b[i].session
                /\ MarkStored(b)[i].frame = b[i].frame
                /\ MarkStored(b)[i].awaited = b[i].awaited
                /\ i # 1 => MarkStored(b)[i].stored = b[i].stored
<1>1. /\ Len(b) \in Nat \ {0}
      /\ DOMAIN b = 1..Len(b)
      /\ b \in [1..Len(b) -> Entries]
  BY EmptySeq, LenProperties
<1>2. 1 \in DOMAIN b /\ Head(b) = b[1] /\ Head(b) \in Entries
  BY <1>1
<1>3. /\ Tail(b) \in Seq(Entries)
      /\ DOMAIN Tail(b) = 1..(Len(b) - 1)
      /\ \A i \in DOMAIN Tail(b) : i + 1 \in DOMAIN b /\ Tail(b)[i] = b[i + 1]
  BY <1>1, HeadTailProperties, LenProperties
<1>4. [b[1] EXCEPT !.stored = TRUE] \in Entries
  BY <1>2 DEF Entries
<1>5. MarkStored(b) = [b EXCEPT ![1] = [b[1] EXCEPT !.stored = TRUE]]
  BY <1>1 DEF MarkStored
<1>6. MarkStored(b) \in Seq(Entries)
  BY <1>1, <1>4, <1>5, ExceptSeq
<1>7. DOMAIN MarkStored(b) = DOMAIN b
  BY <1>5
<1>8. \A i \in DOMAIN b : MarkStored(b)[i] = IF i = 1 THEN [b[1] EXCEPT !.stored = TRUE] ELSE b[i]
  BY <1>1, <1>5
<1>9. ASSUME NEW i \in DOMAIN b
      PROVE  /\ MarkStored(b)[i].session = b[i].session
             /\ MarkStored(b)[i].frame = b[i].frame
             /\ MarkStored(b)[i].awaited = b[i].awaited
             /\ i # 1 => MarkStored(b)[i].stored = b[i].stored
  <2>1. b[i] \in Entries
    BY <1>1
  <2> QED
    BY <1>8, <2>1 DEF Entries
<1> QED
  BY <1>2, <1>3, <1>6, <1>7, <1>9

LEMMA AbandonOps ==
    ASSUME NEW b \in Seq(Entries), NEW s \in Sessions
    PROVE  /\ Abandon(b, s) \in Seq(Entries)
           /\ DOMAIN Abandon(b, s) = DOMAIN b
           /\ \A i \in DOMAIN b :
                /\ Abandon(b, s)[i].session = b[i].session
                /\ Abandon(b, s)[i].frame = b[i].frame
                /\ Abandon(b, s)[i].stored = b[i].stored
                /\ Abandon(b, s)[i].awaited = (b[i].awaited /\ b[i].session # s)
<1>1. DOMAIN b = 1..Len(b) /\ Len(b) \in Nat /\ b \in [1..Len(b) -> Entries]
  BY LenProperties
<1>2. Abandon(b, s) \in [1..Len(b) -> Entries]
  BY <1>1 DEF Abandon, Entries
<1>3. Abandon(b, s) \in Seq(Entries)
  BY <1>1, <1>2, SeqDef
<1>4. ASSUME NEW i \in DOMAIN b
      PROVE  /\ Abandon(b, s)[i].session = b[i].session
             /\ Abandon(b, s)[i].frame = b[i].frame
             /\ Abandon(b, s)[i].stored = b[i].stored
             /\ Abandon(b, s)[i].awaited = (b[i].awaited /\ b[i].session # s)
  <2>1. b[i] \in Entries
    BY <1>1
  <2>2. Abandon(b, s)[i] =
            IF b[i].session = s THEN [b[i] EXCEPT !.awaited = FALSE] ELSE b[i]
    BY DEF Abandon
  <2>3. CASE b[i].session = s
    BY <2>1, <2>2, <2>3 DEF Entries
  <2>4. CASE b[i].session # s
    BY <2>1, <2>2, <2>4 DEF Entries
  <2> QED
    BY <2>3, <2>4
<1> QED
  BY <1>1, <1>3, <1>4 DEF Abandon

\* The Lua scripts return keys.
LEMMA KeyOps ==
    ASSUME NEW k \in Keys, NEW n \in Nat
    PROVE  /\ Prepared(k, n) \in Keys
           /\ Committed(k, n) \in Keys
           /\ Cleaned(k) \in Keys
           /\ Absent \in Keys
<1>1. Prepared(k, n) \in Keys
  BY DEF Keys, TTLs, Prepared
<1>2. Committed(k, n) \in Keys
  BY DEF Keys, TTLs, Committed
<1>3. Cleaned(k) \in Keys
  BY DEF Keys, TTLs, Cleaned
<1>4. Absent \in Keys
  BY DEF Keys, TTLs, Absent
<1> QED
  BY <1>1, <1>2, <1>3, <1>4

-----------------------------------------------------------------------------
\* Every step keeps every variable in its type.
LEMMA TypeStep == TypeOK /\ [Next]_vars => TypeOK'
<1> USE SessionAssumption, FramesAssumption, BoundAssumption
<1> SUFFICES ASSUME TypeOK, [Next]_vars PROVE TypeOK'
  OBVIOUS
<1> USE DEF TypeOK
<1>0. \A f \in Frames : f.seq \in Nat /\ f.event \in Events /\ AckFor(f) \in Results
  BY DEF AckFor, Results, Acks
<1>1. ASSUME NEW s \in Sessions, Receive(s) PROVE TypeOK'
  BY <1>1 DEF Receive, Goto, Steps
<1>2. ASSUME NEW s \in Sessions, FailValidation(s) PROVE TypeOK'
  BY <1>2 DEF FailValidation, Return, Steps, Results, Errors
<1>3. ASSUME NEW s \in Sessions, Prepare(s) PROVE TypeOK'
  BY <1>3, <1>0, KeyOps DEF Prepare, Goto, Return, Steps, Results, Errors
<1>4. ASSUME NEW s \in Sessions, PrepareRaises(s) PROVE TypeOK'
  BY <1>4, <1>0, KeyOps DEF PrepareRaises, Return, Steps, Results, Errors
<1>5. ASSUME NEW s \in Sessions, Enqueue(s) PROVE TypeOK'
  <2>1. [session |-> s, frame |-> frame[s], awaited |-> TRUE, stored |-> FALSE] \in Entries
    BY DEF Entries
  <2> QED
    BY <1>5, <2>1, BufferOps DEF Enqueue, Goto, Steps
<1>6. ASSUME NEW s \in Sessions, SendRefused(s) PROVE TypeOK'
  BY <1>6 DEF SendRefused, Return, Steps, Results, Errors
<1>7. ASSUME NEW s \in Sessions, SendTimesOut(s) PROVE TypeOK'
  BY <1>7, AbandonOps DEF SendTimesOut, Return, Steps, Results, Errors
<1>8. ASSUME NEW s \in Sessions, Commit(s) PROVE TypeOK'
  <2>1. key' \in Keys
    BY <1>8, <1>0, KeyOps DEF Commit
  <2>2. step' \in [Sessions -> Steps] /\ result' \in [Sessions -> Results]
    <3>1. CASE frame[s].event = "SESSION_COMPLETE"
      BY <1>8, <3>1 DEF Commit, Goto, Steps
    <3>2. CASE frame[s].event # "SESSION_COMPLETE"
      <4>1. AckFor(frame[s]) \in Results
        BY <1>0
      <4>2. Return(s, AckFor(frame[s]))
        BY <1>8, <3>2 DEF Commit
      <4> QED
        BY <4>1, <4>2 DEF Return, Steps
    <3> QED
      BY <3>1, <3>2
  <2> QED
    BY <1>8, <2>1, <2>2 DEF Commit
<1>9. ASSUME NEW s \in Sessions, CommitRaises(s) PROVE TypeOK'
  BY <1>9, <1>0, KeyOps DEF CommitRaises, Return, Steps, Results, Errors
<1>10. ASSUME NEW s \in Sessions, Cleanup(s) PROVE TypeOK'
  BY <1>10, <1>0, KeyOps DEF Cleanup, Return, Steps
<1>11. ASSUME NEW s \in Sessions, Reply(s) PROVE TypeOK'
  BY <1>11 DEF Reply, Steps, Results
<1>12. ASSUME NEW p \in Procs, BrokerAppends(p) PROVE TypeOK'
  <2>1. Head(buffer[p]).frame \in Frames
    BY <1>12, HeadOps DEF BrokerAppends, Entries
  <2> QED
    <3>1. topic' \in Seq(Frames)
      BY <1>12, <2>1 DEF BrokerAppends
    <3>2. buffer' \in [Procs -> Seq(Entries)]
      <4>1. MarkStored(buffer[p]) \in Seq(Entries)
        BY <1>12, HeadOps DEF BrokerAppends
      <4> QED
        BY <1>12, <4>1 DEF BrokerAppends
    <3> QED
      BY <1>12, <3>1, <3>2 DEF BrokerAppends
<1>13. ASSUME NEW p \in Procs, BrokerAcks(p) PROVE TypeOK'
  <2>1. Head(buffer[p]).session \in Sessions
    BY <1>13, HeadOps DEF BrokerAcks, Entries
  <2> QED
    BY <1>13, <2>1, HeadOps DEF BrokerAcks, Goto, Steps
<1>14. ASSUME NEW p \in Procs, DeliveryFails(p) PROVE TypeOK'
  <2>1. Head(buffer[p]).session \in Sessions
    BY <1>14, HeadOps DEF DeliveryFails, Entries
  <2> QED
    BY <1>14, <2>1, HeadOps DEF DeliveryFails, Return, Steps, Results, Errors
<1>15. ASSUME NEW p \in Procs, Crash(p) PROVE TypeOK'
  BY <1>15 DEF Crash, InCommit, Steps, Results
<1>16. ASSUME KeyExpires PROVE TypeOK'
  BY <1>16, KeyOps DEF KeyExpires, Keys, TTLs, Absent
<1>17. ASSUME UNCHANGED vars PROVE TypeOK'
  BY <1>17 DEF vars
<1>18. ASSUME NEW f \in Frames, LateCommit(f) PROVE TypeOK'
  BY <1>18, <1>0, KeyOps DEF LateCommit
<1> QED
  BY <1>1, <1>2, <1>3, <1>4, <1>5, <1>6, <1>7, <1>8, <1>9, <1>10, <1>11, <1>12,
     <1>13, <1>14, <1>15, <1>16, <1>17, <1>18 DEF Next, Handler, HandleMessage, Producer

\* Type correctness: no handler, producer or failure step leaves the state space
\* the module declares.
THEOREM TypeCorrect == Spec => []TypeOK
<1>1. Init => TypeOK
  BY SessionAssumption, FramesAssumption, BoundAssumption, KeyOps
     DEF Init, TypeOK, Steps, Results, Acks, Errors, IdleFrame, Keys, TTLs, Absent
<1> QED
  BY <1>1, TypeStep, PTL DEF Spec

-----------------------------------------------------------------------------
\* The partition only grows, one frame at a time.
LEMMA TopicGrows ==
    ASSUME TypeOK, [Next]_vars
    PROVE  \A i \in DOMAIN topic : i \in DOMAIN topic' /\ topic'[i] = topic[i]
<1>1. CASE topic' = topic
  BY <1>1
<1>2. ASSUME NEW p \in Procs, BrokerAppends(p)
      PROVE  \A i \in DOMAIN topic : i \in DOMAIN topic' /\ topic'[i] = topic[i]
  <2>1. Head(buffer[p]).frame \in Frames
    BY <1>2, HeadOps DEF BrokerAppends, Entries, TypeOK
  <2> QED
    BY <1>2, <2>1, LenProperties, AppendProperties DEF BrokerAppends, TypeOK
<1>3. topic' = topic \/ \E p \in Procs : BrokerAppends(p)
  BY DEF Next, vars, Handler, HandleMessage, Producer, Receive, FailValidation, Prepare, PrepareRaises,
         Enqueue, SendRefused, SendTimesOut, Commit, CommitRaises, Cleanup, Reply,
         BrokerAcks, DeliveryFails, LateCommit, Crash, KeyExpires
<1> QED
  BY <1>1, <1>2, <1>3

\* ... so what is stored stays stored.
LEMMA StoredStays ==
    ASSUME TypeOK, [Next]_vars
    PROVE  /\ \A n : Stored(n) => Stored(n)'
           /\ \A f : Persisted(f) => Persisted(f)'
           /\ \A n \in Nat : StoredBelow(n) => StoredBelow(n)'
BY TopicGrows DEF Stored, Persisted, StoredBelow

-----------------------------------------------------------------------------
\* The accumulators: only prepared frames are queued, and an awaited record has
\* its handler suspended in the very send that queued it.
LEMMA BufferStep ==
    ASSUME DurabilityInv, [Next]_vars
    PROVE  BufferInv' /\ AwaitedOnce'
<1> USE SessionAssumption DEF DurabilityInv
<1>0. TypeOK /\ BufferInv /\ AwaitedOnce
  OBVIOUS
<1>1. \A p \in Procs : buffer[p] \in Seq(Entries)
  BY DEF TypeOK
<1>2. \A p \in Procs : \A i \in DOMAIN buffer[p] :
        /\ buffer[p][i] \in Entries
        /\ buffer[p][i].session \in Sessions
        /\ buffer[p][i].frame.seq \in Nat
  BY <1>1, LenProperties, ElementOfSeq, EntryFacts
\* An entry of the next state that differs from one of this state at most in
\* being stored or no longer awaited.
<1>3. ASSUME NEW p \in Procs, NEW i \in DOMAIN buffer[p], NEW e,
             e.session = buffer[p][i].session,
             e.frame = buffer[p][i].frame,
             e.stored => buffer[p][i].stored \/ Persisted(e.frame)',
             e.awaited =>
                /\ buffer[p][i].awaited
                /\ step'[e.session] = step[e.session]
                /\ frame'[e.session] = frame[e.session]
      PROVE  /\ ProcOf[e.session] = p
             /\ StoredBelow(e.frame.seq)'
             /\ e.stored => Persisted(e.frame)'
             /\ e.awaited => step'[e.session] = "sending" /\ frame'[e.session] = e.frame
  <2>1. EntryInv(p, buffer[p][i])
    BY <1>0 DEF BufferInv
  <2>2. StoredBelow(e.frame.seq)
    BY <2>1, <1>3 DEF EntryInv
  <2>3. StoredBelow(e.frame.seq)'
    BY <2>2, <1>0, <1>2, <1>3, StoredStays
  <2>4. buffer[p][i].stored => Persisted(e.frame)'
    BY <2>1, <1>0, <1>3, StoredStays DEF EntryInv
  <2> QED
    BY <2>1, <2>3, <2>4, <1>3 DEF EntryInv
\* Steps that leave the accumulators and every awaited send alone.
<1>4. ASSUME buffer' = buffer,
             \A t \in Sessions : step[t] = "sending" =>
                step'[t] = step[t] /\ frame'[t] = frame[t]
      PROVE  BufferInv' /\ AwaitedOnce'
  <2>1. BufferInv'
    <3> SUFFICES ASSUME NEW p \in Procs, NEW i \in DOMAIN buffer[p]
                 PROVE  EntryInv(p, buffer[p][i])'
      BY <1>4 DEF BufferInv
    <3>1. EntryInv(p, buffer[p][i])
      BY <1>0 DEF BufferInv
    <3> QED
      BY <1>2, <1>3, <1>4, <3>1 DEF EntryInv
  <2>2. AwaitedOnce'
    BY <1>0, <1>4 DEF AwaitedOnce
  <2> QED
    BY <2>1, <2>2
<1>5. ASSUME NEW s \in Sessions, Enqueue(s)
      PROVE  BufferInv' /\ AwaitedOnce'
  <2> DEFINE q == ProcOf[s]
             new == [session |-> s, frame |-> frame[s], awaited |-> TRUE, stored |-> FALSE]
  <2>1. /\ q \in Procs
        /\ new \in Entries
        /\ step[s] = "send" /\ step' = [step EXCEPT ![s] = "sending"]
        /\ frame' = frame /\ topic' = topic
        /\ buffer' = [buffer EXCEPT ![q] = Append(buffer[q], new)]
    BY <1>5, <1>0 DEF Enqueue, Goto, TypeOK, Entries
  <2>2. /\ DOMAIN buffer'[q] = 1..(Len(buffer[q]) + 1)
        /\ DOMAIN buffer[q] = 1..Len(buffer[q])
        /\ Len(buffer[q]) \in Nat
        /\ \A i \in DOMAIN buffer'[q] :
             buffer'[q][i] = IF i \in DOMAIN buffer[q] THEN buffer[q][i] ELSE new
    BY <2>1, <1>0, <1>1, BufferOps DEF TypeOK
  <2>3. StoredBelow(frame[s].seq)'
    <3>1. StoredBelow(frame[s].seq) /\ frame[s].seq \in Nat
      BY <2>1, <1>0, FramesAssumption DEF HandlerInv, SessionInv, TypeOK
    <3> QED
      BY <3>1, <2>1, <1>0, StoredStays
  <2>4. \A p \in Procs : \A i \in DOMAIN buffer[p] :
            buffer[p][i].awaited => buffer[p][i].session # s
    BY <1>0, <2>1 DEF BufferInv, EntryInv
  <2>5. ASSUME NEW p \in Procs, NEW i \in DOMAIN buffer'[p]
        PROVE  EntryInv(p, buffer[p][i])'
    <3>1. CASE i \in DOMAIN buffer[p]
      <4>1. buffer'[p][i] = buffer[p][i]
        BY <3>1, <2>1, <2>2, <1>0 DEF TypeOK
      <4> QED
        BY <3>1, <4>1, <2>1, <2>4, <1>0, <1>2, <1>3 DEF EntryInv, TypeOK
    <3>2. CASE i \notin DOMAIN buffer[p]
      <4>1. p = q /\ buffer'[p][i] = new
        BY <3>2, <2>1, <2>2, <1>0 DEF TypeOK
      <4>2. step'[s] = "sending" /\ frame'[s] = frame[s]
        BY <2>1, <1>0 DEF TypeOK
      <4> QED
        BY <4>1, <4>2, <2>3, <2>1 DEF EntryInv
    <3> QED
      BY <3>1, <3>2
  <2>6. AwaitedOnce'
    <3> SUFFICES ASSUME NEW p \in Procs, NEW i \in DOMAIN buffer'[p], NEW j \in DOMAIN buffer'[p],
                        buffer'[p][i].awaited, buffer'[p][j].awaited,
                        buffer'[p][i].session = buffer'[p][j].session
                 PROVE  i = j
      BY DEF AwaitedOnce
    <3>1. CASE p # q
      BY <3>1, <2>1, <1>0 DEF AwaitedOnce, TypeOK
    <3>2. CASE p = q
      BY <3>2, <2>1, <2>2, <2>4, <1>0 DEF AwaitedOnce
    <3> QED
      BY <3>1, <3>2
  <2> QED
    BY <2>5, <2>6 DEF BufferInv
<1>6. ASSUME NEW s \in Sessions, SendTimesOut(s)
      PROVE  BufferInv' /\ AwaitedOnce'
  <2> DEFINE q == ProcOf[s]
  <2>1. /\ q \in Procs
        /\ step' = [step EXCEPT ![s] = "reply"]
        /\ frame' = frame /\ topic' = topic
        /\ buffer' = [buffer EXCEPT ![q] = Abandon(buffer[q], s)]
    BY <1>6, <1>0 DEF SendTimesOut, Return, TypeOK
  <2>2. \A p \in Procs :
            /\ DOMAIN buffer'[p] = DOMAIN buffer[p]
            /\ \A i \in DOMAIN buffer[p] :
                /\ buffer'[p][i].session = buffer[p][i].session
                /\ buffer'[p][i].frame = buffer[p][i].frame
                /\ buffer'[p][i].stored = buffer[p][i].stored
                /\ buffer'[p][i].awaited =>
                     buffer[p][i].awaited /\ ~(p = q /\ buffer[p][i].session = s)
    <3>1. ASSUME NEW p \in Procs, p # q PROVE buffer'[p] = buffer[p]
      BY <3>1, <2>1, <1>0 DEF TypeOK
    <3>2. buffer'[q] = Abandon(buffer[q], s)
      BY <2>1, <1>0 DEF TypeOK
    <3>3. /\ DOMAIN Abandon(buffer[q], s) = DOMAIN buffer[q]
          /\ \A i \in DOMAIN buffer[q] :
                /\ Abandon(buffer[q], s)[i].session = buffer[q][i].session
                /\ Abandon(buffer[q], s)[i].frame = buffer[q][i].frame
                /\ Abandon(buffer[q], s)[i].stored = buffer[q][i].stored
                /\ Abandon(buffer[q], s)[i].awaited =
                    (buffer[q][i].awaited /\ buffer[q][i].session # s)
      BY <2>1, <1>1, AbandonOps
    <3> QED
      BY <3>1, <3>2, <3>3
  <2>3. ASSUME NEW p \in Procs, NEW i \in DOMAIN buffer'[p]
        PROVE  EntryInv(p, buffer[p][i])'
    <3>1. EntryInv(p, buffer[p][i]) /\ i \in DOMAIN buffer[p]
      BY <1>0, <2>2 DEF BufferInv
    <3>2. buffer'[p][i].awaited => buffer[p][i].session # s
      BY <2>2, <3>1 DEF EntryInv
    <3> QED
      BY <3>1, <3>2, <2>1, <2>2, <1>0, <1>2, <1>3 DEF EntryInv, TypeOK
  <2>4. AwaitedOnce'
    BY <1>0, <2>2 DEF AwaitedOnce
  <2> QED
    BY <2>3, <2>4 DEF BufferInv
<1>7. ASSUME NEW q \in Procs, BrokerAppends(q)
      PROVE  BufferInv' /\ AwaitedOnce'
  <2>0. buffer[q] # << >> /\ Head(buffer[q]) = buffer[q][1] /\ Head(buffer[q]) \in Entries
    BY <1>7, <1>1, HeadOps DEF BrokerAppends
  <2>1. /\ buffer[q] # << >>
        /\ buffer' = [buffer EXCEPT ![q] = MarkStored(buffer[q])]
        /\ topic' = Append(topic, buffer[q][1].frame)
        /\ buffer[q][1].frame \in Frames
        /\ step' = step /\ frame' = frame
    BY <1>7, <2>0, EntryFacts DEF BrokerAppends
  <2>2. \E i \in DOMAIN topic' : topic'[i] = buffer[q][1].frame
    <3>1. topic \in Seq(Frames) /\ Len(topic) \in Nat
      BY <1>0, LenProperties DEF TypeOK
    <3>2. /\ DOMAIN topic' = 1..(Len(topic) + 1)
          /\ topic'[Len(topic) + 1] = buffer[q][1].frame
      BY <3>1, <2>1, AppendProperties, LenProperties
    <3> QED
      BY <3>1, <3>2
  <2>3. \A p \in Procs :
            /\ DOMAIN buffer'[p] = DOMAIN buffer[p]
            /\ \A i \in DOMAIN buffer[p] :
                /\ buffer'[p][i].session = buffer[p][i].session
                /\ buffer'[p][i].frame = buffer[p][i].frame
                /\ buffer'[p][i].awaited = buffer[p][i].awaited
                /\ ~(p = q /\ i = 1) => buffer'[p][i].stored = buffer[p][i].stored
    <3>1. ASSUME NEW p \in Procs, p # q PROVE buffer'[p] = buffer[p]
      BY <3>1, <2>1, <1>0 DEF TypeOK
    <3>2. buffer'[q] = MarkStored(buffer[q])
      BY <2>1, <1>0 DEF TypeOK
    <3>3. /\ DOMAIN MarkStored(buffer[q]) = DOMAIN buffer[q]
          /\ \A i \in DOMAIN buffer[q] :
                /\ MarkStored(buffer[q])[i].session = buffer[q][i].session
                /\ MarkStored(buffer[q])[i].frame = buffer[q][i].frame
                /\ MarkStored(buffer[q])[i].awaited = buffer[q][i].awaited
                /\ i # 1 => MarkStored(buffer[q])[i].stored = buffer[q][i].stored
      BY <2>1, <1>1, HeadOps
    <3> QED
      BY <3>1, <3>2, <3>3
  <2>4. ASSUME NEW p \in Procs, NEW i \in DOMAIN buffer'[p]
        PROVE  EntryInv(p, buffer[p][i])'
    <3>1. i \in DOMAIN buffer[p]
      BY <2>3
    <3>2. buffer'[p][i].stored =>
            buffer[p][i].stored \/ \E j \in DOMAIN topic' : topic'[j] = buffer'[p][i].frame
      BY <2>2, <2>3, <3>1
    <3> QED
      BY <3>1, <3>2, <2>1, <2>3, <1>3 DEF EntryInv, Persisted
  <2>5. AwaitedOnce'
    BY <1>0, <2>3 DEF AwaitedOnce
  <2> QED
    BY <2>4, <2>5 DEF BufferInv
\* The head of an accumulator is resolved, successfully or not.
<1>8. ASSUME NEW q \in Procs, buffer[q] # << >>,
             buffer' = [buffer EXCEPT ![q] = Tail(buffer[q])],
             frame' = frame,
             \A t \in Sessions :
                ~(buffer[q][1].awaited /\ t = buffer[q][1].session) => step'[t] = step[t]
      PROVE  BufferInv' /\ AwaitedOnce'
  <2> DEFINE was(p, i) == IF p = q THEN i + 1 ELSE i
  <2>1. /\ 1 \in DOMAIN buffer[q]
        /\ DOMAIN Tail(buffer[q]) = 1..(Len(buffer[q]) - 1)
        /\ Len(buffer[q]) \in Nat
        /\ \A i \in DOMAIN Tail(buffer[q]) :
             i + 1 \in DOMAIN buffer[q] /\ Tail(buffer[q])[i] = buffer[q][i + 1]
    BY <1>8, <1>1, HeadOps, LenProperties
  <2>2. \A p \in Procs : \A i \in DOMAIN buffer'[p] :
            /\ i \in Int
            /\ was(p, i) \in DOMAIN buffer[p]
            /\ buffer'[p][i] = buffer[p][was(p, i)]
            /\ ~(p = q /\ was(p, i) = 1)
    <3>1. ASSUME NEW p \in Procs, p # q, NEW i \in DOMAIN buffer'[p]
          PROVE  i \in Int /\ i \in DOMAIN buffer[p] /\ buffer'[p][i] = buffer[p][i]
      BY <3>1, <1>8, <1>0, <1>1, LenProperties DEF TypeOK
    <3>2. ASSUME NEW i \in DOMAIN buffer'[q]
          PROVE  /\ i \in Int /\ i + 1 \in DOMAIN buffer[q] /\ i + 1 # 1
                 /\ buffer'[q][i] = buffer[q][i + 1]
      BY <3>2, <2>1, <1>8, <1>0 DEF TypeOK
    <3> QED
      BY <3>1, <3>2
  <2>3. ASSUME NEW p \in Procs, NEW i \in DOMAIN buffer'[p]
        PROVE  EntryInv(p, buffer[p][i])'
    <3> DEFINE k == was(p, i)
               e == buffer[p][k]
    <3>1. /\ k \in DOMAIN buffer[p]
          /\ buffer'[p][i] = e
          /\ ~(p = q /\ k = 1)
          /\ e.session \in Sessions
      BY <2>2, <1>2
    <3>2. EntryInv(p, e) /\ EntryInv(q, buffer[q][1])
      BY <3>1, <2>1, <1>0 DEF BufferInv
    <3>3. e.awaited => ~(buffer[q][1].awaited /\ e.session = buffer[q][1].session)
      <4>1. CASE p # q
        BY <4>1, <3>2 DEF EntryInv
      <4>2. CASE p = q
        BY <4>2, <3>1, <2>1, <1>0 DEF AwaitedOnce
      <4> QED
        BY <4>1, <4>2
    <3>4. e.awaited => step'[e.session] = step[e.session]
      BY <3>1, <3>3, <1>8
    <3> HIDE DEF k, e
    <3> QED
      BY <3>1, <3>4, <1>8, <1>3 DEF EntryInv, e
  <2>4. AwaitedOnce'
    BY <1>0, <2>2 DEF AwaitedOnce
  <2> QED
    BY <2>3, <2>4 DEF BufferInv
<1>9. ASSUME NEW q \in Procs, Crash(q)
      PROVE  BufferInv' /\ AwaitedOnce'
  <2>1. /\ buffer' = [buffer EXCEPT ![q] = << >>]
        /\ frame' = frame
        /\ \A t \in Sessions : ProcOf[t] # q => step'[t] = step[t]
    BY <1>9, <1>0 DEF Crash, TypeOK
  <2>2. \A p \in Procs : \A i \in DOMAIN buffer'[p] :
            p # q /\ i \in DOMAIN buffer[p] /\ buffer'[p] = buffer[p]
    BY <2>1, <1>0 DEF TypeOK
  <2>3. ASSUME NEW p \in Procs, NEW i \in DOMAIN buffer'[p]
        PROVE  EntryInv(p, buffer[p][i])'
    <3>1. EntryInv(p, buffer[p][i])
      BY <2>2, <1>0 DEF BufferInv
    <3> QED
      BY <3>1, <2>1, <2>2, <1>2, <1>3 DEF EntryInv
  <2>4. AwaitedOnce'
    BY <1>0, <2>2 DEF AwaitedOnce
  <2> QED
    BY <2>3, <2>4 DEF BufferInv
\* Every step is of one of these kinds.
<1>10. ASSUME NEW q \in Procs, BrokerAcks(q) \/ DeliveryFails(q)
       PROVE  BufferInv' /\ AwaitedOnce'
  <2>1. /\ buffer[q] # << >> /\ Head(buffer[q]) = buffer[q][1]
        /\ buffer[q][1] \in Entries
    BY <1>10, <1>1, HeadOps DEF BrokerAcks, DeliveryFails
  <2>2. /\ buffer' = [buffer EXCEPT ![q] = Tail(buffer[q])]
        /\ frame' = frame
    BY <1>10 DEF BrokerAcks, DeliveryFails
  <2>3. \A t \in Sessions :
            ~(buffer[q][1].awaited /\ t = buffer[q][1].session) => step'[t] = step[t]
    BY <1>10, <1>0, <2>1 DEF BrokerAcks, DeliveryFails, Goto, Return, TypeOK
  <2> QED
    BY <2>1, <2>2, <2>3, <1>8
<1>11. ASSUME NEW s \in Sessions, step[s] # "sending", buffer' = buffer,
              \A t \in Sessions : t # s => step'[t] = step[t] /\ frame'[t] = frame[t]
       PROVE  BufferInv' /\ AwaitedOnce'
  BY <1>11, <1>4
<1>12. ASSUME NEW s \in Sessions, Handler(s)
       PROVE  BufferInv' /\ AwaitedOnce'
  <2>1. CASE Enqueue(s) \/ SendTimesOut(s)
    BY <2>1, <1>5, <1>6
  <2>2. CASE ~(Enqueue(s) \/ SendTimesOut(s))
    <3>1. step[s] # "sending" /\ buffer' = buffer
      BY <1>12, <2>2 DEF Handler, HandleMessage, Receive, FailValidation, Prepare, PrepareRaises,
         SendRefused, Commit, CommitRaises, Cleanup, Reply, Busy
    <3>2. \A t \in Sessions : t # s => step'[t] = step[t] /\ frame'[t] = frame[t]
      BY <1>12, <2>2, <1>0 DEF TypeOK, Handler, HandleMessage, Receive, FailValidation, Prepare, PrepareRaises,
         SendRefused, Commit, CommitRaises, Cleanup, Reply, Goto, Return
    <3> QED
      BY <3>1, <3>2, <1>11
  <2> QED
    BY <2>1, <2>2
<1>13. CASE KeyExpires \/ (\E f \in Frames : LateCommit(f)) \/ UNCHANGED vars
  BY <1>13, <1>4 DEF KeyExpires, LateCommit, vars
<1> QED
  BY <1>7, <1>9, <1>10, <1>12, <1>13 DEF Next, Producer
-----------------------------------------------------------------------------
\* What each handler may rely on at each of its awaits.
LEMMA HandlerStep ==
    ASSUME DurabilityInv, [Next]_vars
    PROVE  HandlerInv'
<1> USE SessionAssumption DEF DurabilityInv
<1>0. TypeOK /\ BufferInv /\ HandlerInv
  OBVIOUS
<1>1. \A t \in Sessions : frame[t] \in Frames /\ frame[t].seq \in Nat /\ SessionInv(t)
  BY <1>0, FramesAssumption DEF TypeOK, HandlerInv
<1>2. \A f : f.seq \in Nat =>
         /\ StoredBelow(f.seq) => StoredBelow(f.seq)'
         /\ Persisted(f) => Persisted(f)'
         /\ Stored(f.seq) => Stored(f.seq)'
  BY <1>0, StoredStays
<1>3. \A f : Persisted(f) => Stored(f.seq)
  BY DEF Persisted, Stored
\* A session the step does not touch.
<1>4. ASSUME NEW t \in Sessions, step'[t] = step[t], frame'[t] = frame[t], result'[t] = result[t]
      PROVE  SessionInv(t)'
  BY <1>1, <1>2, <1>4 DEF SessionInv
<1>5. ASSUME NEW s \in Sessions, Handler(s)
      PROVE  SessionInv(s)'
  <2> USE <1>0, <1>1 DEF TypeOK
  <2>1. CASE Receive(s)
    BY <2>1 DEF Receive, Busy, Goto, SessionInv, Acks
  <2>2. CASE FailValidation(s)
    BY <2>2 DEF FailValidation, Return, SessionInv, Acks
  <2>3. CASE Prepare(s)
    <3>1. key.expected \in Nat /\ StoredBelow(key.expected)
      BY DEF RedisBehindKafka, StoredBelow, Keys
    <3>2. CASE PrepareStatus(key, frame[s].seq) = "PRE_CHECK_OK"
      <4>1. StoredBelow(frame[s].seq)
        BY <3>1, <3>2 DEF PrepareStatus
      <4>2. StoredBelow(frame[s].seq)'
        BY <4>1, <1>2, <2>3 DEF Prepare
      <4> QED
        BY <2>3, <3>2, <4>2 DEF Prepare, Goto, SessionInv, Acks
    <3>3. CASE PrepareStatus(key, frame[s].seq) = "IDEMPOTENT"
      <4>1. Stored(frame[s].seq)
        BY <3>1, <3>3 DEF PrepareStatus, StoredBelow
      <4>2. Stored(frame[s].seq)'
        BY <4>1, <1>2, <2>3 DEF Prepare
      <4> QED
        BY <2>3, <3>3, <4>2 DEF Prepare, Return, SessionInv
    <3>4. CASE PrepareStatus(key, frame[s].seq) = "OUT_OF_ORDER"
      BY <2>3, <3>4 DEF Prepare, Return, SessionInv, Acks
    <3> QED
      BY <3>2, <3>3, <3>4 DEF PrepareStatus
  <2>4. CASE PrepareRaises(s)
    BY <2>4 DEF PrepareRaises, Return, SessionInv, Acks
  <2>5. CASE Enqueue(s)
    <3>1. StoredBelow(frame[s].seq)'
      BY <2>5, <1>2 DEF Enqueue, SessionInv
    <3> QED
      BY <2>5, <3>1 DEF Enqueue, Goto, SessionInv, Acks
  <2>6. CASE SendRefused(s)
    BY <2>6 DEF SendRefused, Return, SessionInv, Acks
  <2>7. CASE SendTimesOut(s)
    BY <2>7 DEF SendTimesOut, Return, SessionInv, Acks
  <2>8. CASE Commit(s)
    <3>1. /\ StoredBelow(frame[s].seq)' /\ Persisted(frame[s])' /\ Stored(frame[s].seq)'
      BY <2>8, <1>2, <1>3 DEF Commit, SessionInv
    <3>2. CASE frame[s].event = "SESSION_COMPLETE"
      BY <2>8, <3>1, <3>2 DEF Commit, Goto, SessionInv
    <3>3. CASE frame[s].event # "SESSION_COMPLETE"
      BY <2>8, <3>1, <3>3 DEF Commit, Return, SessionInv
    <3> QED
      BY <3>2, <3>3
  <2>9. CASE CommitRaises(s)
    BY <2>9 DEF CommitRaises, Return, SessionInv, Acks
  <2>10. CASE Cleanup(s)
    <3>1. Stored(frame[s].seq)'
      BY <2>10, <1>2, <1>3 DEF Cleanup, SessionInv
    <3> QED
      BY <2>10, <3>1 DEF Cleanup, Return, SessionInv
  <2>11. CASE Reply(s)
    BY <2>11 DEF Reply, SessionInv, Acks
  <2> QED
    BY <1>5, <2>1, <2>2, <2>3, <2>4, <2>5, <2>6, <2>7, <2>8, <2>9, <2>10, <2>11 DEF Handler, HandleMessage
<1>6. ASSUME NEW s \in Sessions, Handler(s), NEW t \in Sessions, t # s
      PROVE  SessionInv(t)'
  <2>1. step'[t] = step[t] /\ frame'[t] = frame[t] /\ result'[t] = result[t]
    BY <1>6, <1>0 DEF TypeOK, Handler, HandleMessage, Receive, FailValidation, Prepare, PrepareRaises, Enqueue,
       SendRefused, SendTimesOut, Commit, CommitRaises, Cleanup, Reply, Goto, Return
  <2> QED
    BY <2>1, <1>4
\* The producer resumes the handler that awaits the head, if one does.
<1>7. ASSUME NEW q \in Procs, Producer(q), NEW t \in Sessions
      PROVE  SessionInv(t)'
  <2>1. CASE BrokerAppends(q)
    BY <2>1, <1>4 DEF BrokerAppends
  <2>2. CASE BrokerAcks(q) \/ DeliveryFails(q)
    <3> DEFINE e == Head(buffer[q])
    <3>1. e \in Entries /\ e.session \in Sessions /\ EntryInv(q, e)
      BY <2>2, <1>0, HeadOps, EntryFacts DEF BrokerAcks, DeliveryFails, BufferInv, TypeOK
    <3> HIDE DEF e
    <3>2. CASE e.awaited /\ t = e.session
      <4>1. step[t] = "sending" /\ frame[t] = e.frame /\ result[t] = "none"
        BY <3>1, <3>2, <1>1 DEF EntryInv, SessionInv
      <4>2. StoredBelow(frame[t].seq)'
        BY <4>1, <2>2, <1>1, <1>2 DEF SessionInv, BrokerAcks, DeliveryFails
      <4>3. CASE BrokerAcks(q)
        <5>1. Persisted(frame[t])
          BY <4>1, <4>3, <3>1 DEF BrokerAcks, EntryInv, e
        <5>2. Persisted(frame[t])'
          BY <5>1, <1>1, <1>2, <4>3 DEF BrokerAcks
        <5>3. step'[t] = "commit" /\ result' = result /\ frame' = frame
          BY <4>3, <3>1, <3>2, <1>0 DEF BrokerAcks, Goto, TypeOK, e
        <5> QED
          BY <5>2, <5>3, <4>1, <4>2 DEF SessionInv, Acks
      <4>4. CASE DeliveryFails(q)
        <5>1. step'[t] = "reply" /\ result'[t] = "DOWNSTREAM_UNAVAILABLE" /\ frame' = frame
          BY <4>4, <3>1, <3>2, <1>0 DEF DeliveryFails, Return, TypeOK, e
        <5> QED
          BY <5>1 DEF SessionInv, Acks
      <4> QED
        BY <2>2, <4>3, <4>4
    <3>3. CASE ~(e.awaited /\ t = e.session)
      <4>1. step'[t] = step[t] /\ frame'[t] = frame[t] /\ result'[t] = result[t]
        BY <2>2, <3>1, <3>3, <1>0 DEF BrokerAcks, DeliveryFails, Goto, Return, TypeOK, e
      <4> QED
        BY <4>1, <1>4
    <3> QED
      BY <3>2, <3>3
  <2> QED
    BY <1>7, <2>1, <2>2 DEF Producer
<1>8. ASSUME NEW q \in Procs, Crash(q), NEW t \in Sessions
      PROVE  SessionInv(t)'
  <2>1. CASE ProcOf[t] = q
    BY <1>8, <2>1 DEF Crash, SessionInv, Acks
  <2>2. CASE ProcOf[t] # q
    BY <1>8, <2>2, <1>4 DEF Crash
  <2> QED
    BY <2>1, <2>2
<1>9. CASE KeyExpires \/ (\E f \in Frames : LateCommit(f)) \/ UNCHANGED vars
  BY <1>9, <1>4 DEF KeyExpires, LateCommit, vars, HandlerInv
<1> QED
  BY <1>5, <1>6, <1>7, <1>8, <1>9 DEF Next, HandlerInv
-----------------------------------------------------------------------------
\* Only these actions touch the key, the partition and the ACK history.
LEMMA Writers ==
    ASSUME [Next]_vars
    PROVE  /\ \/ key' = key
              \/ KeyExpires /\ key' = Absent
              \/ \E f \in late : key' = Committed(key, f.seq)
              \/ \E s \in Sessions :
                    \/ key' = Prepared(key, frame[s].seq)
                    \/ step[s] = "commit" /\ key' = Committed(key, frame[s].seq)
                    \/ step[s] = "cleanup" /\ key' = Cleaned(key)
           /\ topic' = topic \/ \E p \in Procs : BrokerAppends(p)
           /\ \/ acked' = acked
              \/ \E s \in Sessions : result[s] \in Acks /\ acked' = acked \cup {frame[s]}
<1>1. ASSUME NEW s \in Sessions, Handler(s)
      PROVE  /\ \/ key' = key
                \/ key' = Prepared(key, frame[s].seq)
                \/ step[s] = "commit" /\ key' = Committed(key, frame[s].seq)
                \/ step[s] = "cleanup" /\ key' = Cleaned(key)
             /\ topic' = topic
             /\ \/ acked' = acked
                \/ result[s] \in Acks /\ acked' = acked \cup {frame[s]}
  <2>1. CASE Reply(s)
    BY <2>1 DEF Reply
  <2>2. CASE Prepare(s) \/ PrepareRaises(s)
    BY <2>2 DEF Prepare, PrepareRaises
  <2>3. CASE Commit(s) \/ CommitRaises(s)
    BY <2>3 DEF Commit, CommitRaises
  <2>4. CASE Cleanup(s)
    BY <2>4 DEF Cleanup
  <2>5. CASE \/ Receive(s) \/ FailValidation(s)
             \/ Enqueue(s) \/ SendRefused(s) \/ SendTimesOut(s)
    BY <2>5 DEF Receive, FailValidation, Enqueue, SendRefused, SendTimesOut
  <2> QED
    BY <1>1, <2>1, <2>2, <2>3, <2>4, <2>5 DEF Handler, HandleMessage
<1>2. ASSUME NEW p \in Procs, Producer(p) \/ Crash(p)
      PROVE  key' = key /\ acked' = acked /\ (topic' = topic \/ BrokerAppends(p))
  BY <1>2 DEF Producer, BrokerAppends, BrokerAcks, DeliveryFails, Crash
<1>3. CASE KeyExpires \/ UNCHANGED vars
  BY <1>3 DEF KeyExpires, vars
<1>4. ASSUME NEW f \in Frames, LateCommit(f)
      PROVE  f \in late /\ key' = Committed(key, f.seq) /\ UNCHANGED <<topic, acked>>
  BY <1>4 DEF LateCommit
<1> QED
  BY <1>1, <1>2, <1>3, <1>4 DEF Next

\* A commit starts to lag only when a handler that awaits it is given up.
LEMMA LateStep ==
    ASSUME DurabilityInv, [Next]_vars
    PROVE  LateInv'
<1>0. /\ TypeOK /\ HandlerInv /\ LateInv
      /\ \A s \in Sessions : frame[s] \in Frames /\ SessionInv(s)
      /\ \A f \in Frames : f.seq \in Nat
  BY FramesAssumption DEF DurabilityInv, TypeOK, HandlerInv
<1>1. \A f \in late' :
        \/ f \in late
        \/ CommitMayLag /\ \E s \in Sessions : step[s] = "commit" /\ f = frame[s]
  <2>1. ASSUME NEW s \in Sessions, Handler(s)
        PROVE  \/ late' = late
               \/ CommitMayLag /\ step[s] = "commit" /\ late' = late \cup {frame[s]}
    BY <2>1 DEF Handler, HandleMessage, Receive, FailValidation, Prepare, PrepareRaises, Enqueue,
       SendRefused, SendTimesOut, Commit, CommitRaises, Cleanup, Reply
  <2>2. ASSUME NEW p \in Procs, Producer(p) PROVE late' = late
    BY <2>2 DEF Producer, BrokerAppends, BrokerAcks, DeliveryFails
  <2>3. ASSUME NEW p \in Procs, Crash(p)
        PROVE  \E F \in SUBSET InCommit(p) : (F # {} => CommitMayLag) /\ late' = late \cup F
    BY <2>3 DEF Crash
  <2>4. ASSUME NEW f \in Frames, LateCommit(f) PROVE late' \subseteq late
    BY <2>4 DEF LateCommit
  <2>5. CASE KeyExpires \/ UNCHANGED vars
    BY <2>5 DEF KeyExpires, vars
  <2> QED
    BY <2>1, <2>2, <2>3, <2>4, <2>5 DEF Next, InCommit
<1>2. \A f \in late' : f \in Frames /\ CommitMayLag /\ StoredBelow(f.seq) /\ Persisted(f)
  BY <1>0, <1>1 DEF LateInv, SessionInv, TypeOK
<1> QED
  BY <1>0, <1>2, StoredStays DEF LateInv

\* The client-visible and durable state.
LEMMA HistoryStep ==
    ASSUME DurabilityInv, [Next]_vars
    PROVE  AckedIsStored' /\ RedisBehindKafka' /\ TopicInOrder' /\ FinalTtlOnlyAfterComplete'
<1> USE DEF DurabilityInv
<1>0. /\ TypeOK /\ BufferInv /\ HandlerInv /\ LateInv
      /\ AckedIsStored /\ RedisBehindKafka /\ TopicInOrder /\ FinalTtlOnlyAfterComplete
  OBVIOUS
<1>1. \A s \in Sessions : frame[s] \in Frames /\ frame[s].seq \in Nat /\ SessionInv(s)
  BY <1>0, FramesAssumption DEF TypeOK, HandlerInv
<1>2. key \in Keys /\ key.expected \in Nat
  BY <1>0 DEF TypeOK, Keys
<1>3. AckedIsStored'
  <2>1. \A f \in acked' : Stored(f.seq)
    BY <1>0, <1>1, Writers DEF AckedIsStored, SessionInv
  <2>2. \A n : Stored(n) => Stored(n)'
    BY <1>0, StoredStays
  <2> QED
    BY <2>1, <2>2 DEF AckedIsStored
<1>4. \A f : Persisted(f) => Stored(f.seq)
  BY DEF Persisted, Stored
<1>5. \A n \in Nat : StoredBelow(n) => StoredBelow(n)'
  BY <1>0, StoredStays
<1>6. /\ key'.expected \in Nat /\ StoredBelow(key'.expected)
      /\ key'.ttl = "final" =>
            key.ttl = "final" \/ \E s \in Sessions : step[s] = "cleanup"
  <2>1. StoredBelow(key.expected)
    BY <1>0 DEF RedisBehindKafka, StoredBelow
  <2>2. CASE key' = key
    BY <2>1, <2>2, <1>2
  <2>3. CASE key' = Absent
    BY <2>3 DEF Absent, StoredBelow
  <2>4. ASSUME NEW s \in Sessions, key' = Prepared(key, frame[s].seq)
        PROVE  key'.expected = key.expected /\ (key'.ttl = "final" => key.ttl = "final")
    BY <2>4, <1>2 DEF Prepared, Keys
  <2>5. ASSUME NEW f, f.seq \in Nat, StoredBelow(f.seq), Persisted(f), key' = Committed(key, f.seq)
        PROVE  /\ key'.expected \in Nat /\ StoredBelow(key'.expected)
               /\ key'.ttl # "final"
    <3>1. Stored(f.seq)
      BY <2>5, <1>4
    <3>2. key'.expected = f.seq + 1 /\ key'.ttl = "active"
      BY <2>5 DEF Committed
    <3>3. \A m \in 0..((f.seq + 1) - 1) : m = f.seq \/ m \in 0..(f.seq - 1)
      BY <2>5
    <3> QED
      BY <2>5, <3>1, <3>2, <3>3 DEF StoredBelow
  <2>7. ASSUME NEW s \in Sessions, step[s] = "commit"
        PROVE  frame[s].seq \in Nat /\ StoredBelow(frame[s].seq) /\ Persisted(frame[s])
    BY <2>7, <1>1 DEF SessionInv
  <2>8. ASSUME NEW f \in late
        PROVE  f.seq \in Nat /\ StoredBelow(f.seq) /\ Persisted(f)
    BY <2>8, <1>0, FramesAssumption DEF LateInv, TypeOK
  <2>6. ASSUME NEW s \in Sessions, step[s] = "cleanup", key' = Cleaned(key)
        PROVE  key'.expected = key.expected
    BY <2>6, <1>2 DEF Cleaned, Keys
  <2> QED
    BY <2>1, <2>2, <2>3, <2>4, <2>5, <2>6, <2>7, <2>8, <1>2, Writers DEF Absent
<1>7. RedisBehindKafka'
  <2>1. \A n \in 0..(key'.expected - 1) : Stored(n)
    BY <1>6 DEF StoredBelow
  <2>2. \A n : Stored(n) => Stored(n)'
    BY <1>0, StoredStays
  <2> QED
    BY <2>1, <2>2 DEF RedisBehindKafka
<1>8. FinalTtlOnlyAfterComplete'
  <2> SUFFICES ASSUME key'.ttl = "final"
               PROVE  \E i \in DOMAIN topic' : topic'[i].event = "SESSION_COMPLETE"
    BY DEF FinalTtlOnlyAfterComplete
  <2>1. \E i \in DOMAIN topic : topic[i].event = "SESSION_COMPLETE"
    <3>1. CASE key.ttl = "final"
      BY <3>1, <1>0 DEF FinalTtlOnlyAfterComplete
    <3>2. ASSUME NEW s \in Sessions, step[s] = "cleanup"
          PROVE  \E i \in DOMAIN topic : topic[i].event = "SESSION_COMPLETE"
      BY <3>2, <1>1 DEF SessionInv, Persisted
    <3> QED
      BY <3>1, <3>2, <1>6
  <2> QED
    BY <2>1, <1>0, TopicGrows
\* A record is appended only after everything below its number.
<1>9. TopicInOrder'
  <2>1. CASE topic' = topic
    BY <2>1, <1>0 DEF TopicInOrder
  <2>2. ASSUME NEW p \in Procs, BrokerAppends(p)
        PROVE  TopicInOrder'
    <3> DEFINE f == Head(buffer[p]).frame
    <3>1. Head(buffer[p]) \in Entries /\ EntryInv(p, Head(buffer[p]))
      BY <2>2, <1>0, HeadOps DEF BrokerAppends, BufferInv, TypeOK
    <3>2. f \in Frames /\ f.seq \in Nat /\ StoredBelow(f.seq)
      BY <3>1, EntryFacts DEF EntryInv
    <3>3. topic' = Append(topic, f)
      BY <2>2 DEF BrokerAppends
    <3> HIDE DEF f
    <3>4. topic \in Seq(Frames) /\ Len(topic) \in Nat /\ DOMAIN topic = 1..Len(topic)
      BY <1>0, LenProperties DEF TypeOK
    <3>5. /\ DOMAIN topic' = 1..(Len(topic) + 1)
          /\ topic'[Len(topic) + 1] = f
          /\ \A i \in 1..Len(topic) : topic'[i] = topic[i]
      BY <3>2, <3>3, <3>4, AppendProperties, LenProperties
    <3> SUFFICES ASSUME NEW i \in DOMAIN topic', NEW n \in 0..(topic'[i].seq - 1)
                 PROVE  \E j \in 1..(i - 1) : topic'[j].seq = n
      BY DEF TopicInOrder
    <3>6. CASE i \in 1..Len(topic)
      <4>1. PICK j \in 1..(i - 1) : topic[j].seq = n
        BY <3>4, <3>5, <3>6, <1>0 DEF TopicInOrder
      <4> QED
        BY <4>1, <3>4, <3>5, <3>6
    <3>7. CASE i = Len(topic) + 1
      <4>1. PICK j \in DOMAIN topic : topic[j].seq = n
        BY <3>2, <3>5, <3>7 DEF StoredBelow, Stored
      <4> QED
        BY <4>1, <3>4, <3>5, <3>7
    <3> QED
      BY <3>4, <3>5, <3>6, <3>7
  <2> QED
    BY <2>1, <2>2, Writers
<1> QED
  BY <1>3, <1>7, <1>8, <1>9

\* The strengthening holds throughout.
LEMMA DurabilityInduction == Spec => []DurabilityInv
<1>1. Init => DurabilityInv
  <2> SUFFICES ASSUME Init PROVE DurabilityInv
    OBVIOUS
  <2>1. TypeOK
    BY SessionAssumption, FramesAssumption, BoundAssumption, KeyOps
       DEF Init, TypeOK, Steps, Results, Acks, Errors, IdleFrame, Keys, TTLs, Absent
  <2>2. \A p \in Procs : DOMAIN buffer[p] = {}
    BY DEF Init
  <2>3. BufferInv /\ AwaitedOnce
    BY <2>2 DEF BufferInv, AwaitedOnce
  <2>4. HandlerInv /\ LateInv
    BY DEF Init, HandlerInv, SessionInv, Acks, LateInv
  <2>5. AckedIsStored /\ RedisBehindKafka /\ TopicInOrder /\ FinalTtlOnlyAfterComplete
    BY DEF Init, AckedIsStored, RedisBehindKafka, TopicInOrder, FinalTtlOnlyAfterComplete, Absent
  <2> QED
    BY <2>1, <2>3, <2>4, <2>5 DEF DurabilityInv
<1>2. DurabilityInv /\ [Next]_vars => DurabilityInv'
  BY TypeStep, BufferStep, HandlerStep, LateStep, HistoryStep DEF DurabilityInv
<1> QED
  BY <1>1, <1>2, PTL DEF Spec

\* Zero loss, for any number of sessions, processes, races, timeouts, expiries
\* and crashes: what a client was told is durable is in the partition, ...
THEOREM NoAcknowledgedLoss == Spec => []AckedIsStored
BY DurabilityInduction, PTL DEF DurabilityInv

\* ... Redis accepts nothing above what the partition holds contiguously, ...
THEOREM RedisNeverAhead == Spec => []RedisBehindKafka
BY DurabilityInduction, PTL DEF DurabilityInv

\* ... the partition, read without its duplicates, is in order, ...
THEOREM TranscriptInOrder == Spec => []TopicInOrder
BY DurabilityInduction, PTL DEF DurabilityInv

\* ... and a conversation's key is put on its short TTL only after its
\* SESSION_COMPLETE is in the partition.
THEOREM NoEarlyFinalTtl == Spec => []FinalTtlOnlyAfterComplete
BY DurabilityInduction, PTL DEF DurabilityInv
\* Where a sequence number belongs to one frame only, the EOL_ACK that ends a
\* call stands for a SESSION_COMPLETE record in the partition.
THEOREM EolAckSound ==
    ASSUME \A f, g \in Frames : f.seq = g.seq => f = g
    PROVE  Spec => []EolAckMeansEolStored
<1>1. DurabilityInv => EolAckMeansEolStored
  <2> SUFFICES ASSUME DurabilityInv, NEW f \in acked
               PROVE  \E i \in DOMAIN topic : topic[i] = f
    BY DEF EolAckMeansEolStored
  <2>1. f \in Frames /\ \A i \in DOMAIN topic : topic[i] \in Frames
    BY ElementOfSeq, LenProperties DEF DurabilityInv, TypeOK
  <2>2. PICK i \in DOMAIN topic : topic[i].seq = f.seq
    BY DEF DurabilityInv, AckedIsStored, Stored
  <2> QED
    BY <2>1, <2>2
<1> QED
  BY <1>1, DurabilityInduction, PTL

-----------------------------------------------------------------------------
\* Refinement: everything the clients and the consumers of the topic can see is
\* a behaviour of LosslessTranscript.
THEOREM ImplementsPromise == Spec => KeepsPromise
<1>1. Init => Promise!Init
  BY DEF Init, Promise!Init
<1>2. DurabilityInv /\ [Next]_vars => [Promise!Next]_<<topic, acked>>
  <2> SUFFICES ASSUME DurabilityInv, [Next]_vars
               PROVE  Promise!Next \/ UNCHANGED <<topic, acked>>
    OBVIOUS
  <2>1. TypeOK /\ BufferInv /\ HandlerInv
    BY DEF DurabilityInv
  <2>2. ASSUME NEW p \in Procs, BrokerAppends(p) PROVE Promise!Next
    <3> DEFINE f == Head(buffer[p]).frame
    <3>1. Head(buffer[p]) \in Entries /\ EntryInv(p, Head(buffer[p]))
      BY <2>1, <2>2, HeadOps DEF BrokerAppends, BufferInv, TypeOK
    <3>2. f \in Frames /\ StoredBelow(f.seq)
      BY <3>1, EntryFacts DEF EntryInv
    <3>3. topic' = Append(topic, f) /\ acked' = acked
      BY <2>2 DEF BrokerAppends
    <3> HIDE DEF f
    <3>4. Promise!Persist(f)
      BY <3>2, <3>3 DEF Promise!Persist, Promise!Holds, StoredBelow, Stored
    <3> QED
      BY <3>2, <3>4 DEF Promise!Next
  <2>3. ASSUME NEW s \in Sessions, result[s] \in Acks, acked' = acked \cup {frame[s]},
               topic' = topic
        PROVE  Promise!Next
    <3>1. frame[s] \in Frames /\ Stored(frame[s].seq)
      BY <2>1, <2>3 DEF TypeOK, HandlerInv, SessionInv
    <3>2. Promise!Acknowledge(frame[s])
      BY <3>1, <2>3 DEF Promise!Acknowledge, Promise!Holds, Stored
    <3> QED
      BY <3>1, <3>2 DEF Promise!Next
  <2> QED
    BY <2>2, <2>3, Writers
<1> QED
  BY <1>1, <1>2, DurabilityInduction, PTL DEF Spec, KeepsPromise, Promise!Spec

-----------------------------------------------------------------------------
(***************************************************************************)
(* When the ownership guard keeps all but one session of the conversation   *)
(* quiet (SingleSender), when a commit takes effect while it is awaited or  *)
(* not at all (~CommitMayLag), and, for the last three theorems, when the   *)
(* sequence key outlives the call (~KeyMayExpire).                          *)
(***************************************************************************)

\* How a step moves the expected sequence number.
LEMMA ExpectedMoves ==
    ASSUME TypeOK, late = {}, [Next]_vars
    PROVE  /\ key.expected \in Nat /\ key'.expected \in Nat
           /\ \/ key'.expected = key.expected
              \/ KeyExpires /\ key' = Absent
              \/ \E s \in Sessions :
                    step[s] = "commit" /\ key'.expected = frame[s].seq + 1
<1>1. key \in Keys /\ \A s \in Sessions : frame[s].seq \in Nat
  BY FramesAssumption DEF TypeOK
<1>2. ASSUME NEW s \in Sessions
      PROVE  /\ Prepared(key, frame[s].seq).expected = key.expected
             /\ Committed(key, frame[s].seq).expected = frame[s].seq + 1
             /\ Cleaned(key).expected = key.expected
  BY <1>1 DEF Prepared, Committed, Cleaned, Keys
<1> QED
  BY <1>1, <1>2, Writers DEF Keys, Absent

\* How a handler's own step, a producer step and a crash move the sessions.
LEMMA SessionsMove ==
    ASSUME TypeOK, BufferInv, [Next]_vars, NEW t \in Sessions
    PROVE  /\ \/ step'[t] = step[t] /\ frame'[t] = frame[t] /\ result'[t] = result[t]
              \/ Handler(t)
              \/ /\ step[t] = "sending" /\ frame'[t] = frame[t] /\ key' = key
                 /\ \/ step'[t] = "commit" /\ result'[t] = result[t]
                    \/ step'[t] = "reply" /\ result'[t] = "DOWNSTREAM_UNAVAILABLE"
              \/ step'[t] = "receive" /\ result'[t] = "none" /\ key' = key
           /\ \A s \in Sessions : Handler(s) /\ t # s =>
                step'[t] = step[t] /\ frame'[t] = frame[t] /\ result'[t] = result[t]
<1>1. ASSUME NEW s \in Sessions, Handler(s), t # s
      PROVE  step'[t] = step[t] /\ frame'[t] = frame[t] /\ result'[t] = result[t]
  BY <1>1 DEF TypeOK, Handler, HandleMessage, Receive, FailValidation, Prepare, PrepareRaises, Enqueue,
     SendRefused, SendTimesOut, Commit, CommitRaises, Cleanup, Reply, Goto, Return
<1>2. ASSUME NEW q \in Procs, Producer(q)
      PROVE  \/ step'[t] = step[t] /\ frame'[t] = frame[t] /\ result'[t] = result[t]
             \/ /\ step[t] = "sending" /\ frame'[t] = frame[t] /\ key' = key
                /\ \/ step'[t] = "commit" /\ result'[t] = result[t]
                   \/ step'[t] = "reply" /\ result'[t] = "DOWNSTREAM_UNAVAILABLE"
  <2>1. CASE BrokerAppends(q)
    BY <2>1 DEF BrokerAppends
  <2>2. CASE BrokerAcks(q) \/ DeliveryFails(q)
    <3> DEFINE e == Head(buffer[q])
    <3>1. e.session \in Sessions /\ (e.awaited => step[e.session] = "sending")
      BY <2>2, HeadOps, EntryFacts DEF BrokerAcks, DeliveryFails, BufferInv, EntryInv, TypeOK
    <3>2. frame' = frame /\ key' = key
      BY <2>2 DEF BrokerAcks, DeliveryFails
    <3>3. \/ step' = step /\ result' = result
          \/ e.awaited /\ Goto(e.session, "commit")
          \/ e.awaited /\ Return(e.session, "DOWNSTREAM_UNAVAILABLE")
      BY <2>2 DEF BrokerAcks, DeliveryFails
    <3> HIDE DEF e
    <3> QED
      BY <3>1, <3>2, <3>3 DEF Goto, Return, TypeOK
  <2> QED
    BY <1>2, <2>1, <2>2 DEF Producer
<1>3. ASSUME NEW q \in Procs, Crash(q)
      PROVE  \/ step'[t] = step[t] /\ frame'[t] = frame[t] /\ result'[t] = result[t]
             \/ step'[t] = "receive" /\ result'[t] = "none" /\ key' = key
  BY <1>3 DEF Crash
<1>4. CASE KeyExpires \/ (\E f \in Frames : LateCommit(f)) \/ UNCHANGED vars
  BY <1>4 DEF KeyExpires, LateCommit, vars
<1> QED
  BY <1>1, <1>2, <1>3, <1>4 DEF Next

LEMMA NoneLate ==
    ASSUME DurabilityInv, ~CommitMayLag
    PROVE  late = {} /\ \A f \in Frames : ~LateCommit(f)
BY DEF DurabilityInv, LateInv, LateCommit

-----------------------------------------------------------------------------
\* One handler at a time, and nobody moves the key past a frame in flight, if a
\* frame is received only while no handler runs, for whatever reason.
LEMMA OneHandlerStep ==
    ASSUME DurabilityInv, OneHandler, [Next]_vars, ~CommitMayLag,
           \A s \in Sessions : Receive(s) => \A t \in Sessions : ~Busy(t)
    PROVE  OneHandler'
<1>0. TypeOK /\ BufferInv /\ \A s \in Sessions : frame[s].seq \in Nat
  BY FramesAssumption DEF DurabilityInv, TypeOK
<1>1. \A s, t \in Sessions : Busy(s) /\ Busy(t) => s = t
  BY DEF OneHandler
<1>2. \A s \in Sessions :
        step[s] \in {"send", "sending", "commit"} => key.expected <= frame[s].seq
  BY DEF OneHandler
<1>3. ASSUME NEW s \in Sessions, NEW t \in Sessions, Busy(s)', Busy(t)'
      PROVE  s = t
  <2>1. \A r \in Sessions : Busy(r)' => Busy(r) \/ Handler(r)
    BY <1>0, SessionsMove DEF Busy
  <2>2. \A r \in Sessions : Handler(r) /\ ~Busy(r) => \A u \in Sessions : ~Busy(u)
    BY DEF Handler, HandleMessage, Receive, FailValidation, Prepare, PrepareRaises, Enqueue, SendRefused,
       SendTimesOut, Commit, CommitRaises, Cleanup, Reply, Busy
  <2>3. \A r, u \in Sessions : Handler(r) /\ u # r /\ Busy(u)' => Busy(u)
    BY <1>0, SessionsMove DEF Busy
  <2> QED
    BY <1>1, <1>3, <2>1, <2>2, <2>3
<1>4. ASSUME NEW t \in Sessions, step'[t] \in {"send", "sending", "commit"}
      PROVE  key'.expected <= frame'[t].seq
  <2>1. CASE Handler(t)
    <3>1. CASE Prepare(t)
      <4>1. PrepareStatus(key, frame[t].seq) = "PRE_CHECK_OK" /\ frame' = frame
        BY <3>1, <1>0, <1>4 DEF Prepare, Return, TypeOK
      <4>2. key.expected = frame[t].seq /\ key'.expected = key.expected
        BY <3>1, <4>1, <1>0 DEF Prepare, PrepareStatus, Prepared, TypeOK, Keys
      <4> QED
        BY <4>1, <4>2, <1>0
    <3>2. CASE Enqueue(t)
      BY <3>2, <1>2 DEF Enqueue
    <3>3. CASE ~(Prepare(t) \/ Enqueue(t))
      BY <2>1, <3>3, <1>0, <1>4 DEF Handler, HandleMessage, Receive, FailValidation, PrepareRaises, SendRefused,
         SendTimesOut, Commit, CommitRaises, Cleanup, Reply, Goto, Return, TypeOK
    <3> QED
      BY <3>1, <3>2, <3>3
  <2>2. CASE ~Handler(t)
    <3>1. step[t] \in {"send", "sending", "commit"} /\ frame'[t] = frame[t]
      BY <2>2, <1>0, <1>4, SessionsMove
    <3>2. \A s \in Sessions : step[s] = "commit" /\ Handler(s) => s = t
      BY <3>1, <1>1 DEF Busy
    <3>3. key'.expected = key.expected \/ key'.expected = 0
      <4>1. ASSUME NEW s \in Sessions, Handler(s) PROVE key'.expected = key.expected
        <5>1. step[s] # "commit" /\ step[s] # "cleanup"
          BY <4>1, <2>2, <3>1, <1>1 DEF Busy
        <5>2. key' = key \/ key' = Prepared(key, frame[s].seq)
          BY <4>1, <5>1 DEF Handler, HandleMessage, Receive, FailValidation, Prepare, PrepareRaises, Enqueue,
             SendRefused, SendTimesOut, Commit, CommitRaises, Cleanup, Reply
        <5> QED
          BY <5>2, <1>0 DEF Prepared, TypeOK, Keys
      <4>2. ASSUME NEW q \in Procs, Producer(q) \/ Crash(q) PROVE key' = key
        BY <4>2 DEF Producer, BrokerAppends, BrokerAcks, DeliveryFails, Crash
      <4>3. CASE KeyExpires \/ UNCHANGED vars
        BY <4>3 DEF KeyExpires, vars, Absent
      <4> QED
        BY <4>1, <4>2, <4>3, NoneLate DEF Next
    <3> QED
      BY <3>1, <3>3, <1>0, <1>2
  <2> QED
    BY <2>1, <2>2
<1> QED
  BY <1>3, <1>4 DEF OneHandler

\* While one handler runs at a time the expected sequence number is taken back by
\* nothing but the key's expiry.
LEMMA AdvancesStep ==
    ASSUME DurabilityInv, OneHandler, [Next]_vars, ~CommitMayLag
    PROVE  key'.expected >= key.expected \/ ~Exists(key')
<1>1. TypeOK /\ \A s \in Sessions : frame[s].seq \in Nat
  BY FramesAssumption DEF DurabilityInv, TypeOK
<1>2. \A s \in Sessions : step[s] = "commit" => key.expected <= frame[s].seq
  BY DEF OneHandler
<1> QED
  BY <1>1, <1>2, NoneLate, ExpectedMoves DEF Exists, Absent

\* Both invariants hold throughout.
LEMMA OneHandlerInduction ==
    ASSUME SingleSender, ~CommitMayLag
    PROVE  Spec => [](DurabilityInv /\ OneHandler)
<1>1. Init => OneHandler
  BY DEF Init, OneHandler, Busy
<1>2. DurabilityInv /\ OneHandler /\ [Next]_vars => OneHandler'
  BY OneHandlerStep DEF Receive
<1> QED
  BY <1>1, <1>2, DurabilityInduction, PTL DEF Spec

\* The unconditional SET of LUA_COMMIT never takes the expected sequence number
\* back while one session sends: an earlier number is never expected again
\* unless the key expired.
THEOREM NoRegression ==
    ASSUME SingleSender, ~CommitMayLag
    PROVE  Spec => ExpectedNeverRegresses
<1>1. DurabilityInv /\ OneHandler /\ [Next]_vars =>
        [key'.expected >= key.expected \/ ~Exists(key')]_vars
  BY AdvancesStep
<1> QED
  BY <1>1, OneHandlerInduction, PTL DEF Spec, ExpectedNeverRegresses

-----------------------------------------------------------------------------
\* With a key that does not expire, it dominates everything accepted so far.
LEMMA KeyDominatesStep ==
    ASSUME DurabilityInv, OneHandler, KeyDominates, [Next]_vars, ~CommitMayLag, ~KeyMayExpire
    PROVE  KeyDominates'
<1>0. /\ TypeOK /\ BufferInv
      /\ \A s \in Sessions : frame[s].seq \in Nat /\ SessionInv(s)
  BY FramesAssumption DEF DurabilityInv, TypeOK, HandlerInv
<1>1. \A s, t \in Sessions : Busy(s) /\ Busy(t) => s = t
  BY DEF OneHandler
<1>2. /\ \A i \in DOMAIN topic : topic[i].seq <= key.expected
      /\ \A p \in Procs : \A i \in DOMAIN buffer[p] : buffer[p][i].frame.seq <= key.expected
      /\ \A f \in acked : f.seq < key.expected
  BY DEF KeyDominates
<1>3. \A s \in Sessions :
        /\ step[s] \in {"send", "sending", "commit"} => key.expected = frame[s].seq
        /\ step[s] = "cleanup" \/ result[s] \in Acks => frame[s].seq < key.expected
        /\ result[s] = "SEQUENCE_OUT_OF_ORDER" => key.expected < frame[s].seq
        /\ result[s] \in {"DOWNSTREAM_TIMEOUT", "DOWNSTREAM_UNAVAILABLE"} =>
             key.expected = frame[s].seq
  BY DEF KeyDominates
<1>4. /\ key.expected \in Nat /\ key'.expected \in Nat
      /\ \/ key'.expected = key.expected
         \/ \E s \in Sessions : /\ step[s] = "commit"
                                /\ key.expected = frame[s].seq
                                /\ key'.expected = key.expected + 1
  BY <1>0, <1>3, NoneLate, ExpectedMoves DEF KeyExpires
<1>5. key.expected <= key'.expected
  BY <1>4
<1>6. \A f \in Frames : f.seq \in Nat
  BY FramesAssumption
<1>7. ASSUME NEW i \in DOMAIN topic' PROVE topic'[i].seq <= key'.expected
  <2>1. CASE topic' = topic
    <3>1. topic[i] \in Frames
      BY <2>1, <1>0, ElementOfSeq, LenProperties DEF TypeOK
    <3> QED
      BY <2>1, <3>1, <1>2, <1>4, <1>5, <1>6
  <2>2. ASSUME NEW p \in Procs, BrokerAppends(p) PROVE topic'[i].seq <= key'.expected
    <3>1. /\ 1 \in DOMAIN buffer[p] /\ Head(buffer[p]) = buffer[p][1]
          /\ Head(buffer[p]).frame \in Frames
      BY <2>2, <1>0, HeadOps, EntryFacts DEF BrokerAppends, TypeOK
    <3>2. /\ topic \in Seq(Frames) /\ Len(topic) \in Nat /\ DOMAIN topic = 1..Len(topic)
          /\ \A j \in DOMAIN topic : topic[j] \in Frames
      BY <1>0, ElementOfSeq, LenProperties DEF TypeOK
    <3>3. topic' = Append(topic, Head(buffer[p]).frame)
      BY <2>2 DEF BrokerAppends
    <3>4. \/ i \in DOMAIN topic /\ topic'[i] = topic[i]
          \/ topic'[i] = Head(buffer[p]).frame
      BY <3>1, <3>2, <3>3, AppendProperties, LenProperties
    <3> QED
      BY <3>1, <3>2, <3>4, <1>2, <1>4, <1>5, <1>6
  <2> QED
    BY <2>1, <2>2, Writers
<1>8. ASSUME NEW p \in Procs, NEW i \in DOMAIN buffer'[p]
      PROVE  buffer'[p][i].frame.seq <= key'.expected
  <2>1. /\ buffer[p] \in Seq(Entries)
        /\ \A j \in DOMAIN buffer[p] : buffer[p][j].frame.seq \in Nat
    BY <1>0, BufferOps, EntryFacts DEF TypeOK
  <2> DEFINE WasAccepted ==
               \/ \E j \in DOMAIN buffer[p] : buffer'[p][i].frame = buffer[p][j].frame
               \/ \E s \in Sessions : step[s] = "send" /\ buffer'[p][i].frame = frame[s]
  <2>2. WasAccepted
    <3>1. ASSUME NEW s \in Sessions, Enqueue(s) PROVE WasAccepted
      <4> DEFINE entry == [session |-> s, frame |-> frame[s], awaited |-> TRUE, stored |-> FALSE]
      <4>1. /\ entry \in Entries /\ entry.frame = frame[s] /\ step[s] = "send"
            /\ buffer' = [buffer EXCEPT ![ProcOf[s]] = Append(buffer[ProcOf[s]], entry)]
        BY <3>1, <1>0, SessionAssumption DEF Enqueue, Entries, TypeOK
      <4> HIDE DEF entry
      <4>2. CASE p = ProcOf[s]
        <5>1. buffer'[p] = Append(buffer[p], entry)
          BY <4>1, <4>2, <1>0 DEF TypeOK
        <5> QED
          BY <4>1, <5>1, <2>1, BufferOps
      <4>3. CASE p # ProcOf[s]
        BY <4>1, <4>3, <1>0 DEF TypeOK
      <4> QED
        BY <4>2, <4>3
    <3>2. ASSUME NEW s \in Sessions, SendTimesOut(s) PROVE WasAccepted
      <4>1. buffer'[p] = buffer[p] \/ buffer'[p] = Abandon(buffer[p], s)
        BY <3>2, <1>0 DEF SendTimesOut, TypeOK
      <4> QED
        BY <4>1, <2>1, AbandonOps
    <3>3. ASSUME NEW q \in Procs, Producer(q) PROVE WasAccepted
      <4>1. \/ buffer'[p] = buffer[p]
            \/ buffer[p] # << >> /\ buffer'[p] = MarkStored(buffer[p])
            \/ buffer[p] # << >> /\ buffer'[p] = Tail(buffer[p])
        BY <3>3, <1>0 DEF Producer, BrokerAppends, BrokerAcks, DeliveryFails, TypeOK
      <4>2. CASE buffer[p] # << >> /\ buffer'[p] = MarkStored(buffer[p])
        <5>1. /\ DOMAIN MarkStored(buffer[p]) = DOMAIN buffer[p]
              /\ \A j \in DOMAIN buffer[p] : MarkStored(buffer[p])[j].frame = buffer[p][j].frame
          BY <4>2, <2>1, HeadOps
        <5> QED
          BY <5>1, <4>2
      <4>3. CASE buffer[p] # << >> /\ buffer'[p] = Tail(buffer[p])
        <5>1. \A j \in DOMAIN Tail(buffer[p]) :
                 j + 1 \in DOMAIN buffer[p] /\ Tail(buffer[p])[j] = buffer[p][j + 1]
          BY <4>3, <2>1, HeadOps
        <5> QED
          BY <5>1, <4>3
      <4> QED
        BY <4>1, <4>2, <4>3
    <3>4. ASSUME NEW q \in Procs, Crash(q) PROVE WasAccepted
      <4>1. buffer'[p] = buffer[p] \/ buffer'[p] = << >>
        BY <3>4, <1>0 DEF Crash, TypeOK
      <4> QED
        BY <4>1
    <3>5. ASSUME NEW s \in Sessions, Handler(s), ~Enqueue(s), ~SendTimesOut(s) PROVE WasAccepted
      BY <3>5 DEF Handler, HandleMessage, Receive, FailValidation, Prepare, PrepareRaises, SendRefused,
         Commit, CommitRaises, Cleanup, Reply
    <3>6. CASE KeyExpires \/ UNCHANGED vars
      BY <3>6 DEF KeyExpires, vars
    <3> QED
      BY <3>1, <3>2, <3>3, <3>4, <3>5, <3>6, NoneLate DEF Next
  <2> QED
    BY <2>1, <2>2, <1>0, <1>2, <1>3, <1>4, <1>5
<1>9. ASSUME NEW f \in acked' PROVE f.seq < key'.expected
  <2>1. f \in acked \/ \E s \in Sessions : result[s] \in Acks /\ f = frame[s]
    BY Writers
  <2>2. f.seq \in Nat
    BY <2>1, <1>0, <1>6 DEF TypeOK
  <2> QED
    BY <2>1, <2>2, <1>2, <1>3, <1>4, <1>5
\* A session the step does not touch: the key moves only if it is idle.
<1>10. ASSUME NEW t \in Sessions, step'[t] = step[t], frame'[t] = frame[t],
              result'[t] = result[t], key'.expected = key.expected \/ ~Busy(t)
       PROVE  /\ step'[t] \in {"send", "sending", "commit"} => key'.expected = frame'[t].seq
              /\ step'[t] = "cleanup" \/ result'[t] \in Acks => frame'[t].seq < key'.expected
              /\ result'[t] = "SEQUENCE_OUT_OF_ORDER" => key'.expected < frame'[t].seq
              /\ result'[t] \in {"DOWNSTREAM_TIMEOUT", "DOWNSTREAM_UNAVAILABLE"} =>
                   key'.expected = frame'[t].seq
  BY <1>0, <1>3, <1>10 DEF Busy, SessionInv, Acks
<1>11. ASSUME NEW t \in Sessions
       PROVE  /\ step'[t] \in {"send", "sending", "commit"} => key'.expected = frame'[t].seq
              /\ step'[t] = "cleanup" \/ result'[t] \in Acks => frame'[t].seq < key'.expected
              /\ result'[t] = "SEQUENCE_OUT_OF_ORDER" => key'.expected < frame'[t].seq
              /\ result'[t] \in {"DOWNSTREAM_TIMEOUT", "DOWNSTREAM_UNAVAILABLE"} =>
                   key'.expected = frame'[t].seq
  <2> USE <1>0 DEF TypeOK
  <2>1. CASE Handler(t)
    <3>1. key \in Keys /\ frame[t].seq \in Nat
      OBVIOUS
    <3>2. CASE Receive(t)
      BY <3>2 DEF Receive, Goto, Acks, Busy, SessionInv
    <3>3. CASE FailValidation(t) \/ PrepareRaises(t) \/ CommitRaises(t)
      BY <3>3 DEF FailValidation, PrepareRaises, CommitRaises, Return, Acks
    <3>4. CASE Prepare(t)
      <4>1. key'.expected = key.expected /\ frame' = frame /\ result[t] = "none"
        BY <3>1, <3>4 DEF Prepare, Prepared, Keys, SessionInv
      <4>2. CASE PrepareStatus(key, frame[t].seq) = "PRE_CHECK_OK"
        BY <3>1, <3>4, <4>1, <4>2, <1>4 DEF Prepare, PrepareStatus, Goto, Acks
      <4>3. CASE PrepareStatus(key, frame[t].seq) = "IDEMPOTENT"
        <5>1. step'[t] = "reply" /\ result'[t] \in Acks
          BY <3>4, <4>3 DEF Prepare, Return, AckFor, Acks
        <5>2. frame[t].seq < key.expected
          BY <3>1, <4>3, <1>4 DEF PrepareStatus
        <5> QED
          BY <5>1, <5>2, <4>1 DEF Acks
      <4>4. CASE PrepareStatus(key, frame[t].seq) = "OUT_OF_ORDER"
        <5>1. step'[t] = "reply" /\ result'[t] = "SEQUENCE_OUT_OF_ORDER"
          BY <3>4, <4>4 DEF Prepare, Return
        <5>2. key.expected < frame[t].seq
          BY <3>1, <4>4, <1>4 DEF PrepareStatus
        <5> QED
          BY <5>1, <5>2, <4>1 DEF Acks
      <4> QED
        BY <4>2, <4>3, <4>4 DEF PrepareStatus
    <3>5. CASE Enqueue(t)
      BY <3>5, <1>3 DEF Enqueue, Goto, SessionInv, Acks
    <3>6. CASE SendRefused(t) \/ SendTimesOut(t)
      BY <3>6, <1>3 DEF SendRefused, SendTimesOut, Return, Acks
    <3>7. CASE Commit(t)
      <4>1. key'.expected = frame[t].seq + 1 /\ frame' = frame /\ result[t] = "none"
        BY <3>7 DEF Commit, Committed, SessionInv
      <4>2. \/ step'[t] = "cleanup" /\ result'[t] = "none"
            \/ step'[t] = "reply" /\ result'[t] \in Acks
        <5>1. CASE frame[t].event = "SESSION_COMPLETE"
          BY <3>7, <4>1, <5>1 DEF Commit, Goto
        <5>2. CASE frame[t].event # "SESSION_COMPLETE"
          BY <3>7, <5>2 DEF Commit, Return, AckFor, Acks
        <5> QED
          BY <5>1, <5>2
      <4> QED
        BY <4>1, <4>2, <3>1 DEF Acks
    <3>8. CASE Cleanup(t)
      <4>1. key'.expected = key.expected /\ frame' = frame
        BY <3>1, <3>8 DEF Cleanup, Cleaned, Keys
      <4>2. step'[t] = "reply" /\ result'[t] \in Acks
        BY <3>8 DEF Cleanup, Return, AckFor, Acks
      <4>3. frame[t].seq < key.expected
        BY <3>8, <1>3 DEF Cleanup
      <4> QED
        BY <4>1, <4>2, <4>3 DEF Acks
    <3>9. CASE Reply(t)
      BY <3>9 DEF Reply, Acks
    <3> QED
      BY <2>1, <3>2, <3>3, <3>4, <3>5, <3>6, <3>7, <3>8, <3>9 DEF Handler, HandleMessage
  <2>2. CASE /\ step[t] = "sending" /\ frame'[t] = frame[t] /\ key' = key
             /\ \/ step'[t] = "commit" /\ result'[t] = result[t]
                \/ step'[t] = "reply" /\ result'[t] = "DOWNSTREAM_UNAVAILABLE"
    BY <2>2, <1>3 DEF SessionInv, Acks
  <2>3. CASE step'[t] = "receive" /\ result'[t] = "none"
    BY <2>3 DEF Acks
  <2>4. CASE /\ ~Handler(t)
             /\ step'[t] = step[t] /\ frame'[t] = frame[t] /\ result'[t] = result[t]
    <3>1. key'.expected = key.expected \/ ~Busy(t)
      <4>1. ASSUME NEW s \in Sessions, Handler(s)
            PROVE  key'.expected = key.expected \/ ~Busy(t)
        <5>1. step[s] \in {"commit", "cleanup"} => ~Busy(t)
          BY <4>1, <2>4, <1>1 DEF Busy
        <5>2. \/ step[s] \in {"commit", "cleanup"}
              \/ key' = key \/ key' = Prepared(key, frame[s].seq)
          BY <4>1 DEF Handler, HandleMessage, Receive, FailValidation, Prepare, PrepareRaises, Enqueue,
             SendRefused, SendTimesOut, Commit, CommitRaises, Cleanup, Reply
        <5> QED
          BY <5>1, <5>2 DEF Prepared, Keys
      <4>2. ASSUME NEW q \in Procs, Producer(q) \/ Crash(q) PROVE key' = key
        BY <4>2 DEF Producer, BrokerAppends, BrokerAcks, DeliveryFails, Crash
      <4>3. CASE UNCHANGED vars
        BY <4>3 DEF vars
      <4> QED
        BY <4>1, <4>2, <4>3, NoneLate DEF Next, KeyExpires
    <3> QED
      BY <2>4, <3>1, <1>10
  <2> QED
    BY <2>1, <2>2, <2>3, <2>4, SessionsMove
<1> QED
  BY <1>7, <1>8, <1>9, <1>11 DEF KeyDominates

\* What such a key means for a client that retries: a number the partition holds
\* is not out of order, one acknowledged is not sent again, and a send that failed
\* is expected again.
LEMMA DominatingKeyServesRetries ==
    ASSUME DurabilityInv, KeyDominates
    PROVE  StoredNeverRefused /\ NoSendAfterAck /\ FailedSendIsRetryable
<1>1. StoredNeverRefused
  <2> SUFFICES ASSUME NEW s \in Sessions, result[s] = "SEQUENCE_OUT_OF_ORDER",
                      NEW i \in DOMAIN topic
               PROVE  topic[i].seq # frame[s].seq
    BY DEF StoredNeverRefused, Stored
  <2>1. topic[i].seq <= key.expected /\ key.expected < frame[s].seq
    BY DEF KeyDominates
  <2>2. topic[i].seq \in Nat /\ key.expected \in Nat /\ frame[s].seq \in Nat
    BY FramesAssumption, ElementOfSeq, LenProperties DEF DurabilityInv, TypeOK, Keys
  <2> QED
    BY <2>1, <2>2
<1>2. NoSendAfterAck
  BY FramesAssumption DEF DurabilityInv, TypeOK, Keys, KeyDominates, NoSendAfterAck
<1>3. FailedSendIsRetryable
  BY DEF KeyDominates, FailedSendIsRetryable, PrepareStatus
<1> QED
  BY <1>1, <1>2, <1>3

\* All three invariants hold throughout.
LEMMA KeyDominatesInduction ==
    ASSUME SingleSender, ~CommitMayLag, ~KeyMayExpire
    PROVE  Spec => [](DurabilityInv /\ OneHandler /\ KeyDominates)
<1>1. Init => KeyDominates
  BY DEF Init, KeyDominates, Acks
<1>2. DurabilityInv /\ OneHandler /\ KeyDominates /\ [Next]_vars => KeyDominates'
  BY KeyDominatesStep
<1> QED
  BY <1>1, <1>2, OneHandlerInduction, PTL DEF Spec

\* Lossless retry: a number the partition holds is never answered with E1006,
\* so retrying after a timeout or a failed commit cannot get a client stuck.
THEOREM NoStuckRetry ==
    ASSUME SingleSender, ~CommitMayLag, ~KeyMayExpire
    PROVE  Spec => []StoredNeverRefused
BY DominatingKeyServesRetries, KeyDominatesInduction, PTL

\* What was acknowledged is never produced a second time.
THEOREM NoDuplicateAfterAck ==
    ASSUME SingleSender, ~CommitMayLag, ~KeyMayExpire
    PROVE  Spec => []NoSendAfterAck
BY DominatingKeyServesRetries, KeyDominatesInduction, PTL

\* A failed or timed-out send leaves its own number expected.
THEOREM FailureKeepsRetry ==
    ASSUME SingleSender, ~CommitMayLag, ~KeyMayExpire
    PROVE  Spec => []FailedSendIsRetryable
BY DominatingKeyServesRetries, KeyDominatesInduction, PTL
=============================================================================
