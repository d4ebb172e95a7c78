------------------------ MODULE KafkaProducerProofs ------------------------
(***************************************************************************)
(* Theorems about the life of the Kafka client, for any number of handlers, *)
(* probes and clients.                                                      *)
(*                                                                         *)
(* Until an abrupt stop one task at a time is in charge of the client: the  *)
(* startup check creates it, handlers and probes only find it there, the    *)
(* release stops it.  The startup check may overlap the release, after a    *)
(* failed start: then the two may both stop it, but no one creates another. *)
(***************************************************************************)
EXTENDS KafkaProducer, TLAPS

Created == {c \in Clients : client[c] # "unused"}

\* A task that awaits start() has created the client it awaits.
StartingInv ==
    \A t \in Tasks : pc[t] = "starting" => of[t] \in Created

\* The startup check creates the first client.
CheckInv ==
    /\ pc["check"] = "idle" =>
         producer = None /\ Created = {} /\ stopped = {} /\ stage = "checking"
    /\ stage = "checking" /\ pc["check"] \in {"starting", "ready"} =>
         producer = of["check"] /\ producer # None /\ stopped = {}
    /\ stage = "checking" /\ pc["check"] = "ready" => client[producer] = "started"

\* While requests are served the client is started and everybody uses it.
ServingInv ==
    Serving =>
        /\ pc["check"] = "ready"
        /\ producer # None /\ client[producer] = "started" /\ producer \notin stopped
        /\ \A s \in Senders : pc[s] = "idle" \/ (pc[s] = "sending" /\ of[s] = producer)
        /\ \A p \in Probes : pc[p] \in {"idle", "pinging", "ready"}

\* Otherwise there are no requests.
QuietInv == ~Serving => \A t \in Requests : pc[t] = "idle"

\* run() releases at the end, and then nothing is left.
ReleaseInv ==
    /\ pc["run"] \in {"idle", "release", "released", "failed"}
    /\ pc["run"] # "idle" => stage \in {"releasing", "exited"} /\ Created \subseteq stopped
    /\ stage = "exited" => pc["run"] # "idle"

\* A client is stopped or can still be found; a close under way has nothing
\* left to find.
OwnedInv ==
    /\ \A c \in Created : c \in stopped \/ c = producer
    /\ \A t \in Tasks : pc[t] \in Closing => producer = None \/ producer \in stopped

LifeInv ==
    /\ StartingInv /\ CheckInv /\ ServingInv /\ QuietInv /\ ReleaseInv /\ OwnedInv

ProducerInv ==
    /\ ProducerTypeOK
    /\ abrupt => stage \in {"releasing", "exited"}
    /\ ~abrupt => LifeInv
-----------------------------------------------------------------------------
\* The process starts without a client and without requests.
LEMMA ProducerInit == Init => ProducerInv
<1> SUFFICES ASSUME Init PROVE ProducerInv
  OBVIOUS
<1> USE ProducerAssumption DEF Init, Tasks, Requests
<1>1. ProducerTypeOK
  BY DEF ProducerTypeOK
<1>2. LifeInv
  BY DEF LifeInv, StartingInv, CheckInv, ServingInv, QuietInv, ReleaseInv, OwnedInv,
         Created, Serving, Closing
<1> QED
  BY <1>1, <1>2 DEF ProducerInv

\* What _get_producer, close and the end of their awaits assign is of its type.
LEMMA CallTypes ==
    ASSUME ProducerTypeOK, NEW t \in Tasks,
           GetProducer(t) \/ ProducerStep(t)
    PROVE  /\ producer' \in Clients \cup {None}
           /\ client' \in [Clients -> {"unused", "starting", "started", "broken"}]
           /\ stopped' \in SUBSET Clients
           /\ pc' \in [Tasks -> {"idle", "starting", "ready", "sending", "pinging", "failed",
                                 "released"} \cup Closing]
           /\ of' \in [Tasks -> Clients \cup {None}]
<1> USE DEF ProducerTypeOK, Closing, Goto
<1>1. CASE GetProducer(t)
  BY <1>1 DEF GetProducer, Create, Got
<1>2. CASE StartReturns(t)
  BY <1>2 DEF StartReturns, Raise, Close, Got
<1>3. CASE StartRaises(t)
  BY <1>3 DEF StartRaises, Raise, Close
<1>4. CASE StopReturns(t)
  BY <1>4 DEF StopReturns
<1>5. CASE StopRaises(t)
  BY <1>5 DEF StopRaises, Raise, Close
<1> QED
  BY <1>1, <1>2, <1>3, <1>4, <1>5 DEF ProducerStep
\* Every step keeps the types.
LEMMA ProducerTypes == ProducerTypeOK /\ [Next]_vars => ProducerTypeOK'
<1> SUFFICES ASSUME ProducerTypeOK, [Next]_vars PROVE ProducerTypeOK'
  OBVIOUS
<1>1. ASSUME NEW t \in Tasks, GetProducer(t) \/ ProducerStep(t),
             UNCHANGED <<stage, abrupt, up, redis, seen>>, ping' \in [Probes -> BOOLEAN]
      PROVE  ProducerTypeOK'
  BY <1>1, CallTypes DEF ProducerTypeOK
<1>2. ping \in [Probes -> BOOLEAN]
  BY DEF ProducerTypeOK
<1>3. CASE CheckKafka
  BY <1>1, <1>2, <1>3 DEF CheckKafka, Tasks
<1>4. CASE CheckRedis
  BY <1>4 DEF CheckRedis, ProducerTypeOK
<1>5. CASE CheckTimesOut
  BY <1>5 DEF CheckTimesOut, Close, Goto, ProducerTypeOK, Closing
<1>6. CASE StartServing \/ StartupFails \/ BeginStop \/ FlushReturns \/ ServerReturns \/ Exit
  BY <1>6 DEF StartServing, StartupFails, BeginStop, FlushReturns, ServerReturns, Exit,
              ProducerTypeOK
<1>7. ASSUME NEW t \in Tasks, TaskStep(t) PROVE ProducerTypeOK'
  BY <1>1, <1>2, <1>7 DEF TaskStep
<1>8. ASSUME NEW s \in Senders, Send(s) PROVE ProducerTypeOK'
  BY <1>1, <1>2, <1>8 DEF Send, Tasks, Requests
<1>9. ASSUME NEW s \in Senders, SendEnds(s) PROVE ProducerTypeOK'
  BY <1>9 DEF SendEnds, Goto, ProducerTypeOK, Closing
<1>10. ASSUME NEW p \in Probes, ProbeArrives(p) \/ ProbeEnds(p) PROVE ProducerTypeOK'
  BY <1>10 DEF ProbeArrives, ProbeEnds, Goto, ProducerTypeOK, Closing
<1>11. ASSUME NEW p \in Probes, ProbePinged(p) PROVE ProducerTypeOK'
  <2>1. ping' \in [Probes -> BOOLEAN]
    BY <1>2, <1>11 DEF ProbePinged
  <2> QED
    BY <1>1, <1>11, <2>1 DEF ProbePinged, Tasks, Requests
<1>12. CASE StopAbruptly
  BY <1>12 DEF StopAbruptly, ProducerTypeOK
<1>13. CASE Release
  BY <1>13 DEF Release, Close, Goto, ProducerTypeOK, Closing
<1>14. ASSUME NEW d \in Dependencies, Reachability(d) PROVE ProducerTypeOK'
  <2>1. up' \in SUBSET Dependencies
    BY <1>14 DEF Reachability, ProducerTypeOK
  <2> QED
    BY <1>14, <2>1 DEF Reachability, ProducerTypeOK
<1>15. CASE UNCHANGED vars
  BY <1>15 DEF vars, ProducerTypeOK
<1> QED
  BY <1>3, <1>4, <1>5, <1>6, <1>7, <1>8, <1>9, <1>10, <1>11, <1>12, <1>13, <1>14, <1>15
     DEF Next

\* An abrupt stop is not taken back, and leads straight to the release.
LEMMA AbruptIsFinal ==
    ASSUME abrupt => stage \in {"releasing", "exited"}, [Next]_vars
    PROVE  /\ abrupt => abrupt'
           /\ abrupt' => stage' \in {"releasing", "exited"}
<1> USE DEF Serving
<1>1. CASE CheckKafka \/ CheckRedis \/ CheckTimesOut \/ StartServing \/ StartupFails
  BY <1>1 DEF CheckKafka, CheckRedis, CheckTimesOut, StartServing, StartupFails
<1>2. CASE BeginStop \/ FlushReturns \/ ServerReturns \/ StopAbruptly \/ Release \/ Exit
  BY <1>2 DEF BeginStop, FlushReturns, ServerReturns, StopAbruptly, Release, Exit
<1>3. ASSUME NEW t \in Tasks, TaskStep(t) PROVE UNCHANGED <<stage, abrupt>>
  BY <1>3 DEF TaskStep
<1>4. ASSUME NEW s \in Senders, Send(s) \/ SendEnds(s) PROVE UNCHANGED <<stage, abrupt>>
  BY <1>4 DEF Send, SendEnds
<1>5. ASSUME NEW p \in Probes, ProbeArrives(p) \/ ProbePinged(p) \/ ProbeEnds(p)
      PROVE  UNCHANGED <<stage, abrupt>>
  BY <1>5 DEF ProbeArrives, ProbePinged, ProbeEnds
<1>6. ASSUME NEW d \in Dependencies, Reachability(d) PROVE UNCHANGED <<stage, abrupt>>
  BY <1>6 DEF Reachability
<1>7. CASE UNCHANGED vars
  BY <1>7 DEF vars
<1> QED
  BY <1>1, <1>2, <1>3, <1>4, <1>5, <1>6, <1>7 DEF Next
\* Before an abrupt stop every step keeps what is known of the client's life.
LEMMA LifeStep ==
    ASSUME ProducerInv, ~abrupt, [Next]_vars, ~abrupt', ProducerTypeOK'
    PROVE  LifeInv'
<1> USE ProducerAssumption
    DEF ProducerInv, ProducerTypeOK, LifeInv, StartingInv, CheckInv, ServingInv, QuietInv,
        ReleaseInv, OwnedInv, Created, Serving, Closing, Tasks, Requests, Goto
<1>1. CASE CheckKafka
  BY <1>1 DEF CheckKafka, GetProducer, Create, Got
<1>2. CASE CheckRedis
  BY <1>2 DEF CheckRedis
<1>3. CASE CheckTimesOut
  BY <1>3 DEF CheckTimesOut, Close
<1>4. CASE StartServing
  BY <1>4 DEF StartServing, ChecksPass
<1>5. CASE StartupFails
  BY <1>5 DEF StartupFails
<1>6. CASE BeginStop \/ FlushReturns \/ ServerReturns \/ Exit
  BY <1>6 DEF BeginStop, FlushReturns, ServerReturns, Exit
<1>7. ASSUME NEW t \in Tasks, TaskStep(t) PROVE LifeInv'
  <2>1. t \in {"check", "run"} /\ ~Serving /\ (t = "run" => pc[t] = "release")
    BY <1>7 DEF TaskStep, ProducerStep, StartReturns, StartRaises, StopReturns, StopRaises
  <2>2. CASE StartReturns(t)
    BY <1>7, <2>1, <2>2 DEF TaskStep, StartReturns, Raise, Close, Got
  <2>3. CASE StartRaises(t)
    BY <1>7, <2>1, <2>3 DEF TaskStep, StartRaises, Raise, Close
  <2>4. CASE StopReturns(t)
    BY <1>7, <2>1, <2>4 DEF TaskStep, StopReturns
  <2>5. CASE StopRaises(t)
    BY <1>7, <2>1, <2>5 DEF TaskStep, StopRaises, Raise, Close
  <2> QED
    BY <1>7, <2>2, <2>3, <2>4, <2>5 DEF TaskStep, ProducerStep
<1>8. ASSUME NEW s \in Senders, Send(s) PROVE LifeInv'
  BY <1>8 DEF Send, TasksGoOn, GetProducer, Create, Got
<1>9. ASSUME NEW s \in Senders, SendEnds(s) PROVE LifeInv'
  BY <1>9 DEF SendEnds
<1>10. ASSUME NEW p \in Probes, ProbeArrives(p) \/ ProbeEnds(p) PROVE LifeInv'
  BY <1>10 DEF ProbeArrives, ProbeEnds, TasksGoOn
<1>11. ASSUME NEW p \in Probes, ProbePinged(p) PROVE LifeInv'
  BY <1>11 DEF ProbePinged, GetProducer, Create, Got
<1>12. CASE StopAbruptly
  BY <1>12 DEF StopAbruptly
<1>13. CASE Release
  BY <1>13 DEF Release, Close
<1>14. ASSUME NEW d \in Dependencies, Reachability(d) PROVE LifeInv'
  BY <1>14 DEF Reachability
<1>15. CASE UNCHANGED vars
  BY <1>15 DEF vars
<1> QED
  BY <1>1, <1>2, <1>3, <1>4, <1>5, <1>6, <1>7, <1>8, <1>9, <1>10, <1>11, <1>12, <1>13, <1>14,
     <1>15 DEF Next

\* The inductive invariant of the client's life.
LEMMA ProducerInvariant == Spec => []ProducerInv
<1>1. ProducerInv /\ [Next]_vars => ProducerInv'
  <2> SUFFICES ASSUME ProducerInv, [Next]_vars PROVE ProducerInv'
    OBVIOUS
  <2>1. ProducerTypeOK'
    BY ProducerTypes DEF ProducerInv
  <2>2. (abrupt => abrupt') /\ (abrupt' => stage' \in {"releasing", "exited"})
    BY AbruptIsFinal DEF ProducerInv
  <2>3. ASSUME ~abrupt' PROVE LifeInv'
    BY <2>1, <2>2, <2>3, LifeStep
  <2> QED
    BY <2>1, <2>2, <2>3 DEF ProducerInv
<1> QED
  BY ProducerInit, <1>1, PTL DEF Spec

\* A handler's send never meets a client that is being started or stopped
\* (kafka_producer.py:77, :141) unless the process stopped abruptly.
THEOREM SendsMeetStartedClient == Spec => []SendsReachStartedClient
<1>1. ProducerInv => SendsReachStartedClient
  BY DEF ProducerInv, LifeInv, ServingInv, QuietInv, SendsReachStartedClient, Requests
<1> QED
  BY ProducerInvariant, <1>1, PTL

\* An orderly exit leaves no client behind, whatever failed or was cancelled
\* during startup (main.py:107, :148).
THEOREM EveryClientStopped == Spec => []NoClientLeaked
<1>1. ProducerInv => NoClientLeaked
  BY DEF ProducerInv, LifeInv, ReleaseInv, NoClientLeaked, Created
<1> QED
  BY ProducerInvariant, <1>1, PTL

\* Handlers and probes never exchange the client they share.
THEOREM OneClientWhileServing == Spec => ProducerNeverReplaced
<1>1. ProducerInv /\ [Next]_vars => [Serving => producer' = producer]_vars
  <2> SUFFICES ASSUME ProducerInv, Next, Serving PROVE producer' = producer
    OBVIOUS
  <2>1. ~abrupt /\ LifeInv
    BY DEF ProducerInv, Serving
  <2> USE ProducerAssumption, <2>1
      DEF ProducerInv, ProducerTypeOK, LifeInv, ServingInv, ReleaseInv, Serving, Tasks, Requests
  <2>2. ASSUME NEW t \in Tasks, TaskStep(t) PROVE FALSE
    BY <2>2 DEF TaskStep, ProducerStep, StartReturns, StartRaises, StopReturns, StopRaises, Closing
  <2>3. ~CheckKafka /\ ~CheckTimesOut /\ ~Release
    BY DEF CheckKafka, CheckTimesOut, Release
  <2>4. ASSUME NEW s \in Senders, Send(s) \/ SendEnds(s) PROVE producer' = producer
    BY <2>4 DEF Send, SendEnds, GetProducer, Create
  <2>5. ASSUME NEW p \in Probes, ProbeArrives(p) \/ ProbePinged(p) \/ ProbeEnds(p)
        PROVE  producer' = producer
    BY <2>5 DEF ProbeArrives, ProbePinged, ProbeEnds, GetProducer, Create
  <2> QED
    BY <2>2, <2>3, <2>4, <2>5
       DEF Next, CheckRedis, StartServing, StartupFails, BeginStop, FlushReturns, ServerReturns,
           StopAbruptly, Exit, Reachability
<1> QED
  BY ProducerInvariant, <1>1, PTL DEF Spec, ProducerNeverReplaced
=============================================================================
