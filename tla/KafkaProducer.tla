--------------------------- MODULE KafkaProducer ---------------------------
(***************************************************************************)
(* The one KafkaProducer of a process: who creates, starts, uses and stops  *)
(* the aiokafka client behind `_producer`, from the startup check           *)
(* (main._check_kafka) over the handlers' send and the /ready probe to the  *)
(* release of resources (close_runtime_bundle).                             *)
(*                                                                         *)
(* All of them run in one event loop: an action is what a task does between *)
(* two awaits.  The awaits are AIOKafkaProducer.start() and stop(), a send, *)
(* a flush and a Redis ping; what they answer is the environment's choice.  *)
(* close() is entered in four places, told apart by the task's pc:          *)
(*   close1    _get_producer, when start() raised                           *)
(*   close2    ensure_ready, when _get_producer raised                      *)
(*   close3    _check_kafka, when the startup timeout cancelled the above   *)
(*   release   close_runtime_bundle                                         *)
(***************************************************************************)
EXTENDS FiniteSets

CONSTANTS
    Senders,     \* handler tasks that call send
    Probes,      \* requests of /ready
    Clients,     \* the AIOKafkaProducer objects (bound: as many as can be created)
    None         \* Python's None

ASSUME ProducerAssumption ==
    /\ Senders \cap Probes = {}
    /\ {"check", "run"} \cap (Senders \cup Probes) = {}
    /\ None \notin Clients

VARIABLES
    stage,       \* where run() is
    abrupt,      \* run() went on to the release without the server having ended
    up,          \* the dependencies that can be reached
    redis,       \* the result of _check_redis
    producer,    \* self._producer
    client,      \* what became of each client's start()
    stopped,     \* the clients stop() was called on
    pc,          \* where each task is
    of,          \* the client a task awaits
    seen,        \* the dependencies that could be reached at some time of a probe
    ping         \* what a probe's Redis ping answered

vars == <<stage, abrupt, up, redis, producer, client, stopped, pc, of, seen, ping>>

Requests == Senders \cup Probes
Tasks == Requests \cup {"check", "run"}
Dependencies == {"redis", "kafka"}
Closing == {"close1", "close2", "close3", "release"}

\* A server accepts requests, or the tasks of an abruptly ended one go on.
Serving == stage \in {"serving", "flushing", "draining"}
TasksGoOn == Serving \/ (stage = "releasing" /\ abrupt)

Init ==
    /\ stage = "checking"
    /\ abrupt = FALSE
    /\ up \in SUBSET Dependencies
    /\ redis = "pending"
    /\ producer = None
    /\ client = [c \in Clients |-> "unused"]
    /\ stopped = {}
    /\ pc = [t \in Tasks |-> "idle"]
    /\ of = [t \in Tasks |-> None]
    /\ seen = [t \in Probes |-> {}]
    /\ ping = [t \in Probes |-> FALSE]

-----------------------------------------------------------------------------
(* KafkaProducer *)

Goto(t, place) == pc' = [pc EXCEPT ![t] = place]

\* What _get_producer returned is what the caller wanted: send goes on to
\* send_and_wait, ensure_ready is done.
Got(t, c) ==
    /\ Goto(t, IF t \in Senders THEN "sending" ELSE "ready")
    /\ of' = [of EXCEPT ![t] = c]

\* Faulty variant: self._producer is assigned only when start() has returned.
CreateUnassigned(t, c) ==
    /\ client[c] = "unused"
    /\ client' = [client EXCEPT ![c] = "starting"]
    /\ of' = [of EXCEPT ![t] = c]
    /\ Goto(t, "starting")
    /\ UNCHANGED <<producer, stopped>>

\* self._producer = AIOKafkaProducer(...), then await producer.start().
Create(t, c) ==
    /\ client[c] = "unused"
    /\ client' = [client EXCEPT ![c] = "starting"]
    /\ producer' = c
    /\ of' = [of EXCEPT ![t] = c]
    /\ Goto(t, "starting")
    /\ UNCHANGED stopped

GetProducer(t) ==
    \/ producer = None /\ \E c \in Clients : Create(t, c)
    \/ producer # None /\ Got(t, producer) /\ UNCHANGED <<producer, client, stopped>>

\* close(): `if self._producer: await self._producer.stop()`.
Close(t, place) ==
    /\ UNCHANGED producer
    /\ IF producer = None
       THEN Goto(t, "failed") /\ UNCHANGED <<stopped, of>>
       ELSE /\ stopped' = stopped \cup {producer}
            /\ of' = [of EXCEPT ![t] = producer]
            /\ Goto(t, place)

\* An exception leaves _get_producer: ensure_ready closes once more.
Raise(t) ==
    IF t \in Senders THEN Goto(t, "failed") /\ UNCHANGED <<producer, stopped, of>>
    ELSE Close(t, "close2")

StartReturns(t) ==
    /\ pc[t] = "starting"
    /\ "kafka" \in up
    /\ client' = [client EXCEPT ![of[t]] = "started"]
    /\ IF producer = None   \* `assert producer is not None`
       THEN Raise(t)
       ELSE Got(t, producer) /\ UNCHANGED <<producer, stopped>>

StartRaises(t) ==
    /\ pc[t] = "starting"
    /\ client' = [client EXCEPT ![of[t]] = "broken"]
    /\ IF producer = None THEN Raise(t) ELSE Close(t, "close1")

\* stop() returns: `self._producer = None`, whatever it holds by now.  Behind
\* close1 the exception goes on to ensure_ready, which finds nothing to close.
StopReturns(t) ==
    /\ pc[t] \in Closing
    /\ producer' = None
    /\ Goto(t, IF t = "run" THEN "released" ELSE "failed")
    /\ UNCHANGED <<client, stopped, of>>

\* stop() raises: _producer keeps its value.
StopRaises(t) ==
    /\ pc[t] \in Closing
    /\ IF pc[t] = "close1" THEN Raise(t)
       ELSE /\ Goto(t, IF t = "run" THEN "released" ELSE "failed")
            /\ UNCHANGED <<producer, stopped, of>>
    /\ UNCHANGED client

ProducerStep(t) == StartReturns(t) \/ StartRaises(t) \/ StopReturns(t) \/ StopRaises(t)

-----------------------------------------------------------------------------
(* Startup (main.run, _check_redis, _check_kafka) *)

CheckKafka ==
    /\ stage = "checking" /\ pc["check"] = "idle"
    /\ GetProducer("check")
    /\ UNCHANGED <<stage, abrupt, up, redis, seen, ping>>

CheckRedis ==
    /\ stage = "checking" /\ redis = "pending"
    /\ \/ redis' = "ok" /\ "redis" \in up
       \/ redis' = "failed"
    /\ UNCHANGED <<stage, abrupt, up, producer, client, stopped, pc, of, seen, ping>>

\* Faulty variant: ensure_ready is awaited without a timeout.
NeverTimesOut == FALSE

\* wait_for cancels ensure_ready where it is; CancelledError passes both
\* `except Exception` and the handler of the timeout closes instead.
CheckTimesOut ==
    /\ pc["check"] \in {"starting", "close1", "close2"}
    /\ client' = [c \in Clients |->
                    IF c = of["check"] /\ pc["check"] = "starting" THEN "broken" ELSE client[c]]
    /\ Close("check", "close3")
    /\ UNCHANGED <<stage, abrupt, up, redis, seen, ping>>

ChecksPass == redis = "ok" /\ pc["check"] = "ready"

\* gather returns when both checks have, and raises with the first that fails:
\* the other one goes on.
StartServing ==
    /\ stage = "checking" /\ ChecksPass
    /\ stage' = "serving"
    /\ UNCHANGED <<abrupt, up, redis, producer, client, stopped, pc, of, seen, ping>>

StartupFails ==
    /\ stage = "checking"
    /\ pc["check"] # "idle"      \* both checks have begun before either can fail
    /\ redis = "failed" \/ pc["check"] = "failed"
    /\ stage' = "releasing"
    /\ UNCHANGED <<abrupt, up, redis, producer, client, stopped, pc, of, seen, ping>>

-----------------------------------------------------------------------------
(* Requests *)

Send(s) ==
    /\ TasksGoOn
    /\ pc[s] = "idle"
    /\ GetProducer(s)
    /\ UNCHANGED <<stage, abrupt, up, redis, seen, ping>>

\* Faulty variant: a send that failed drops the client for a new one.
SendEndsAnew(s) ==
    /\ pc[s] \in {"sending", "failed"}
    /\ Goto(s, "idle")
    /\ producer' = None
    /\ UNCHANGED <<stage, abrupt, up, redis, client, stopped, of, seen, ping>>

\* send_and_wait returns, raises or is given up by wait_for; a failed
\* _get_producer has raised to the handler.
SendEnds(s) ==
    /\ pc[s] \in {"sending", "failed"}
    /\ Goto(s, "idle")
    /\ UNCHANGED <<stage, abrupt, up, redis, producer, client, stopped, of, seen, ping>>

\* GET /ready: ping Redis ...
ProbeArrives(p) ==
    /\ TasksGoOn
    /\ pc[p] = "idle"
    /\ Goto(p, "pinging")
    /\ seen' = [seen EXCEPT ![p] = up]
    /\ UNCHANGED <<stage, abrupt, up, redis, producer, client, stopped, of, ping>>

\* ... then ensure_ready, whatever the ping said.
ProbePinged(p) ==
    /\ pc[p] = "pinging"
    /\ \/ ping' = [ping EXCEPT ![p] = TRUE] /\ "redis" \in up
       \/ ping' = [ping EXCEPT ![p] = FALSE]
    /\ GetProducer(p)
    /\ UNCHANGED <<stage, abrupt, up, redis, seen>>

\* The answer is out: 200 if both succeeded, else 503.
ProbeEnds(p) ==
    /\ pc[p] \in {"ready", "failed"}
    /\ Goto(p, "idle")
    /\ UNCHANGED <<stage, abrupt, up, redis, producer, client, stopped, of, seen, ping>>

AnswersReady(p) == pc[p] = "ready" /\ ping[p]

-----------------------------------------------------------------------------
(* Shutdown (main.run, _graceful_stop, close_runtime_bundle) *)

\* A signal: the sockets are closed and flush() is awaited.
BeginStop ==
    /\ stage = "serving"
    /\ stage' = "flushing"
    /\ UNCHANGED <<abrupt, up, redis, producer, client, stopped, pc, of, seen, ping>>

FlushReturns ==
    /\ stage = "flushing"
    /\ stage' = "draining"
    /\ UNCHANGED <<abrupt, up, redis, producer, client, stopped, pc, of, seen, ping>>

\* Faulty variant: server_task is not awaited after should_exit.
LeaveAtOnce ==
    /\ stage = "draining"
    /\ stage' = "releasing"
    /\ UNCHANGED <<abrupt, up, redis, producer, client, stopped, pc, of, seen, ping>>

\* The server returns when its requests have ended.
ServerReturns ==
    /\ stage = "draining"
    /\ \A t \in Requests : pc[t] = "idle"
    /\ stage' = "releasing"
    /\ UNCHANGED <<abrupt, up, redis, producer, client, stopped, pc, of, seen, ping>>

\* The server fails, the stop timeout fires or flush raises: the release
\* begins while tasks of connections may still run.
StopAbruptly ==
    /\ Serving
    /\ stage' = "releasing" /\ abrupt' = TRUE
    /\ UNCHANGED <<up, redis, producer, client, stopped, pc, of, seen, ping>>

\* close_runtime_bundle: the producer first.
Release ==
    /\ stage = "releasing" /\ pc["run"] = "idle"
    /\ Close("run", "release")
    /\ UNCHANGED <<stage, abrupt, up, redis, client, seen, ping>>

\* Then the Redis clients; asyncio.run cancels what is left.
Exit ==
    /\ stage = "releasing" /\ pc["run"] \in {"released", "failed"}
    /\ stage' = "exited"
    /\ UNCHANGED <<abrupt, up, redis, producer, client, stopped, pc, of, seen, ping>>

\* A dependency goes away or comes back.
Reachability(d) ==
    /\ up' = IF d \in up THEN up \ {d} ELSE up \cup {d}
    /\ seen' = [p \in Probes |-> IF pc[p] = "idle" THEN seen[p] ELSE seen[p] \cup up']
    /\ UNCHANGED <<stage, abrupt, redis, producer, client, stopped, pc, of, ping>>

-----------------------------------------------------------------------------
TaskStep(t) == ProducerStep(t) /\ UNCHANGED <<stage, abrupt, up, redis, seen, ping>>

Next ==
    /\ stage # "exited"
    /\ \/ CheckKafka \/ CheckRedis \/ CheckTimesOut \/ StartServing \/ StartupFails
       \/ \E t \in Tasks : TaskStep(t)
       \/ \E s \in Senders : Send(s) \/ SendEnds(s)
       \/ \E p \in Probes : ProbeArrives(p) \/ ProbePinged(p) \/ ProbeEnds(p)
       \/ BeginStop \/ FlushReturns \/ ServerReturns \/ StopAbruptly \/ Release \/ Exit
       \/ \E d \in Dependencies : Reachability(d)

Spec == Init /\ [][Next]_vars

\* The loop runs its tasks, a ping is answered or fails, the timer of the startup
\* timeout fires and stop() comes to an end.  Nothing is assumed of start().
Fairness ==
    /\ WF_vars(CheckKafka) /\ WF_vars(CheckRedis) /\ WF_vars(CheckTimesOut)
    /\ WF_vars(StartServing) /\ WF_vars(StartupFails)
    /\ WF_vars(Release) /\ WF_vars(Exit)
    /\ \A t \in {"check", "run"} :
         WF_vars((StopReturns(t) \/ StopRaises(t)) /\ UNCHANGED <<stage, abrupt, up, redis, seen, ping>>)

FairSpec == Spec /\ Fairness

-----------------------------------------------------------------------------
\* Every variable keeps its shape.
ProducerTypeOK ==
    /\ stage \in {"checking", "serving", "flushing", "draining", "releasing", "exited"}
    /\ abrupt \in BOOLEAN
    /\ up \in SUBSET Dependencies
    /\ redis \in {"pending", "ok", "failed"}
    /\ producer \in Clients \cup {None}
    /\ client \in [Clients -> {"unused", "starting", "started", "broken"}]
    /\ stopped \in SUBSET Clients
    /\ pc \in [Tasks -> {"idle", "starting", "ready", "sending", "pinging", "failed", "released"}
                        \cup Closing]
    /\ of \in [Tasks -> Clients \cup {None}]
    /\ seen \in [Probes -> SUBSET Dependencies]
    /\ ping \in [Probes -> BOOLEAN]

\* Until an abrupt stop a send goes to a client whose start() has succeeded and
\* stop() was not called: _producer is published before it is started
\* (kafka_producer.py:77) and cleared after it is stopped (:141), and yet no
\* handler meets it in between.
SendsReachStartedClient ==
    ~abrupt => \A s \in Senders : pc[s] = "sending" =>
                  client[of[s]] = "started" /\ of[s] \notin stopped

\* Unless the stop was abrupt, every client ever created was told to stop when
\* the process exits: also when Redis fails while start() is awaited, when
\* start() raises, or when the timeout cancels start() or a close under way.
NoClientLeaked ==
    stage = "exited" /\ ~abrupt => \A c \in Clients : client[c] # "unused" => c \in stopped

\* While requests are served, /ready and send never replace the client: all
\* records of the process pass through one accumulator, in order.
ProducerNeverReplaced == [][Serving => producer' = producer]_vars

\* Startup is decided in bounded time: the process serves or exits, also when the
\* broker never answers and when one check fails while the other is in flight.
StartupEnds == <>(stage \in {"serving", "exited"})

\* /ready answers 200 only if Redis and Kafka could be reached during the probe.
ReadyMeansReachable ==
    Serving => \A p \in Probes : AnswersReady(p) => Dependencies \subseteq seen[p]
=============================================================================
