# A TLA+ verification of the Realtime Transcribe Service

The service is a WebSocket gateway: a client streams the transcript frames of a
call, numbered from 0; the service checks each frame's number against a key in
Redis, writes the frame to Kafka, advances the key and acknowledges. Several
service tasks share one Redis and one Kafka topic; each task is one asyncio
event loop. This directory models the parts where that can go wrong,
model-checks them with TLC and proves the central properties with TLAPS.

Paths below are relative to `src/src/realtime_transcribe_service/`.

## Inventory

| Component | State it keeps | Operations | What makes it correct |
| --- | --- | --- | --- |
| Sequence state machine (`redis/sequence_state_machine.py`) | one key per conversation: expected number, TTL | Lua `prepare`, `commit`, `cleanup` | `prepare` never advances; the key never promises more than Kafka has |
| Two-phase orchestrator (`orchestrator/two_phase.py`) | none of its own | `handle_message`: validate, prepare, send, commit, cleanup, answer | zero loss, order, lossless retry, no resend after an ACK |
| Kafka producer (`producer/kafka_producer.py`) | the aiokafka client and its accumulator | `send` with a timeout, `flush`, `close`, `ensure_ready` | a send given up must not be taken for a send that failed; handlers never meet a client that is starting or stopping; no client is left behind |
| Ownership guard (`redis/ownership_guard.py`) | one key per conversation: token, TTL | `claim_or_refresh`, `release` | a lease is never taken over, and it outlives its holder's work |
| WebSocket session (`transport/session.py`) | accepted socket, refresh task | accept, message loop, refresh, closes, `finally` | sends only while it owns the lease; always gives it back or lets it expire |
| Handshake middleware (`transport/app.py`) | none | admission checks, claim | rejects while draining, at the limit, and when another sender is active |
| Connection registry (`transport/registry.py`) | sockets per conversation, a count | `add`, `remove`, `close_all` | holds exactly the running sessions; reaches all of them at shutdown |
| Process lifecycle (`main.py`, `service_runtime.py`, `shutdown/graceful.py`) | drain flag, uvicorn server | startup checks, signal, graceful stop, release | resources outlive their users; a signal ends the service |
| Schemas and scenarios (`schemas/`) | none | validation, error mapping | accepts what reads as the contract's; names the fault |
| Kafka connection profiles (`producer/kafka_connection.py`) | the cached IAM token, a lock | `token` from executor threads | tokens are valid when handed out and not signed for every connection |
| Settings (`config/settings.py`) and the wiring (`*/runtime.py`, `service_runtime.py`) | validated settings | validators, environment rules, constructors | what is accepted satisfies what the wiring asserts |
| Secrets loader (`config/secrets_loader.py`) | `os.environ` | merge of `.env`, process and secret | the published values are the effective ones |
| Deployment secrets sync (`ci-cd/sync_secret.py`) | the secret in Secrets Manager | render, validate, describe, create or put | what it publishes boots; repeated runs converge |
| Authentication (`auth/`) | none | check of a bearer token | its wiring is modelled, the check is not |
| Converter, logging | none that anything depends on | | not modelled, see below |

How they interact: the middleware claims the conversation's lease and hands the
token to the endpoint; the endpoint registers the socket and runs two tasks, the
message loop (which calls the orchestrator, which awaits Redis and Kafka) and the
refresh loop. The two tasks share only the socket. **Nothing ties the lease to
the sequence key**: the orchestrator takes for granted that it is the only
sender. The hard behaviours follow: interleaving at every await, Redis calls that
raise after they took effect or take effect long after, sends that time out and are delivered later, late
refreshes, killed tasks, keys that expire, handshakes that are halfway
through when the process starts to stop, and startup checks, probes and the
release that all touch the one Kafka client. Before any of it, configuration
travels from TOML files over a secret into the task's environment, past two
validations in two different processes. `PROJECT.json` lists the hazards one by
one with the properties that watch them.

## Modules

| Module | What it is |
| --- | --- |
| `SessionsAndTasks` | the constants the lease and the handlers share: sessions and the processes they live in |
| `SequenceStateMachine` | the three Lua scripts as operators on the key's value |
| `TwoPhaseOrchestrator` | `handle_message` for one conversation: sessions, Redis key, accumulators, partition; EXTENDS the two above |
| `LosslessTranscript` | the promise: an ordered, growing partition and ACKs only for what it holds |
| `SessionOwnership` | the lease and the sessions that claim, refresh and release it, in discrete time |
| `ConversationService` | composition: sessions that hold the lease run the orchestrator; EXTENDS `SessionOwnership` and `TwoPhaseOrchestrator` |
| `LosslessDelivery` | a client that resends until acknowledged, over `TwoPhaseOrchestrator` with a budget of faults |
| `ServiceProcess` | one process: startup, admission, registry, graceful stop |
| `KafkaProducer` | the Kafka client of one process: startup check, handlers, `/ready`, release |
| `TokenProvider` | the IAM token cache and the threads that share it |
| `FrameValidation` | the answer to one frame before anything downstream is called |
| `ServiceSettings` | `Settings` as operators on an environment, and what the wiring makes of the result |
| `DeployedConfiguration` | sync script, secret, loader and task start; EXTENDS the former |
| `TwoPhaseOrchestratorProofs`, `SessionOwnershipProofs`, `ConversationServiceProofs`, `ServiceProcessProofs`, `KafkaProducerProofs`, `TokenProviderProofs`, `FrameValidationProofs`, `DeployedConfigurationProofs` | theorems |
| `MCTwoPhase`, `MCDelivery`, `MCOwnership`, `MCConversation`, `MCService`, `MCKafka`, `MCToken`, `MCFrames`, `MCConfiguration` | TLC instances |

Operators named after another one and marked *Faulty variant* are plausible bugs
in that operator. No specification uses them; they exist to show that the
property they are paired with in `PROJECT.json` notices.

### TwoPhaseOrchestrator

State: the Redis `key` (expected number and which TTL it was last given), the
Kafka partition `topic`, one aiokafka accumulator `buffer` per process, and per
session the await its handler is suspended at (`step`), its `frame` and what
`handle_message` returned (`result`). `late` are the frames whose commit is on its
way to Redis although its caller is gone. `acked` is a history variable.

A handler is cut at its awaits, and each action is everything the code does up
to the next one: `Receive` (message loop), `FailValidation` (scenario D),
`Prepare` (A, B, C), `PrepareRaises`, `Enqueue`, `SendRefused`, `SendTimesOut`,
`DeliveryFails` (E), `Commit`, `CommitRaises` (F), `Cleanup` (G), `Reply`.
A Redis call that raises may or may not have run its script. `SendTimesOut`
abandons the wait and leaves the record in the accumulator, so `BrokerAppends`
may still store it. `SendRefused` is everything that raises before the record is
queued: the client that cannot be had (E1008, E1011) and the conversion of the
payload, which no branch of `_process` catches (E1007). The environment adds
`KeyExpires`, `Crash` and `LateCommit`: a commit whose call raised, or whose task was
killed while it awaited the answer, may run at any later time, and a call that was
repeated more than once. A `prepare` or `cleanup` that
arrives late never moves the expected number, only the TTL, and is not kept.

External, modelled from the producer's arguments: `acks=all` and idempotence,
hence one accumulator per process drained in order and never twice. A delivery
that fails may have been stored.

`SingleSender` restricts `Receive` to a conversation nobody else is handling; it
is what the ownership guard is for, and the lossless-retry properties are stated
under it. `KeyMayExpire` switches `KeyExpires`, `CommitMayLag` switches `LateCommit`:
`LUA_COMMIT` is an unconditional `SET`, so one that arrives late undoes newer ones
whoever sends, and the lossless-retry properties are stated without it. Zero loss,
order and the promise need neither.

### SessionOwnership

State: the token in the key (`holder`), its remaining TTL (`left`), and per
session its `phase`, the state of its refresh task (`refresh`) and a `timer`.
`straggler` are claim calls that were cancelled or given up and may still reach
Redis. `Tick` is one unit of time.

`Timely` says whether steps respect their bounds: `Interval` is how long the
refresh task sleeps, `Delay` bounds a Redis call and the handing on of its
answer, `Handling` bounds what a session may still do after its refresh task
decided to close the socket. Nothing in the code enforces the bounds, which is
why most properties are checked without them. `Interval < Ttl` is the validator
of `config/settings.py:274`.

### ConversationService

Extends the two, over the same sessions; the names of the lease's specification
begin with `Owner` (`OwnerInit`, `OwnerNext`, `OwnerSpec`), those of the
composition with `Service`. `Handle` runs a step of `handle_message` while the
session is open or being closed; `Respond` sends the answer and goes on or ends the
session; `Disconnect` ends it while it awaits a frame. Lease steps (`LeaseStep`),
the backends (`BackendStep`) and crashes (`TaskCrash`) interleave freely with them.
The orchestrator is composed without its single-sender switch (`UntoldAssumption`):
that there is one sender has to follow from the lease.

### ServiceProcess

`conn` is where each connection's task is (`claiming` and `granted` are the two
awaits between the admission checks and `registry.add`). `registry` and `count`
are `ConnectionRegistry`; `list`, `shared`, `current` and `sockets` are
`close_all`'s locals. `add` appends to a conversation's list in place while
`remove` replaces it, so a snapshot taken by `close_all` sees later additions
only while its list is still the registry's own object: `shared` keeps track of
that. uvicorn is external: `serve()` returns after `should_exit` once no
connection task is left, and it may react to the signal itself; a second SIGINT makes
it return at once (`ForceExit`), and the stop then counts as cut short.

### LosslessDelivery

The client of the API contract: one frame at a time, in order, resent until its
ACK arrives. `Work` and `Deliver` are what the server does when nothing fails;
`Fault` is every failure action of `TwoPhaseOrchestrator`, a frame out of turn
and an ACK that is lost with its connection, each drawing on `MaxFaults`. Commits do
not lag (`PromptAssumption`). The
question is whether every path through the failures leads back to an
acknowledged call.

### KafkaProducer

`producer` is `self._producer`, `client` what became of each client's `start()`,
`stopped` the clients `stop()` was called on; `pc` says which await a task is
suspended at. The tasks are the startup check, handlers in `send`, requests of
`/ready`, and `run()`. `close()` is entered from four places, and each of them
may find another task's client: `_producer` is set before `start()` has returned
and cleared after `stop()` has. `CheckTimesOut` is `wait_for` cancelling
`ensure_ready` wherever it is. `StopAbruptly` is the stop timeout, a failed flush
or a failed server: then the release begins while tasks of connections still run,
and the safety properties say so (`~abrupt`). What `start()`, `stop()` and pings
answer is the environment's choice, except that none succeeds against a
dependency that cannot be reached.

### TokenProvider

A thread reads the clock, waits for the lock, compares the cached expiry with
that clock and signs a new token if need be. `Patience` bounds a call, waiting and
signing included; the assumption `Patience <= Margin` (the margin is 60 s) is not
enforced by the code but is far from what the calls take.

### ServiceSettings and DeployedConfiguration

An environment is a function from names to texts; the names are the variables
whose values depend on one another or on `APP_ENV`, the texts are the classes the
validators tell apart (blank, scoped or unscoped prefix, seconds scaled down to
0..3, and so on). Values of JSON or TOML that are no text (the sentinel that
removes a key, `null`, a nested value) are converted as the code converts them.

`DeployedConfiguration` follows one secret: runs of `sync_secret.py` that overlap
and fail before or after a write, an edit of any layer, of the task definition or
of the secret itself, and tasks that start from whatever is there. `shell`,
`dotenv` and `process` may each hold a developer's complete environment, which is
what the isolation of the validation and the precedence of the merge are for.

### FrameValidation

A frame (`Frames`) says of each field what validation tells apart, in any
combination; `Inputs` is any set of them, with texts that are not JSON or not an
object. pydantic is external: errors come in declared order, so an error is known by
its field's position, and a model validator runs only without field errors. The models
are validated in pydantic's default mode: a value of another type is an error only if
pydantic cannot convert it. `lax`, `laxTrue` and `laxFalse` are the values it can (a
numeric string or an integral float for `sequenceNumber`, "true" or 1 for `isFinal`,
a number of seconds for a timestamp) and timestamps beyond the contract's 32
characters, a limit the code does not have; `Converted` is the model that is built
from them, which the business rules see (`BrokenRule`). The model has the checks of the message loop, the business rules, and
the mapping of the first error of a known type to a scenario. `transcript`,
`engineProvider` and `dialect` are one field, having the same rules.

## Runs

| Run | Instance and bounds | Shows |
| --- | --- | --- |
| `races` | 2 sessions in 2 processes, frames 0, 1 and COMPLETE 2, 4 frames received, key may expire, commits may lag, no single-sender assumption | type, zero loss, Redis behind Kafka, topic order, final TTL only after COMPLETE, meaning of EOL_ACK, refinement of `LosslessTranscript` |
| `delivery` | 2 sessions in 2 processes, the same call, `SingleSender`, a live key, no lagging commits, 4 faults, 7 frames received (3 and one retry per fault) | lossless retry, no resend after an ACK, no regression; the whole call is acknowledged in the end |
| `lease_stalls` | 3 sessions in 2 processes, Ttl 4, Interval 2, no timing bounds, fairness | a lease ends only properly; an overtaken sender stops; a dead lease ends |
| `service_timely` | 2 sessions, 2 processes, Ttl 5, 3 frames, commits may lag | whoever handles a frame holds the lease; the composition implements the orchestrator with one sender |
| `service_regress` | 2 sessions, no timing bounds, no lagging commits, expected violation | a late commit sets the expected number back |
| `shutdown` | 3 connections, 2 of one conversation, limit 2 | registry, `close_all`, release of resources, end of the service after a signal |
| `latecomer` | no limit, expected violation | a session opens behind `close_all` |
| `producer` | 2 handlers, 1 probe, 3 clients, fairness | sends meet a started client; none is leaked or replaced; startup is decided |
| `ready` | the same, expected violation | `/ready` answers 200 while Kafka is away |
| `token` | 3 threads, lifetime 4, margin 2, calls of up to 2, time to 9 | tokens are fresh and not signed twice |
| `frames` | all frames within 3 faults or conversions of a well-formed one | accepted exactly if they meet the contract once converted; known faults are named |
| `config` | 2 overlapping runs of the script, one edit out of 23 in any place, 1 failed call, with and without a developer's shell, `.env` and task environment | what was synced boots and is effective; accepted settings are wired; runs converge |

Why the bounds are enough to be interesting. Two sessions in two processes are
the smallest fail-over, and every race of the orchestrator is between a stale
handler and a current one. Four received frames allow a send, its timeout, the
retry and the late delivery of the first record, a replay below the expected
number, and a commit that runs after those of two later frames. `races` reaches every scenario A to G. In `delivery` four faults can hit
one frame four times or every frame of the call. In `service_timely` the TTL is the
smallest the theorem `SenderIsOwner` allows. `shutdown` has two connections of one
conversation because that is when lists in the registry are shared or replaced.
`producer` has three clients: one for the startup, and two that tasks running on
after an abrupt stop may create. In `token` the margin equals the longest call, so
a token may be handed out in its last moment, and two renewals fit in the bound.
In `config` one edit suffices to reach every rule from a working configuration, and
two runs of the script are the smallest overlap.

Deadlock checking is off: clients may stop sending, sessions are used once and a
process exits.

**Fairness.** `SessionOwnership!OwnerFairSpec`: time passes, Redis expires keys, a
refresh task keeps being scheduled and its call returns or raises, and a session
whose socket was closed ends (its receive raises). Nothing is assumed of
clients, releases or claims. `ServiceProcess!FairSpec`: `run()` is woken by
the signal, and `STOP_TIMEOUT` fires (`asyncio.wait_for`). Clients, handlers, startup
checks, the sweep, the flush, `serve()` and the release may all hang:
`close_runtime_bundle` has no timeout (`main.py:215`), and `stop()` of an aiokafka
client flushes once more, so `SignalEndsService` promises that the service is given
up and the release begins, and nothing is promised about when the process exits. `KafkaProducer!FairSpec`: the loop runs the
startup tasks and `run()`, a ping is answered or fails, the startup timeout fires,
and `stop()` returns or raises (the same assumption about aiokafka); nothing is
assumed of `start()`, which may hang for ever. `LosslessDelivery`: the client goes on
sending, handlers are scheduled and their Redis calls return, the broker stores
what it is given; failures need no fairness and are bounded. `DeployedConfiguration`:
a run of the script goes on, and operators repeat it as long as the secret is not
what the repository says.

## What disagrees with the documentation

Three runs show the code doing something else than a document says; each quotes its
line in `PROJECT.json`.

1. *The expected number goes back* (`design-guardrails.md:33`): `LUA_COMMIT` is an
   unconditional `SET`. A lease is looked at only every refresh interval, so a late
   refresh leaves two sessions sending for a while, and the overtaken one can undo its
   successor's commits. No acknowledged frame is lost by it (`AckedIsStored` holds in
   the same situation); the client of the newer session is refused with E1006.
   `SenderIsOwner` says how much slack keeps the lease from being overtaken; a commit
   that reaches Redis after its caller gave up can do the same within one session.
2. *A session opens behind the sweep* (`design-guardrails.md:58`): the drain flag is
   read before two awaits and not again after them.
3. *`/ready` says yes without asking* (`aws-ha-autoscaling-checklist.md:8`): after the
   startup check `ensure_ready` finds `_producer` set and returns.

Behaviour met while modelling that no run of its own is spent on:

* Type mismatches are accepted. `api-contract.md:403-404` makes a "Field type mismatch"
  E1004 and a "Timestamp not valid ISO-8601 UTC" E1005, and its section 2.2 gives every
  field a type and timestamps 32 characters; `InboundMessage` is validated in pydantic's
  default mode (`orchestrator/two_phase.py:108`), which converts `"5"`, `"true"`, `1` and
  epoch seconds, and no timestamp has a length limit. `AcceptedIffReadsAsContract`
  states it both ways, in `frames` and as a theorem: every frame that
  meets the contract once converted is accepted although it does not as sent, and
  nothing else that the contract forbids gets past.
* The connection limit is checked before the same two awaits and counted after them
  (`transport/app.py:242`), so handshakes in flight together exceed it.
* A length or range violation is an error of a type `_classify_validation_error` does
  not know and is answered with E1003, whose description speaks of required fields
  (`api-contract.md:424`). The contract's example ERROR frame (`api-contract.md:324`)
  has E1003 for a missing `callEndTimeStamp`, which the code and the scenario table of
  the same document (E-15) answer with E1009.
* The comment on `DEPLOYED_BOOTSTRAP_ENV_KEYS` (`constants.py:28`) says these keys are
  always taken from the process; one that the process does not set is taken from the
  secret or `.env` like any other (`config/secrets_loader.py:171`).
* `APP_ENV=deployed` that stands only in `.env` skips the loader, which looks at the
  process alone, but turns on the deployed rules of `Settings`.

## Theorems

TLC checks small instances; TLAPS proves for every set of sessions, processes and
frames, handlers, probes, clients and threads, and every value of the timing
constants:

* `TwoPhaseOrchestratorProofs`: `TypeCorrect`, `NoAcknowledgedLoss`,
  `RedisNeverAhead`, `TranscriptInOrder`, `NoEarlyFinalTtl`, `EolAckSound` and
  `ImplementsPromise`, without any assumption on how many sessions send, when the
  key expires, which commits arrive late or what crashes. (`EolAckSound` assumes that clients give a sequence
  number one event type.)
  `NoRegression` assuming `SingleSender` and that no commit lags; `NoStuckRetry`,
  `NoDuplicateAfterAck` and `FailureKeepsRetry` assuming also that the key does not
  expire.
* `SessionOwnershipProofs`: `OwnerTypeCorrect`, `LeaseIsSafe` whatever the timing;
  `SenderIsOwner` and `AtMostOneSender` assuming
  `LeaseLongEnough`, that is `Timely /\ Ttl > Interval + 2 * Delay + Handling`.
* `ConversationServiceProofs`, about the whole conversation: `ServiceKeepsLease`,
  `ServiceOrchestrates` and `ServiceKeepsPromise` (zero loss and the promise) whatever
  the timing; assuming `LeaseLongEnough` also `ServiceSenderIsOwner`,
  `ServiceHasOneSender` (the refinement `ServesOneSender`); if moreover no commit lags
  `ServiceNeverRegresses`, and with a key that does not expire `ServiceRetriesAreSafe`.
* `ServiceProcessProofs`: `ProcessTypeCorrect`, `RegistryStaysExact`,
  `SweepTellsExisting` and `ReleaseFindsIdle`, for any number of connections and
  conversations and any limit.
* `KafkaProducerProofs`: `SendsMeetStartedClient`, `EveryClientStopped` and
  `OneClientWhileServing`, whatever dependencies, `start()` and `stop()` do.
* `TokenProviderProofs`: `TokensAreFresh` and `SigningIsRare`, assuming
  `Patience <= Margin < Life`.
* `FrameValidationProofs`: `AcceptsWhatReadsAsContract` and `ErrorsAreNamed`, for
  every frame, where the run stops at three faults.
* `DeployedConfigurationProofs`: `SyncedSecretAlwaysBoots`, `PublishedAlwaysEffective`
  and `RunningAlwaysWired`, for any layers, edits, shells, `.env` files and task
  definitions, any number of overlapping runs and of failed calls. The assumption on
  the constants says that files are three tables and that neither TOML nor an edit
  yields Python's `None` or a JSON `null` in them.

**The durability argument.** None of the safety properties is inductive alone. An
ACK is sound because the handler was past the commit, or prepare found the number
below the expected one; the key is sound because a handler at the commit has its
record in the partition; that holds because the record it awaited was marked
stored. `DurabilityInv` says exactly this chain: what each await of a handler may
rely on (`HandlerInv`), what each record in an accumulator implies (`BufferInv`,
`EntryInv`: its predecessors are stored, and an awaited record belongs to the
session suspended in that send), that a session awaits at most one record
(`AwaitedOnce`), and that a commit still on its way is one of a stored record
(`LateInv`). It survives a late delivery because a record's predecessors are
stored at the time it is queued and the partition only grows, and it survives a
key's expiry because an expired key promises nothing. `OneHandler` adds that
at most one handler runs and nobody moves the key under it, `KeyDominates` that a
live key dominates all that was ever accepted. Their step lemmas ask only that a frame
is received while no handler runs, for whatever reason, so that the composition can
use them too.

**The lease argument.** `LeaseInv` bounds from below, at every stage of a session,
the TTL its key has left: more than everything the session may still have to wait
for before it renews the lease or stops. A session whose refresh could find BUSY
therefore does not exist.

**The composition.** A step of the service is a step or a stutter of each part
(`IsOwnerStep`, `IsOrchestratorStep`), so what holds of a part whatever the timing holds
of the service. The converse question, whether the lease gives the orchestrator its one
sender, needs one invariant across the two: `BusyIsSending`, a handler runs only in a
session that is open or being closed. It holds because only the session's own loop
receives frames, because the loop ends between frames or after the response, and
because a delivery report wakes only the handler that awaits it (`SessionsMove`, which
rests on `BufferInv`). With `SenderHoldsLease` a frame is then received only while no
handler runs anywhere (`ReceivesAlone`): every busy session would hold the lease, which
is the receiver's. That is the whole difference between the two orchestrators
(`IsSingleSenderStep`). tlapm does not let a proof use the theorems of an instanced module,
which is why the composition EXTENDS its parts.

**The registry and the sweep.** `ProcessInv`: a socket is filed under its own
conversation, in the registry and in `close_all`'s snapshot; until a shutdown begins
exactly the running sessions are filed, and counted (`CountIsExact`, with the cardinality
of finite sets); nobody who was connected when the sweep began can register again; and
of those who still run, each was told, is a socket of the conversation being visited
or is on a list still to be visited (`SweepMissesNone`). The last holds although the
registry changes under the sweep: `remove` replaces the registry's list and leaves the
snapshot's alone, and `add` can only extend a list still to be visited.

**The client's life.** `LifeInv` holds until an abrupt stop. It says who is in charge
of the client: nobody before the startup check begins; the check while the process is
starting (`CheckInv`: `_producer` is the client it awaits, and nothing was stopped
yet); everybody, but only to use it, while requests are served (`ServingInv`); and
`run()` at the end (`ReleaseInv`). What makes the overlap of a failed startup with the
release harmless is `OwnedInv`: a client that exists was stopped or can still be found
in `_producer`, and a `close()` under way clears `_producer` only after it, or another
one, has stopped what is in it.

**The token argument.** `TokenInv`: a call read the clock at most `Patience` ago, whoever
signs holds the lock and found the cached token too old, and the token handed out last
is the cached one. The margin then covers the age of the clock.

**The contract.** A frame without a field error has both objects, so all its fields were
looked at and each holds a sound value or one that is converted to one (`NoErrors`,
`Conversion`, `ConvertedFrame`); what the business rules leave of these is the
contract's table (`ContractDecided`). The loop over the errors
answers for one of them, or all of them are of a kind it does not know
(`ClassifyPicks`), and each answer names the kind it stands for (`FaultNamed`).

**The way of a secret.** `Publishable` is what the rendering lets through: scalars for
fields of `Settings`, that `Settings` accepts next to what the validation adds. A run
carries such a payload until it writes it, whatever becomes of the files, so the secret
is publishable until it is changed by hand (`ConfigurationInv`). `Settings` reads nothing
but its fields and the bootstrap variables of environment and region (`AcceptsReads`), and
the merge takes each field the secret sets from the secret (`SecretDecides`): a task
with the printed environment reads what the validation read.

**Refinement.** `ImplementsPromise` maps `BrokerAppends` to `Persist`, `Reply` to
`Acknowledge` or a stutter, and everything else to a stutter.

Only model-checked: the liveness properties (`OvertakenSenderStops`,
`DeadLeaseEnds`, `SignalEndsService`, `CallIsDelivered`, `StartupEnds`,
`SyncConverges`), which are out of the prover's reach. Every safety invariant, action
property and refinement that a passing run checks is also a theorem.

## Not modelled, and why

The outbound conversion assembles a value from a validated frame and keeps no state;
logging formats and redacts text that nothing depends on; the check of a bearer token
is one stateless call of PyJWT. Pre-handshake rejections are one outcome; the texts of
answers are left out. Settings that are checked on their own (ports, log options, path
prefix) and arguments handed through to clients (TLS, pools, batching) are data no
property tells apart. `remove` without a socket and the claim inside the endpoint are
code paths the assembled service does not take (the middleware has always claimed
before). The output files of a dry run of `sync_secret.py` are not modelled.

## Plan

Done: the orchestrator, its promise and a retrying client; the lease and their
composition; the process, the Kafka client and its token; frame validation; the way
configuration takes; and the theorems above. Next, in this order:

1. What the safety part of `CallIsDelivered` rests on: in `LosslessDelivery`, a frame
   in its turn is never refused, so that a retry needs no more than that the faults stop.
2. The Kafka client after an abrupt stop, where only `LifeInv`'s guard `~abrupt` speaks:
   which of its parts still hold while tasks of connections run on.
3. An abstract lease (at most one holder, free only by expiry or release) that
   `SessionOwnership` implements, to state `LeaseEndsProperly` as a refinement.
