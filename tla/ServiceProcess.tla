--------------------------- MODULE ServiceProcess ---------------------------
(***************************************************************************)
(* One service process from its startup checks to its exit: run() and       *)
(* _graceful_stop() of main.py, the drain flag of shutdown/graceful.py, the *)
(* admission checks of the handshake middleware (transport/app.py) and the  *)
(* ConnectionRegistry (transport/registry.py), which the endpoint fills     *)
(* (transport/session.py) and close_all empties.                            *)
(*                                                                         *)
(* Everything runs on one event loop, so an action is what happens between  *)
(* two awaits.  uvicorn is external: it runs one task per connection and    *)
(* serve() returns after should_exit once no such task is left, or at once  *)
(* on a second interrupt.  That it closes sockets of its own while exiting  *)
(* adds nothing: a connection may leave at any moment.                      *)
(***************************************************************************)
EXTENDS Integers, FiniteSets

CONSTANTS
    Conns,           \* WebSocket connections, each used once
    Conversations,   \* conversation ids
    CidOf,           \* the conversation each connection is for
    NoCid,           \* no conversation
    MaxConnections   \* WS_MAX_CONNECTIONS, 0 for unlimited

ASSUME ConnAssumption == CidOf \in [Conns -> Conversations] /\ NoCid \notin Conversations
ASSUME LimitAssumption == MaxConnections \in Nat

\* new: no handshake yet; claiming: past the admission checks, awaiting the
\* ownership guard; granted: awaiting ws.accept; open: awaiting a frame;
\* handling: in handle_message or sending its response; leaving: in `finally',
\* after registry.remove; gone: the connection's task has ended.
ConnStates == {"new", "claiming", "granted", "open", "handling", "leaving", "gone"}

\* Where run() is: its startup checks, serving, the three steps of
\* _graceful_stop, and `finally'.
MainStates == {"checking", "serving", "closing", "flushing", "waiting", "releasing", "exited"}

VARIABLES
    main,       \* MainStates
    abrupt,     \* _graceful_stop was skipped, cut short by its timeout, or raised,
                \* or serve() did not wait for its connections
    server,     \* uvicorn: "up", "exiting" (should_exit set) or "down"
    draining,   \* GracefulShutdown._draining
    conn,       \* [Conns -> ConnStates]
    registry,   \* ConnectionRegistry._connections: [Conversations -> SUBSET Conns]
    count,      \* ConnectionRegistry._active_count
    told,       \* connections close_all has sent 1001
    existing,   \* history: connections registered when close_all started
    list,       \* close_all: lists of its snapshot that are still to be visited
    shared,     \* ... those of them that are still the registry's own objects
    current,    \* ... the conversation being visited
    sockets     \* ... its sockets still to be closed

sweepVars == <<told, existing, list, shared, current, sockets>>
registryVars == <<registry, count>>
mainVars == <<main, abrupt, server, draining>>
processVars == <<mainVars, conn, registryVars, sweepVars>>

Empty == [v \in Conversations |-> {}]

Init ==
    /\ main = "checking" /\ abrupt = FALSE /\ server = "up" /\ draining = FALSE
    /\ conn = [c \in Conns |-> "new"]
    /\ registry = Empty /\ count = 0
    /\ told = {} /\ existing = {}
    /\ list = Empty /\ shared = {} /\ current = NoCid /\ sockets = {}

-----------------------------------------------------------------------------
(***************************************************************************)
(* ConnectionRegistry                                                      *)
(***************************************************************************)
Registered == UNION {registry[v] : v \in Conversations}

\* add appends to the conversation's list in place, so that a snapshot which
\* still refers to the same list sees the new socket.
Add(c) ==
    LET v == CidOf[c] IN
    /\ registry' = [registry EXCEPT ![v] = @ \cup {c}]
    /\ count' = count + 1
    /\ list' = IF v \in shared THEN [list EXCEPT ![v] = @ \cup {c}] ELSE list
    /\ UNCHANGED <<told, existing, shared, current, sockets>>

\* Faulty variant of Remove: `remove' without `ws' drops every socket of the
\* conversation.
PoppingRemove(c) ==
    LET v == CidOf[c] IN
    /\ registry' = [registry EXCEPT ![v] = {}]
    /\ count' = count - Cardinality(registry[v])
    /\ shared' = shared \ {v}
    /\ UNCHANGED <<told, existing, list, current, sockets>>

\* remove drops this very socket, if it is there, and replaces the list object.
Remove(c) ==
    LET v == CidOf[c] IN
    /\ registry' = [registry EXCEPT ![v] = @ \ {c}]
    /\ count' = IF c \in registry[v] THEN count - 1 ELSE count
    /\ shared' = shared \ {v}
    /\ UNCHANGED <<told, existing, list, current, sockets>>

-----------------------------------------------------------------------------
(***************************************************************************)
(* Connections                                                             *)
(***************************************************************************)
Alive == main # "exited"

Move(c, from, to) ==
    /\ Alive
    /\ conn[c] = from
    /\ conn' = [conn EXCEPT ![c] = to]
    /\ UNCHANGED mainVars

AtLimit == MaxConnections > 0 /\ count >= MaxConnections

\* The middleware rejects a handshake while draining or at the limit, and
\* otherwise awaits the claim (one without a conversationId, or that fails
\* authentication, is rejected before it reads either).  serve() only runs
\* after the startup checks.
Admit(c) ==
    /\ main # "checking" /\ server # "down"
    /\ Move(c, "new", IF draining \/ AtLimit THEN "gone" ELSE "claiming")
    /\ UNCHANGED <<registryVars, sweepVars>>

\* The guard answers: owned, or a rejection (conflict, store unavailable).
ClaimReturns(c) ==
    /\ \E to \in {"granted", "gone"} : Move(c, "claiming", to)
    /\ UNCHANGED <<registryVars, sweepVars>>

\* ws.accept returns and the endpoint registers the socket; nothing is checked again.
Register(c) == Move(c, "granted", "open") /\ Add(c)

\* ws.accept raises, or the endpoint's parameters do not validate.
AcceptFails(c) ==
    /\ \E to \in {"leaving", "gone"} : Move(c, "granted", to)
    /\ UNCHANGED <<registryVars, sweepVars>>

\* A frame arrives and is handled.
Receive(c) == Move(c, "open", "handling") /\ UNCHANGED <<registryVars, sweepVars>>

\* The response is sent and the loop goes on, unless the server closed the socket.
Respond(c) ==
    /\ c \notin told
    /\ Move(c, "handling", "open")
    /\ UNCHANGED <<registryVars, sweepVars>>

\* The message loop returns or raises; `finally' removes the registration.
Leave(c) ==
    /\ \E from \in {"open", "handling"} : Move(c, from, "leaving")
    /\ Remove(c)

\* The refresh task is cancelled, the guard released; the task ends.
Left(c) == Move(c, "leaving", "gone") /\ UNCHANGED <<registryVars, sweepVars>>

Connection(c) ==
    \/ Admit(c) \/ ClaimReturns(c) \/ Register(c) \/ AcceptFails(c)
    \/ Receive(c) \/ Respond(c) \/ Leave(c) \/ Left(c)

-----------------------------------------------------------------------------
(***************************************************************************)
(* run() and _graceful_stop()                                              *)
(***************************************************************************)
StartupChecks ==
    /\ main = "checking"
    /\ \/ main' = "serving" /\ UNCHANGED abrupt
       \/ main' = "releasing" /\ abrupt' = TRUE
    /\ UNCHANGED <<server, draining, conn, registryVars, sweepVars>>

\* SIGTERM or SIGINT; uvicorn may have a handler of its own that sets should_exit.
Signal ==
    /\ Alive /\ ~draining
    /\ draining' = TRUE
    /\ server' \in {server, IF server = "up" THEN "exiting" ELSE server}
    /\ UNCHANGED <<main, abrupt, conn, registryVars, sweepVars>>

\* serve() raises at startup (the port is taken): run() raises.
ServerFails ==
    /\ main = "serving" /\ server = "up" /\ \A c \in Conns : conn[c] = "new"
    /\ main' = "releasing" /\ abrupt' = TRUE /\ server' = "down"
    /\ UNCHANGED <<draining, conn, registryVars, sweepVars>>

\* serve() returns: should_exit is set and no connection task is left.
ServerReturns ==
    /\ main # "checking" /\ server = "exiting"
    /\ \A c \in Conns : conn[c] \in {"new", "gone"}
    /\ server' = "down"
    /\ UNCHANGED <<main, abrupt, draining, conn, registryVars, sweepVars>>

\* A second SIGINT sets uvicorn's force_exit: serve() returns with its connection
\* tasks still running.
ForceExit ==
    /\ main # "checking" /\ server = "exiting" /\ draining
    /\ server' = "down" /\ abrupt' = TRUE
    /\ UNCHANGED <<main, draining, conn, registryVars, sweepVars>>

\* A signal, or the end of serve(), starts close_all, which snapshots the
\* registry; it has nothing to await when the registry is empty.
StartClosing ==
    /\ main = "serving"
    /\ draining \/ server = "down"
    /\ existing' = Registered
    /\ IF Registered = {}
         THEN main' = "flushing" /\ count' = 0 /\ UNCHANGED <<list, shared>>
         ELSE /\ main' = "closing" /\ UNCHANGED count
              /\ list' = registry
              /\ shared' = {v \in Conversations : registry[v] # {}}
    /\ UNCHANGED <<abrupt, server, draining, conn, registry, told, current, sockets>>

\* pop(cid) once the sockets of the current conversation are closed.
Popped == IF current = NoCid THEN registry ELSE [registry EXCEPT ![current] = {}]

\* Faulty variant of CloseNext: one socket per conversation is closed.
FirstOnlyCloseNext(c) ==
    /\ main = "closing"
    /\ sockets = {} /\ c \in list[CidOf[c]]
    /\ registry' = Popped
    /\ current' = CidOf[c]
    /\ UNCHANGED sockets
    /\ list' = [list EXCEPT ![CidOf[c]] = {}]
    /\ shared' = shared \ {CidOf[c]}
    /\ told' = IF conn[c] \in {"open", "handling"} THEN told \cup {c} ELSE told
    /\ UNCHANGED <<mainVars, conn, count, existing>>

\* close_all sends 1001 to the next socket, of the current conversation or else
\* of the next one, and awaits the close.
CloseNext(c) ==
    /\ main = "closing"
    /\ \/ /\ c \in sockets
          /\ sockets' = sockets \ {c}
          /\ UNCHANGED <<registry, current, list, shared>>
       \/ /\ sockets = {} /\ c \in list[CidOf[c]]
          /\ registry' = Popped
          /\ current' = CidOf[c]
          /\ sockets' = list[CidOf[c]] \ {c}
          /\ list' = [list EXCEPT ![CidOf[c]] = {}]
          /\ shared' = shared \ {CidOf[c]}
    /\ told' = IF conn[c] \in {"open", "handling"} THEN told \cup {c} ELSE told
    /\ UNCHANGED <<mainVars, conn, count, existing>>

\* The snapshot is exhausted: close_all resets the count and returns.
EndClosing ==
    /\ main = "closing" /\ sockets = {} /\ list = Empty
    /\ registry' = Popped
    /\ current' = NoCid
    /\ count' = 0
    /\ main' = "flushing"
    /\ UNCHANGED <<abrupt, server, draining, conn, told, existing, list, shared, sockets>>

\* Faulty variant of Flush: server_task is not awaited.
UnawaitedFlush ==
    /\ main = "flushing"
    /\ server' = IF server = "up" THEN "exiting" ELSE server
    /\ main' = "releasing"
    /\ UNCHANGED <<abrupt, draining, conn, registryVars, sweepVars>>

\* producer.flush returns and should_exit is set, or it raises out of run().
Flush ==
    /\ main = "flushing"
    /\ \/ /\ main' = "waiting"
          /\ server' = IF server = "up" THEN "exiting" ELSE server
          /\ UNCHANGED abrupt
       \/ main' = "releasing" /\ abrupt' = TRUE /\ UNCHANGED server
    /\ UNCHANGED <<draining, conn, registryVars, sweepVars>>

\* server_task is done.
Stopped ==
    /\ main = "waiting" /\ server = "down"
    /\ main' = "releasing"
    /\ UNCHANGED <<abrupt, server, draining, conn, registryVars, sweepVars>>

\* Faulty variant of StopTimesOut: the server task is awaited, not cancelled.
UncancelledStopTimesOut ==
    /\ main \in {"closing", "flushing", "waiting"} /\ server = "down"
    /\ main' = "releasing" /\ abrupt' = TRUE
    /\ UNCHANGED <<server, draining, conn, registryVars, sweepVars>>

\* STOP_TIMEOUT: _graceful_stop is cancelled wherever it awaits, and so is serve().
StopTimesOut ==
    /\ main \in {"closing", "flushing", "waiting"}
    /\ main' = "releasing" /\ abrupt' = TRUE /\ server' = "down"
    /\ UNCHANGED <<draining, conn, registryVars, sweepVars>>

\* close_runtime_bundle is through; asyncio.run cancels every task that is left.
Exit ==
    /\ main = "releasing"
    /\ main' = "exited" /\ server' = "down"
    /\ conn' = [c \in Conns |-> IF conn[c] = "new" THEN "new" ELSE "gone"]
    /\ registry' = Empty /\ count' = 0
    /\ UNCHANGED <<abrupt, draining, sweepVars>>

Main ==
    \/ StartupChecks \/ Signal \/ ServerFails \/ ServerReturns \/ ForceExit
    \/ StartClosing \/ (\E c \in Conns : CloseNext(c)) \/ EndClosing
    \/ Flush \/ Stopped \/ StopTimesOut \/ Exit

Next == Main \/ \E c \in Conns : Connection(c)

Spec == Init /\ [][Next]_processVars

\* run() is woken by the signal and STOP_TIMEOUT fires: timers and the event loop.
\* Nothing is assumed of clients, handlers, the flush, uvicorn, the startup checks
\* (the Redis ping has no timeout) or close_runtime_bundle (neither has that).
Fairness ==
    /\ WF_processVars(StartClosing)
    /\ WF_processVars(StopTimesOut)

FairSpec == Spec /\ Fairness

-----------------------------------------------------------------------------
(***************************************************************************)
(* Properties                                                              *)
(***************************************************************************)
InSession(c) == conn[c] \in {"open", "handling"}

\* Until a shutdown begins the registry holds exactly the sessions that run, and
\* the count the limit is checked against is their number, also when a newer
\* connection of a conversation registers before the older one is removed.
RegistryIsExact ==
    main \in {"checking", "serving"} =>
        /\ Registered = {c \in Conns : InSession(c)}
        /\ count = Cardinality(Registered)

\* When close_all returns, every session that was registered when it started has
\* ended or has been sent 1001, although the registry changed under the sweep.
ExistingAreTold ==
    main \in {"flushing", "waiting"} =>
        \A c \in existing : InSession(c) => c \in told

\* A graceful stop that is not cut short closes the producer and Redis only when
\* no connection task uses them any more.
ReleasedWhenIdle ==
    main = "releasing" /\ ~abrupt => \A c \in Conns : conn[c] \in {"new", "gone"}

\* A signal ends the service of a process: whatever clients, handlers, the flush and
\* uvicorn do, run() stops waiting for them and goes on to release its resources
\* ("If that budget is exceeded, the service stops waiting and moves into forced
\* cleanup", faq.md:41).  How long the release itself takes nothing bounds.
SignalEndsService == (draining /\ main = "serving") ~> main \in {"releasing", "exited"}

\* "stop accepting new connections, send 1001 to existing connections, flush
\* Kafka" (design-guardrails.md:58).  Not what the code does: a handshake that
\* passed the drain check before the signal opens a session after close_all.
NoneOpenedBehindSweep ==
    main \in {"flushing", "waiting"} => \A c \in Conns : InSession(c) => c \in told
=============================================================================
