-------------------------- MODULE SessionOwnership --------------------------
(***************************************************************************)
(* The lease that keeps one active sender per conversation: the Redis key   *)
(* of redis/ownership_guard.py, and the life of the WebSocket sessions that *)
(* claim, refresh and release it (transport/app.py, transport/session.py).  *)
(* One conversation; every session has a token of its own (uuid4).          *)
(*                                                                         *)
(* Time is discrete.  `left' is the remaining TTL of the key; `timer' is    *)
(* what remains of a session's current delay: the refresh interval while    *)
(* its refresh task sleeps, otherwise the bound on the step it is taking.   *)
(* Timely says whether those bounds hold; when they do not (a stalled event *)
(* loop, a slow Redis call) a step may come arbitrarily late.               *)
(***************************************************************************)
EXTENDS SessionsAndTasks, Naturals

CONSTANTS
    NoOne,      \* the value of a missing key
    Ttl,        \* REDIS_OWNERSHIP_GUARD_TTL_SEC
    Interval,   \* WS_OWNERSHIP_GUARD_REFRESH_INTERVAL_SEC
    Delay,      \* longest duration of a Redis call, and of handing its result on
    Handling,   \* longest time a session whose refresh failed keeps working
    Timely      \* TRUE: Delay and Handling are respected

ASSUME OwnerSessionAssumption == NoOne \notin Sessions
\* settings.py:274 refuses an interval that is not below the TTL.
ASSUME LeaseAssumption ==
    Ttl \in Nat /\ Interval \in Nat /\ Delay \in Nat /\ Handling \in Nat /\ Interval < Ttl
ASSUME TimelyAssumption == Timely \in BOOLEAN

\* new: no handshake yet; granted: claimed, on its way to the endpoint; open:
\* message loop and refresh task run; closing: the refresh task has closed the
\* socket; releasing: the loop has ended; gone.
Phases == {"new", "granted", "open", "closing", "releasing", "gone"}

\* The refresh task: asleep, in its Redis call, or about to learn the answer.
Refreshes == {"none", "sleep", "calling", "owned", "busy"}

VARIABLES
    holder,     \* the token in the key, or NoOne
    left,       \* remaining TTL of the key
    phase,      \* [Sessions -> Phases]
    refresh,    \* [Sessions -> Refreshes]
    timer,      \* [Sessions -> Nat]
    straggler   \* sessions with a claim call given up that may still reach Redis

ownerVars == <<holder, left, phase, refresh, timer, straggler>>

OwnerInit ==
    /\ holder = NoOne
    /\ left = 0
    /\ phase = [s \in Sessions |-> "new"]
    /\ refresh = [s \in Sessions |-> "none"]
    /\ timer = [s \in Sessions |-> 0]
    /\ straggler = {}

-----------------------------------------------------------------------------
Owned(s) == holder \in {NoOne, s}

\* Faulty variant of SetIfOwned: the key is written without EX.
SetWithoutExpiry(s) ==
    IF Owned(s) THEN holder' = s /\ UNCHANGED left ELSE UNCHANGED <<holder, left>>

\* Faulty variant of SetIfOwned: an owner's own token does not renew the TTL.
SetOnlyIfFree(s) ==
    IF holder = NoOne THEN holder' = s /\ left' = Ttl ELSE UNCHANGED <<holder, left>>

\* LUA_CLAIM_OR_REFRESH.
SetIfOwned(s) ==
    IF Owned(s) THEN holder' = s /\ left' = Ttl ELSE UNCHANGED <<holder, left>>

\* Faulty variant of DeleteIfOwner: DEL without comparing the token.
DeleteAlways(s) == holder' = NoOne /\ left' = 0

\* LUA_RELEASE_IF_OWNER.
DeleteIfOwner(s) ==
    IF holder = s THEN holder' = NoOne /\ left' = 0 ELSE UNCHANGED <<holder, left>>

\* What may be left of the refresh calls of sessions S, given up unanswered.
GivenUp(S) == {straggler, straggler \cup {s \in S : refresh[s] = "calling"}}

Move(s, p, r, t) ==
    /\ phase' = [phase EXCEPT ![s] = p]
    /\ refresh' = [refresh EXCEPT ![s] = r]
    /\ timer' = [timer EXCEPT ![s] = t]

\* The handshake middleware claims the conversation and is told whether it owns it.
Claim(s) ==
    /\ phase[s] = "new"
    /\ SetIfOwned(s)
    /\ IF Owned(s) THEN Move(s, "granted", "none", Delay) ELSE Move(s, "gone", "none", 0)
    /\ UNCHANGED straggler

\* The claim raises: E1008, nothing is released; the script ran, or may still run.
ClaimRaises(s) ==
    /\ phase[s] = "new"
    /\ Move(s, "gone", "none", 0)
    /\ \/ SetIfOwned(s) /\ UNCHANGED straggler
       \/ UNCHANGED <<holder, left>> /\ straggler' \in {straggler, straggler \cup {s}}

\* The endpoint accepts the socket, registers it and starts both tasks.
Accept(s) ==
    /\ phase[s] = "granted"
    /\ Move(s, "open", "sleep", Interval)
    /\ UNCHANGED <<holder, left, straggler>>

\* ws.accept raises: the endpoint returns through the release.
AcceptFails(s) ==
    /\ phase[s] = "granted"
    /\ Move(s, "releasing", "none", 0)
    /\ UNCHANGED <<holder, left, straggler>>

\* The claimed handshake never reaches the endpoint (a conversationId above 64
\* characters fails its Query validation): nobody releases the key.
EndpointNotReached(s) ==
    /\ phase[s] = "granted"
    /\ Move(s, "gone", "none", 0)
    /\ UNCHANGED <<holder, left, straggler>>

-----------------------------------------------------------------------------
\* asyncio.sleep(refresh_interval) is over and the refresh call is issued.
Wake(s) ==
    /\ phase[s] = "open" /\ refresh[s] = "sleep" /\ timer[s] = 0
    /\ Move(s, "open", "calling", Delay)
    /\ UNCHANGED <<holder, left, straggler>>

\* The refresh script runs.
RefreshRuns(s) ==
    /\ phase[s] = "open" /\ refresh[s] = "calling"
    /\ SetIfOwned(s)
    /\ Move(s, "open", IF Owned(s) THEN "owned" ELSE "busy", Delay)
    /\ UNCHANGED straggler

\* Faulty variant of RefreshReturns: a lost lease is not acted upon.
IgnoringRefreshReturns(s) ==
    /\ phase[s] = "open" /\ refresh[s] \in {"owned", "busy"}
    /\ Move(s, "open", "sleep", Interval)
    /\ UNCHANGED <<holder, left, straggler>>

\* Its answer reaches the refresh task: sleep again, or close the socket (E1009).
RefreshReturns(s) ==
    /\ phase[s] = "open"
    /\ \/ refresh[s] = "owned" /\ Move(s, "open", "sleep", Interval)
       \/ refresh[s] = "busy" /\ Move(s, "closing", "none", Handling)
    /\ UNCHANGED <<holder, left, straggler>>

\* The refresh call raises: close the socket (E1008); the script may run later.
RefreshRaises(s) ==
    /\ phase[s] = "open" /\ refresh[s] \in {"calling", "owned", "busy"}
    /\ Move(s, "closing", "none", Handling)
    /\ straggler' \in GivenUp({s})
    /\ UNCHANGED <<holder, left>>

\* The message loop ends (disconnect, error, E1006 ..., or the refresh task's
\* close); `finally' cancels the refresh task, whose call may already be sent.
Finish(s) ==
    /\ phase[s] \in {"open", "closing"}
    /\ Move(s, "releasing", "none", 0)
    /\ straggler' \in GivenUp({s})
    /\ UNCHANGED <<holder, left>>

\* The release script runs, or the call raises, which is logged and ignored.
Release(s) ==
    /\ phase[s] = "releasing"
    /\ Move(s, "gone", "none", 0)
    /\ DeleteIfOwner(s) \/ UNCHANGED <<holder, left>>
    /\ UNCHANGED straggler

\* A given-up claim or refresh reaches Redis after all, or never will.
StragglerRuns(s) ==
    /\ s \in straggler
    /\ straggler' = straggler \ {s}
    /\ SetIfOwned(s) \/ UNCHANGED <<holder, left>>
    /\ UNCHANGED <<phase, refresh, timer>>

-----------------------------------------------------------------------------
\* A step of session s that is subject to a bound, which has run out.
Overdue(s) ==
    /\ timer[s] = 0
    /\ phase[s] \in {"granted", "open", "closing"}

\* Faulty variant of Tick: the key never expires.
TickWithoutExpiry ==
    /\ holder # NoOne \/ \E s \in Sessions : timer[s] > 0
    /\ Timely => \A s \in Sessions : ~Overdue(s)
    /\ timer' = [s \in Sessions |-> IF timer[s] = 0 THEN 0 ELSE timer[s] - 1]
    /\ UNCHANGED <<holder, left, phase, refresh, straggler>>

\* One unit of time passes; the key expires when its TTL has elapsed.
Tick ==
    /\ holder # NoOne \/ \E s \in Sessions : timer[s] > 0
    /\ Timely => \A s \in Sessions : ~Overdue(s)
    /\ timer' = [s \in Sessions |-> IF timer[s] = 0 THEN 0 ELSE timer[s] - 1]
    /\ left' = IF left = 0 THEN 0 ELSE left - 1
    /\ holder' = IF left <= 1 THEN NoOne ELSE holder
    /\ UNCHANGED <<phase, refresh, straggler>>

\* A task is killed: its sessions are gone, their keys and calls stay.
OwnerCrash(p) ==
    /\ \E s \in Sessions : ProcOf[s] = p /\ phase[s] \notin {"new", "gone"}
    /\ phase' = [s \in Sessions |->
                   IF ProcOf[s] = p /\ phase[s] # "new" THEN "gone" ELSE phase[s]]
    /\ refresh' = [s \in Sessions |-> IF ProcOf[s] = p THEN "none" ELSE refresh[s]]
    /\ timer' = [s \in Sessions |-> IF ProcOf[s] = p THEN 0 ELSE timer[s]]
    /\ straggler' \in GivenUp({s \in Sessions : ProcOf[s] = p})
    /\ UNCHANGED <<holder, left>>

Handshake(s) ==
    Claim(s) \/ ClaimRaises(s) \/ Accept(s) \/ AcceptFails(s) \/ EndpointNotReached(s)

RefreshTask(s) == Wake(s) \/ RefreshRuns(s) \/ RefreshReturns(s)

Session(s) ==
    Handshake(s) \/ RefreshTask(s) \/ RefreshRaises(s) \/ Finish(s) \/ Release(s)

OwnerNext ==
    \/ \E s \in Sessions : Session(s) \/ StragglerRuns(s)
    \/ \E p \in Procs : OwnerCrash(p)
    \/ Tick

OwnerSpec == OwnerInit /\ [][OwnerNext]_ownerVars

\* Time passes and Redis expires keys; a refresh task runs again and again and
\* its call returns or raises; a session whose socket was closed ends.
OwnerFairness ==
    /\ WF_ownerVars(Tick)
    /\ \A s \in Sessions :
        /\ WF_ownerVars(RefreshTask(s))
        /\ WF_ownerVars(phase[s] = "closing" /\ Finish(s))

OwnerFairSpec == OwnerSpec /\ OwnerFairness

-----------------------------------------------------------------------------
(***************************************************************************)
(* Properties                                                              *)
(***************************************************************************)

\* Every variable keeps its shape, and a key has a TTL exactly while it exists.
OwnerTypeOK ==
    /\ holder \in Sessions \cup {NoOne}
    /\ left \in 0..Ttl
    /\ holder = NoOne <=> left = 0
    /\ phase \in [Sessions -> Phases]
    /\ refresh \in [Sessions -> Refreshes]
    /\ timer \in [Sessions -> Nat]
    /\ straggler \in SUBSET Sessions

\* The session's handler may be executing handle_message.
Sending(s) == phase[s] \in {"open", "closing"}

\* While the bounds hold, a session that may send holds the lease: nobody else
\* gets through the handshake, and its own refresh never finds BUSY.
SenderHoldsLease ==
    \A s \in Sessions : Sending(s) => holder = s /\ refresh[s] # "busy"

\* Only one connection may send messages for the conversation at any moment.
OneSender == \A s, t \in Sessions : Sending(s) /\ Sending(t) => s = t

\* However late anything is, a lease is never taken over: it ends by its TTL or
\* by the release of the very session that holds it.
LeaseEndsProperly ==
    [][holder # NoOne /\ holder' # holder =>
         holder' = NoOne /\ (left = 1 \/ phase[holder] = "releasing")]_ownerVars

\* A session that lost its lease to another one stops sending or gets it back.
OvertakenSenderStops ==
    \A s \in Sessions :
        Sending(s) /\ holder \notin {s, NoOne} ~> ~Sending(s) \/ holder = s

\* Whatever became of a session (killed, rejected after its claim, release lost,
\* a straggling refresh after its release), the conversation is free again.
DeadLeaseEnds == \A s \in Sessions : phase[s] = "gone" ~> holder # s

-----------------------------------------------------------------------------
(***************************************************************************)
(* The strengthening of SenderHoldsLease: the lease outlives everything its *)
(* holder may still have to wait for before it renews it or stops.          *)
(***************************************************************************)
LeaseOutlives(s, n) == holder = s /\ left > timer[s] + n

LeaseInv ==
    \A s \in Sessions :
        /\ phase[s] = "granted" => LeaseOutlives(s, Interval + Delay + Handling)
        /\ phase[s] = "open" =>
            \/ refresh[s] = "sleep" /\ LeaseOutlives(s, Delay + Handling)
            \/ refresh[s] = "calling" /\ LeaseOutlives(s, Handling)
            \/ refresh[s] = "owned" /\ LeaseOutlives(s, Interval + Delay + Handling)
        /\ phase[s] = "closing" => refresh[s] = "none" /\ LeaseOutlives(s, 0)

\* What the settings must satisfy for the guard to keep its promise.
LeaseLongEnough == Timely /\ Ttl > Interval + 2 * Delay + Handling
=============================================================================
