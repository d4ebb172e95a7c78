----------------------- MODULE SessionOwnershipProofs -----------------------
(***************************************************************************)
(* Theorems of SessionOwnership, for every TTL, interval and bound.         *)
(***************************************************************************)
EXTENDS SessionOwnership, TLAPS

\* What the scripts do to the key.
LEMMA ScriptOps ==
    ASSUME OwnerTypeOK, NEW s \in Sessions
    PROVE  /\ SetIfOwned(s) =>
                /\ holder' \in Sessions \cup {NoOne} /\ left' \in 0..Ttl
                /\ holder' = NoOne <=> left' = 0
                /\ \A t \in Sessions : holder = t => holder' = t /\ left' >= left
                /\ Owned(s) => holder' = s /\ left' = Ttl
           /\ DeleteIfOwner(s) =>
                /\ holder' \in Sessions \cup {NoOne} /\ left' \in 0..Ttl
                /\ holder' = NoOne <=> left' = 0
                /\ holder # s => holder' = holder /\ left' = left
BY OwnerSessionAssumption, LeaseAssumption
   DEF OwnerTypeOK, SetIfOwned, DeleteIfOwner, Owned

LEMMA OwnerTypeStep == OwnerTypeOK /\ [OwnerNext]_ownerVars => OwnerTypeOK'
<1> SUFFICES ASSUME OwnerTypeOK, [OwnerNext]_ownerVars PROVE OwnerTypeOK'
  OBVIOUS
<1> USE OwnerSessionAssumption, LeaseAssumption
<1>1. ASSUME NEW s \in Sessions, NEW p \in Phases, NEW r \in Refreshes, NEW n \in Nat,
             Move(s, p, r, n)
      PROVE  /\ phase' \in [Sessions -> Phases]
             /\ refresh' \in [Sessions -> Refreshes]
             /\ timer' \in [Sessions -> Nat]
  BY <1>1 DEF Move, OwnerTypeOK
<1>2. ASSUME NEW s \in Sessions, Session(s)
      PROVE  \E p \in Phases, r \in Refreshes, n \in Nat : Move(s, p, r, n)
  BY <1>2 DEF Session, Handshake, RefreshTask, Claim, ClaimRaises, Accept, AcceptFails, EndpointNotReached,
     Wake, RefreshRuns, RefreshReturns, RefreshRaises, Finish, Release, Phases, Refreshes
<1>3. ASSUME NEW s \in Sessions, Session(s)
      PROVE  SetIfOwned(s) \/ DeleteIfOwner(s) \/ UNCHANGED <<holder, left>>
  BY <1>3 DEF Session, Handshake, RefreshTask, Claim, ClaimRaises, Accept, AcceptFails, EndpointNotReached,
     Wake, RefreshRuns, RefreshReturns, RefreshRaises, Finish, Release
<1>4. ASSUME NEW s \in Sessions, Session(s)
      PROVE  straggler' \in SUBSET Sessions
  BY <1>4 DEF Session, Handshake, RefreshTask, Claim, ClaimRaises, Accept, AcceptFails, EndpointNotReached,
     Wake, RefreshRuns, RefreshReturns, RefreshRaises, Finish, Release, GivenUp, OwnerTypeOK
<1>5. ASSUME NEW s \in Sessions, Session(s) PROVE OwnerTypeOK'
  BY <1>1, <1>2, <1>3, <1>4, <1>5, ScriptOps DEF OwnerTypeOK
<1>6. ASSUME NEW s \in Sessions, StragglerRuns(s) PROVE OwnerTypeOK'
  BY <1>6, ScriptOps DEF StragglerRuns, OwnerTypeOK
<1>7. ASSUME NEW p \in Procs, OwnerCrash(p) PROVE OwnerTypeOK'
  BY <1>7 DEF OwnerCrash, GivenUp, OwnerTypeOK, Phases, Refreshes
<1>8. ASSUME Tick PROVE OwnerTypeOK'
  BY <1>8 DEF Tick, OwnerTypeOK
<1>9. CASE UNCHANGED ownerVars
  BY <1>9 DEF ownerVars, OwnerTypeOK
<1> QED
  BY <1>5, <1>6, <1>7, <1>8, <1>9 DEF OwnerNext

\* Type correctness.
THEOREM OwnerTypeCorrect == OwnerSpec => []OwnerTypeOK
<1>1. OwnerInit => OwnerTypeOK
  BY OwnerSessionAssumption, LeaseAssumption DEF OwnerInit, OwnerTypeOK, Phases, Refreshes
<1> QED
  BY <1>1, OwnerTypeStep, PTL DEF OwnerSpec

-----------------------------------------------------------------------------
\* The lease outlives whatever its holder waits for.
LEMMA LeaseInvStep ==
    ASSUME OwnerTypeOK, LeaseInv, [OwnerNext]_ownerVars, LeaseLongEnough
    PROVE  LeaseInv'
<1> USE OwnerSessionAssumption, LeaseAssumption
<1> DEFINE Inv(t) ==
        /\ phase[t] = "granted" => LeaseOutlives(t, Interval + Delay + Handling)
        /\ phase[t] = "open" =>
            \/ refresh[t] = "sleep" /\ LeaseOutlives(t, Delay + Handling)
            \/ refresh[t] = "calling" /\ LeaseOutlives(t, Handling)
            \/ refresh[t] = "owned" /\ LeaseOutlives(t, Interval + Delay + Handling)
        /\ phase[t] = "closing" => refresh[t] = "none" /\ LeaseOutlives(t, 0)
<1>1. \A t \in Sessions : Inv(t)
  BY DEF LeaseInv
<1>2. SUFFICES ASSUME NEW t \in Sessions PROVE Inv(t)'
  BY DEF LeaseInv
<1>3. /\ timer[t] \in Nat /\ left \in Nat /\ holder \in Sessions \cup {NoOne}
      /\ Ttl > Interval + 2 * Delay + Handling /\ Timely
  BY DEF OwnerTypeOK, LeaseLongEnough
\* A step of others that takes nothing away from the lease of t.
<1>4. ASSUME phase'[t] = phase[t], refresh'[t] = refresh[t], timer'[t] = timer[t],
             holder = t => holder' = t /\ left' >= left, left' \in Nat
      PROVE  Inv(t)'
  BY <1>1, <1>3, <1>4 DEF LeaseOutlives
<1>5. ASSUME NEW s \in Sessions, Session(s), s # t PROVE Inv(t)'
  <2>1. phase'[t] = phase[t] /\ refresh'[t] = refresh[t] /\ timer'[t] = timer[t]
    BY <1>5 DEF OwnerTypeOK, Session, Handshake, RefreshTask, Claim, ClaimRaises, Accept, AcceptFails,
       EndpointNotReached, Wake, RefreshRuns, RefreshReturns, RefreshRaises, Finish, Release, Move
  <2>2. SetIfOwned(s) \/ DeleteIfOwner(s) \/ UNCHANGED <<holder, left>>
    BY <1>5 DEF Session, Handshake, RefreshTask, Claim, ClaimRaises, Accept, AcceptFails, EndpointNotReached,
       Wake, RefreshRuns, RefreshReturns, RefreshRaises, Finish, Release
  <2> QED
    BY <2>1, <2>2, <1>3, <1>4, <1>5, ScriptOps
<1>6. ASSUME Session(t) PROVE Inv(t)'
  <2> USE <1>1, <1>3 DEF OwnerTypeOK, LeaseOutlives, Move
  <2>1. CASE Claim(t)
    BY <2>1, ScriptOps DEF Claim
  <2>2. CASE ClaimRaises(t) \/ AcceptFails(t) \/ EndpointNotReached(t) \/ Finish(t) \/ Release(t)
    BY <2>2 DEF ClaimRaises, AcceptFails, EndpointNotReached, Finish, Release
  <2>3. CASE Accept(t)
    BY <2>3 DEF Accept
  <2>4. CASE Wake(t)
    BY <2>4 DEF Wake
  <2>5. CASE RefreshRuns(t)
    <3>1. Owned(t)
      BY <2>5 DEF RefreshRuns, Owned
    <3> QED
      BY <2>5, <3>1, ScriptOps DEF RefreshRuns
  <2>6. CASE RefreshReturns(t)
    BY <2>6 DEF RefreshReturns
  <2>7. CASE RefreshRaises(t)
    BY <2>7 DEF RefreshRaises
  <2> QED
    BY <1>6, <2>1, <2>2, <2>3, <2>4, <2>5, <2>6, <2>7 DEF Session, Handshake, RefreshTask
<1>7. ASSUME NEW s \in Sessions, StragglerRuns(s) PROVE Inv(t)'
  BY <1>3, <1>4, <1>7, ScriptOps DEF StragglerRuns
<1>8. ASSUME NEW p \in Procs, OwnerCrash(p) PROVE Inv(t)'
  <2>1. CASE ProcOf[t] = p
    BY <1>1, <1>8, <2>1 DEF OwnerCrash
  <2>2. CASE ProcOf[t] # p
    BY <1>3, <1>4, <1>8, <2>2 DEF OwnerCrash
  <2> QED
    BY <2>1, <2>2
<1>9. ASSUME Tick PROVE Inv(t)'
  <2>1. ~Overdue(t) /\ phase' = phase /\ refresh' = refresh
    BY <1>3, <1>9 DEF Tick
  <2>2. phase[t] \in {"granted", "open", "closing"} =>
            /\ timer[t] > 0 /\ timer'[t] = timer[t] - 1
            /\ left > timer[t] => left' = left - 1 /\ holder' = holder
    BY <1>3, <1>9, <2>1 DEF Tick, Overdue
  <2> QED
    BY <1>1, <1>3, <2>1, <2>2 DEF LeaseOutlives
<1>10. CASE UNCHANGED ownerVars
  BY <1>3, <1>4, <1>10 DEF ownerVars
<1> QED
  BY <1>5, <1>6, <1>7, <1>8, <1>9, <1>10 DEF OwnerNext

\* When the TTL covers the refresh interval, two delays and the time a session
\* needs to stop, every session that may send holds the lease.
THEOREM SenderIsOwner ==
    ASSUME LeaseLongEnough
    PROVE  OwnerSpec => []SenderHoldsLease
<1>1. OwnerInit => LeaseInv
  BY DEF OwnerInit, LeaseInv
<1>2. OwnerTypeOK /\ LeaseInv /\ [OwnerNext]_ownerVars => LeaseInv'
  BY LeaseInvStep
<1>3. LeaseInv => SenderHoldsLease
  BY DEF LeaseInv, LeaseOutlives, SenderHoldsLease, Sending
<1> QED
  BY <1>1, <1>2, <1>3, OwnerTypeCorrect, PTL DEF OwnerSpec

\* Hence a conversation has one sender at a time.
THEOREM AtMostOneSender ==
    ASSUME LeaseLongEnough
    PROVE  OwnerSpec => []OneSender
<1>1. SenderHoldsLease => OneSender
  BY DEF SenderHoldsLease, OneSender
<1> QED
  BY <1>1, SenderIsOwner, PTL

\* Without any bound on delays, a lease is never taken over.
THEOREM LeaseIsSafe == OwnerSpec => LeaseEndsProperly
<1>1. OwnerTypeOK /\ [OwnerNext]_ownerVars =>
        [holder # NoOne /\ holder' # holder =>
            holder' = NoOne /\ (left = 1 \/ phase[holder] = "releasing")]_ownerVars
  <2> SUFFICES ASSUME OwnerTypeOK, OwnerNext, holder # NoOne, holder' # holder
               PROVE  holder' = NoOne /\ (left = 1 \/ phase[holder] = "releasing")
    BY DEF ownerVars
  <2>1. ASSUME NEW s \in Sessions PROVE ~SetIfOwned(s)
    BY <2>1, ScriptOps DEF OwnerTypeOK
  <2>2. ASSUME NEW s \in Sessions, Session(s)
        PROVE  holder' = NoOne /\ phase[holder] = "releasing"
    BY <2>1, <2>2 DEF DeleteIfOwner, Session, Handshake, RefreshTask, Claim, ClaimRaises, Accept, AcceptFails,
       EndpointNotReached, Wake, RefreshRuns, RefreshReturns, RefreshRaises, Finish, Release
  <2>3. ASSUME NEW s \in Sessions PROVE ~StragglerRuns(s)
    BY <2>1 DEF StragglerRuns
  <2>4. ASSUME NEW p \in Procs PROVE ~OwnerCrash(p)
    BY DEF OwnerCrash
  <2>5. CASE Tick
    BY <2>5, LeaseAssumption DEF Tick, OwnerTypeOK
  <2> QED
    BY <2>2, <2>3, <2>4, <2>5 DEF OwnerNext
<1> QED
  BY <1>1, OwnerTypeCorrect, PTL DEF OwnerSpec, LeaseEndsProperly
=============================================================================
