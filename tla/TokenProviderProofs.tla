------------------------ MODULE TokenProviderProofs ------------------------
(***************************************************************************)
(* For any number of threads and any lifetime, margin and duration of calls *)
(* with Patience <= Margin < Life: tokens are valid when handed out, and    *)
(* not signed more often than the lifetime requires.                        *)
(***************************************************************************)
EXTENDS TokenProvider, TLAPS

\* A call under way read the clock at most Patience ago.
CallsAreShort ==
    \A t \in Threads : pc[t] # "idle" => seen[t] <= now /\ now <= seen[t] + Patience

\* Whoever signs holds the lock and found the cached token too old.
SignerHadReason ==
    \A t \in Threads : pc[t] = "signing" => lock = t /\ expiry <= seen[t] + Margin

\* The token handed out last is the one in the cache, and was valid then.
HandedIsCached ==
    handed # Nothing => handed.until = expiry /\ handed.at < handed.until

TokenInv == TokenTypeOK /\ CallsAreShort /\ SignerHadReason /\ HandedIsCached

\* No thread holds the lock before the first call: the initial state has it all.
LEMMA TokenInit == Init => TokenInv
BY TokenAssumption
   DEF Init, TokenInv, TokenTypeOK, CallsAreShort, SignerHadReason, HandedIsCached, Nothing

\* Every step of _refresh_token, and the clock, keeps the invariant.
LEMMA TokenStep == TokenInv /\ [Next]_vars => TokenInv'
<1> SUFFICES ASSUME TokenInv, [Next]_vars PROVE TokenInv'
  OBVIOUS
<1> USE TokenAssumption DEF TokenInv, TokenTypeOK, CallsAreShort, SignerHadReason, HandedIsCached
<1>1. ASSUME NEW t \in Threads, Call(t) PROVE TokenInv'
  BY <1>1 DEF Call
<1>2. ASSUME NEW t \in Threads, Reuse(t) PROVE TokenInv'
  <2>1. now < expiry
    BY <1>2 DEF Reuse, Usable
  <2> QED
    BY <1>2, <2>1 DEF Reuse, Return, End
<1>3. ASSUME NEW t \in Threads, BeginSigning(t) PROVE TokenInv'
  BY <1>3 DEF BeginSigning, Usable
<1>4. ASSUME NEW t \in Threads, NEW signedAt \in 0 .. now, Signed(t, signedAt) PROVE TokenInv'
  <2>1. now < signedAt + Life
    BY <1>4 DEF Signed
  <2>2. \A u \in Threads \ {t} : pc[u] # "signing"
    BY <1>4 DEF Signed
  <2> QED
    BY <1>4, <2>1, <2>2 DEF Signed, Return, End
<1>5. ASSUME NEW t \in Threads, SigningFails(t) PROVE TokenInv'
  BY <1>5 DEF SigningFails, End
<1>6. CASE Tick
  BY <1>6 DEF Tick
<1>7. CASE UNCHANGED vars
  BY <1>7 DEF vars
<1> QED
  BY <1>1, <1>2, <1>3, <1>4, <1>5, <1>6, <1>7 DEF Next

\* The invariant holds throughout.
LEMMA TokenInvariance == Spec => []TokenInv
BY TokenInit, TokenStep, PTL DEF Spec

\* A token returned by MSKTokenProvider.token() is valid at that moment, however
\* long the thread waited for the lock.
THEOREM TokensAreFresh == Spec => []TokenFreshWhenReturned
<1>1. TokenInv => TokenFreshWhenReturned
  BY DEF TokenInv, HandedIsCached, TokenFreshWhenReturned
<1> QED
  BY <1>1, TokenInvariance, PTL

\* A token that replaces another lasts longer by at least Life - Margin: threads
\* that queued behind a renewal do not sign again.
THEOREM SigningIsRare == Spec => NoRepeatedSigning
<1> DEFINE Rare == handed # Nothing /\ handed'.until # handed.until
                     => handed'.until >= handed.until + Life - Margin
<1>1. TokenInv /\ [Next]_vars => [Rare]_vars
  <2> SUFFICES ASSUME TokenInv, Next PROVE Rare
    BY DEF vars
  <2> USE TokenAssumption DEF TokenInv, TokenTypeOK, SignerHadReason, HandedIsCached
  <2>1. ASSUME NEW t \in Threads, Reuse(t) PROVE Rare
    BY <2>1 DEF Reuse, Return
  <2>2. ASSUME NEW t \in Threads, NEW signedAt \in 0 .. now, Signed(t, signedAt) PROVE Rare
    BY <2>2 DEF Signed, Return
  <2>3. CASE UNCHANGED handed
    BY <2>3
  <2> QED
    BY <2>1, <2>2, <2>3 DEF Next, Call, BeginSigning, SigningFails, Tick
<1> QED
  BY <1>1, TokenInvariance, PTL DEF Spec, NoRepeatedSigning
=============================================================================
