--------------------------- MODULE TokenProvider ---------------------------
(***************************************************************************)
(* MSKTokenProvider: the IAM token of the Kafka connections, cached until a *)
(* margin before its expiry and renewed by executor threads under a lock    *)
(* (aiokafka asks for a token whenever it opens a connection).              *)
(*                                                                         *)
(* A thread reads the clock before it waits for the lock, so what it        *)
(* compares with the expiry is as old as its wait.  Time is discrete.       *)
(***************************************************************************)
EXTENDS Naturals

CONSTANTS
    Threads,     \* executor threads that run _refresh_token
    Life,        \* lifetime the signer gives a token
    Margin,      \* how long before its expiry a token is no longer handed out
    Patience,    \* the longest a call takes, waiting and signing included
    MaxTime,     \* bound: length of a behaviour
    Free         \* no thread holds the lock

ASSUME TokenAssumption ==
    /\ Life \in Nat /\ Margin \in Nat /\ Patience \in Nat /\ MaxTime \in Nat
    /\ Patience <= Margin /\ Margin < Life
    /\ Free \notin Threads

VARIABLES
    now,         \* the clock
    expiry,      \* _expiry_ms of _token; 0 while _token is None
    lock,        \* holder of _lock
    pc,          \* "idle", "waiting" for the lock, "signing" under it
    seen,        \* now_ms of the thread's call; 0 outside
    handed       \* the token returned last: when, and good until when

vars == <<now, expiry, lock, pc, seen, handed>>

Nothing == [at |-> 0, until |-> 0]

Init ==
    /\ now = 0
    /\ expiry = 0
    /\ lock = Free
    /\ pc = [t \in Threads |-> "idle"]
    /\ seen = [t \in Threads |-> 0]
    /\ handed = Nothing

-----------------------------------------------------------------------------
\* now_ms = int(time.time() * 1000), then `with self._lock`.
Call(t) ==
    /\ pc[t] = "idle"
    /\ pc' = [pc EXCEPT ![t] = "waiting"]
    /\ seen' = [seen EXCEPT ![t] = now]
    /\ UNCHANGED <<now, expiry, lock, handed>>

End(t) ==
    /\ pc' = [pc EXCEPT ![t] = "idle"]
    /\ seen' = [seen EXCEPT ![t] = 0]

Return(t, until) ==
    /\ End(t)
    /\ handed' = [at |-> now, until |-> until]

\* Faulty variant: a token is handed out up to its expiry.
UsableToTheEnd(t) == seen[t] < expiry

\* now_ms < self._expiry_ms - 60_000, of a token there is.
Usable(t) == seen[t] + Margin < expiry

Reuse(t) ==
    /\ pc[t] = "waiting" /\ lock = Free
    /\ Usable(t)
    /\ Return(t, expiry)
    /\ UNCHANGED <<now, expiry, lock>>

BeginSigning(t) ==
    /\ pc[t] = "waiting" /\ lock = Free
    /\ ~Usable(t)
    /\ lock' = t
    /\ pc' = [pc EXCEPT ![t] = "signing"]
    /\ UNCHANGED <<now, expiry, seen, handed>>

\* Faulty variant: the expiry of the new token is not stored.
SignedUndated(t, signedAt) ==
    /\ pc[t] = "signing"
    /\ signedAt \in seen[t] .. now
    /\ lock' = Free
    /\ Return(t, signedAt + Life)
    /\ UNCHANGED <<now, expiry>>

\* _generate_msk_auth_token returns a token signed at some moment of the call.
Signed(t, signedAt) ==
    /\ pc[t] = "signing"
    /\ signedAt \in seen[t] .. now
    /\ expiry' = signedAt + Life
    /\ lock' = Free
    /\ Return(t, signedAt + Life)
    /\ UNCHANGED now

\* The signer raises: the lock is released and the old token stays.
SigningFails(t) ==
    /\ pc[t] = "signing"
    /\ lock' = Free
    /\ End(t)
    /\ UNCHANGED <<now, expiry, handed>>

\* Time passes, within what a call takes at most.
Tick ==
    /\ now < MaxTime
    /\ \A t \in Threads : pc[t] # "idle" => now < seen[t] + Patience
    /\ now' = now + 1
    /\ UNCHANGED <<expiry, lock, pc, seen, handed>>

Next ==
    \/ \E t \in Threads :
         \/ Call(t) \/ Reuse(t) \/ BeginSigning(t) \/ SigningFails(t)
         \/ \E signedAt \in 0 .. now : Signed(t, signedAt)
    \/ Tick

Spec == Init /\ [][Next]_vars

-----------------------------------------------------------------------------
\* Every variable keeps its shape.
TokenTypeOK ==
    /\ now \in Nat /\ expiry \in Nat
    /\ lock \in Threads \cup {Free}
    /\ pc \in [Threads -> {"idle", "waiting", "signing"}]
    /\ seen \in [Threads -> Nat]
    /\ handed \in [at : Nat, until : Nat]

\* A token is valid at the moment it is handed out, although the clock was read
\* before the wait for the lock: the margin absorbs the wait.
TokenFreshWhenReturned == handed # Nothing => handed.at < handed.until

\* Threads that queued while one of them signed reuse its token: a token is
\* followed by one that lasts longer by its lifetime less the margin, or more.
NoRepeatedSigning ==
    [][handed # Nothing /\ handed'.until # handed.until
         => handed'.until >= handed.until + Life - Margin]_vars
=============================================================================
