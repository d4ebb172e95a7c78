------------------------ MODULE SequenceStateMachine ------------------------
(***************************************************************************)
(* The three Lua scripts of redis/sequence_state_machine.py, as operators   *)
(* on the value of one key "{prefix}:{conversationId}".  Redis runs a       *)
(* script atomically, so each is one function of the key's value; the       *)
(* NoScriptError retry re-runs a script that had no effect.                 *)
(*                                                                         *)
(* A key is [expected |-> n, ttl |-> t]: the sequence number the server     *)
(* expects next and which of the two TTLs its expiry was last set to.       *)
(* `GET' on a missing key makes prepare behave as if 0 were expected, so    *)
(* the missing key is represented with expected = 0.                        *)
(***************************************************************************)
EXTENDS Naturals

TTLs == {"none", "active", "final"}

Keys == [expected : Nat, ttl : TTLs]

Absent == [expected |-> 0, ttl |-> "none"]

Exists(k) == k.ttl # "none"

-----------------------------------------------------------------------------
\* Faulty variants, used by no definition of the specification: each is the
\* operator whose name it ends with, with a plausible bug, and is swapped in to
\* see that a property notices.

\* `>=' in place of `==': a gap in the numbering is accepted.
AcceptsGapsPrepareStatus(k, seq) ==
    IF seq >= k.expected THEN "PRE_CHECK_OK" ELSE "IDEMPOTENT"

\* `<=' in place of `==': a replay is processed once more.
AcceptsReplaysPrepareStatus(k, seq) ==
    IF seq <= k.expected THEN "PRE_CHECK_OK" ELSE "OUT_OF_ORDER"

\* prepare already advances the expected sequence number.
AdvancingPrepared(k, seq) ==
    IF seq = k.expected THEN [expected |-> seq + 1, ttl |-> "active"] ELSE k

\* The key is SET to the incoming number wherever the script answers success.
OverwritingPrepared(k, seq) ==
    IF seq <= k.expected THEN [expected |-> seq, ttl |-> "active"] ELSE k

\* The key is SET to the number just handled, not to the next one.
LaggingCommitted(k, seq) == [expected |-> seq, ttl |-> "active"]

-----------------------------------------------------------------------------
\* LUA_PREPARE: what prepare(conversationId, seq) answers.
PrepareStatus(k, seq) ==
    IF seq = k.expected THEN "PRE_CHECK_OK"
    ELSE IF seq < k.expected THEN "IDEMPOTENT" ELSE "OUT_OF_ORDER"

\* LUA_PREPARE: only the PRE_CHECK_OK branches write the key (SET key 0 EX, or
\* EXPIRE); an idempotent hit does not refresh the TTL.
Prepared(k, seq) ==
    IF PrepareStatus(k, seq) = "PRE_CHECK_OK" THEN [k EXCEPT !.ttl = "active"] ELSE k

\* LUA_COMMIT: an unconditional SET, whatever the key holds by now.
Committed(k, seq) == [expected |-> seq + 1, ttl |-> "active"]

\* LUA_CLEANUP: shorten the TTL of a key that is still there.
Cleaned(k) == IF Exists(k) THEN [k EXCEPT !.ttl = "final"] ELSE k
=============================================================================
