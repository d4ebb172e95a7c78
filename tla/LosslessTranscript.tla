------------------------- MODULE LosslessTranscript -------------------------
(***************************************************************************)
(* What the service promises the upstream client and the consumers of the   *)
(* topic (design-guardrails.md 2.2 and 2.3), with nothing about Redis,      *)
(* processes or failures: a partition that only grows, in which a sequence  *)
(* number appears only after all smaller ones, and acknowledgements that    *)
(* are given only for what the partition holds.                             *)
(***************************************************************************)
EXTENDS Integers, Sequences

CONSTANT Frames

VARIABLES topic, acked

Holds(n) == \E i \in DOMAIN topic : topic[i].seq = n

Init == topic = << >> /\ acked = {}

\* A frame is persisted (again, if it was retried), its predecessors being there.
Persist(f) ==
    /\ \A n \in 0..(f.seq - 1) : Holds(n)
    /\ topic' = Append(topic, f)
    /\ UNCHANGED acked

\* A frame whose sequence number is persisted is acknowledged.
Acknowledge(f) ==
    /\ Holds(f.seq)
    /\ acked' = acked \cup {f}
    /\ UNCHANGED topic

Next == \E f \in Frames : Persist(f) \/ Acknowledge(f)

Spec == Init /\ [][Next]_<<topic, acked>>
=============================================================================
