--------------------------- MODULE MCIdempotency ---------------------------
(* Instances of Idempotency for TLC. *)
EXTENDS Idempotency

CONSTANTS r1, r2, r3, k1, a, b, yes, no

\* Two bodies under one key, and a request without a key.
Requests == {r1, r2, r3}
OneKey == [r \in Requests |-> IF r = r3 THEN NoSlot ELSE k1]
TwoBodies == [r \in Requests |-> IF r = r1 THEN a ELSE b]
=============================================================================
