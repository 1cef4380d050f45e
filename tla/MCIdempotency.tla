---------------------------- MODULE MCIdempotency ----------------------------
(* Three requests at a time, two keys, two bodies and room for one entry.   *)
EXTENDS Idempotency

CONSTANTS h1, h2, h3, k1, k2, b1, b2

=============================================================================
