--------------------------- MODULE MCIdempotency ---------------------------
(***************************************************************************)
(* Small instances of Idempotency: a key reused by its tenant with the     *)
(* same body and with another, and the same key of another tenant.         *)
(***************************************************************************)
EXTENDS Idempotency, TLC

CONSTANTS r1, r2, r3, w1, w2, t1, t2, k1, b1, b2

Post(t, k, b) == [method |-> "POST", tenant |-> t, key |-> k, body |-> b]

MCInputs == {Post(t1, k1, b1), Post(t1, k1, b2), Post(t2, k1, b1)}

\* One request and its retry.
MCRetry == {Post(t1, k1, b1)}

WorkSymmetry == Permutations(Requests \ Faulty) \cup Permutations(Workers)
=============================================================================
