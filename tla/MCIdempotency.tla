--------------------------- MODULE MCIdempotency ---------------------------
(***************************************************************************)
(* Instances of Idempotency for TLC.                                       *)
(***************************************************************************)
EXTENDS Idempotency, TLC

\* Requests are interchangeable, and so are clients, keys and hashes no
\* endpoint of which is in require_on.
RequestSymmetry == Permutations(Requests)

=============================================================================
