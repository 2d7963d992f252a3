--------------------------- MODULE MCRedisLimits ---------------------------
(***************************************************************************)
(* Instances of RedisLimits for TLC: one of the requests is served by a    *)
(* process whose clock is ahead by MaxSkew.                                *)
(***************************************************************************)
EXTENDS RedisLimits, TLC

CONSTANT Fast

ASSUME Fast \in Requests

SkewOfFast == [r \in Requests |-> IF r = Fast THEN MaxSkew ELSE 0]

\* The other requests differ in nothing but their names.
RequestSymmetry == Permutations(Requests \ {Fast})

=============================================================================
