---------------------------- MODULE MCForwarder ----------------------------
(***************************************************************************)
(* Instances of Forwarder for TLC.                                         *)
(***************************************************************************)
EXTENDS Forwarder, TLC

AllOutcomes == Classified \cup {"timeout", "http_error"}

\* Requests that start alike are interchangeable, and so are keys that no
\* constant singles out.
FullSymmetry == Permutations(Requests) \cup Permutations(Keys)

=============================================================================
