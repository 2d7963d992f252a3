---------------------------- MODULE MCGovernance ----------------------------
(***************************************************************************)
(* Instances of Governance for TLC; the configurations give all constants. *)
(***************************************************************************)
EXTENDS Governance

=============================================================================
