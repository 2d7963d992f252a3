----------------------------- MODULE MCKeyStore -----------------------------
(***************************************************************************)
(* Instances of KeyStore for TLC; the configurations give all constants.   *)
(***************************************************************************)
EXTENDS KeyStore

=============================================================================
