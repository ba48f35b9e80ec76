----------------------------- MODULE MCMetaAuth -----------------------------
(* Two accounts; sign-ins and keys are bounded by the configuration. *)
EXTENDS MetaAuth

=============================================================================
