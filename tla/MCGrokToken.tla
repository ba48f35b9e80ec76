------------------------------ MODULE MCGrokToken ------------------------------
(* Small instances of GrokToken for TLC. *)
EXTENDS GrokToken
=============================================================================
