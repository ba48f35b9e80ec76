-------------------------- MODULE MCUsageTracker --------------------------
(* UsageTracker as it is: its actors are numbered, not alike. *)
EXTENDS UsageTracker
=============================================================================
