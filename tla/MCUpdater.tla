----------------------------- MODULE MCUpdater -----------------------------
(* Updater for TLC: the configuration bounds the releases and the checkers. *)
EXTENDS Updater
=============================================================================
