----------------------------- MODULE UpdaterMC -----------------------------
(* Small instances of Updater for TLC. *)
EXTENDS Updater
=============================================================================
