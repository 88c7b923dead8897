----------------------------- MODULE WatcherMC -----------------------------
(* Small instances of Watcher for TLC. *)
EXTENDS Watcher, TLC
=============================================================================
