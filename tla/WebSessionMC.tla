---------------------------- MODULE WebSessionMC ----------------------------
(* Small instances of WebSession for TLC. *)
EXTENDS WebSession, TLC
=============================================================================
