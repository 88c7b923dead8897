----------------------------- MODULE StartupMC -----------------------------
(* Model values for Startup are given in the .cfg files. *)
EXTENDS Startup
=============================================================================
