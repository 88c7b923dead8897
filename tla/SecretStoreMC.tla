--------------------------- MODULE SecretStoreMC ---------------------------
(* Small instances of SecretStore for TLC.                                  *)
EXTENDS SecretStore, TLC

\* Requests are alike, and so are the aliases whose environment exists.
Symmetry == Permutations(Requests) \cup Permutations(Aliases \ UnknownEnv)
============================================================================
