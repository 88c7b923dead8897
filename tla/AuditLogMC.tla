----------------------------- MODULE AuditLogMC -----------------------------
(* Small instances of AuditLog and its readers for TLC. *)
EXTENDS AuditReading, TLC

Symmetry == Permutations(Walks) \cup Permutations(Events) \cup Permutations(Keys)

\* A walk and a reader change nothing that the other reads, so a walk is not
\* explored further next to an open reader.
OneAtATime ==
  \/ \A w \in Walks : reply[w] = "none"
  \/ \A r \in Readers : view[r] = Closed
============================================================================
