---------------------------- MODULE ApprovalsMC ----------------------------
(* Small instances of Approvals and its screens for TLC. *)
EXTENDS ApprovalsReading, TLC

Symmetry == Permutations(Requests) \cup Permutations(Members)

\* A screen reads the table of approvals only, which neither a crash nor a test
\* changes in a way that a read cannot: beside an open screen they are left out.
QuietScreens ==
  \/ \A s \in Screens : queue[s].page = "none"
  \/ restarts = 0 /\ \A r \in Requests : call[r] # Null => call[r].op # "test"
============================================================================
