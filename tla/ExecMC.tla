------------------------------- MODULE ExecMC -------------------------------
(***************************************************************************)
(* Instances of PrivilegedExec for TLC: two invocations of keynv exec, two *)
(* processes of keynv-mcp that may take the socket from each other.        *)
(***************************************************************************)
EXTENDS PrivilegedExec

CONSTANTS p1, p2, s1, s2, v1, v2

MCProcs   == {p1, p2}
MCServers == {s1, s2}
MCValues  == {v1, v2}
Interchangeable == Permutations(MCProcs) \cup Permutations(MCServers)

Called(file, via, resolve) ==
  [file |-> file, via |-> via, resolve |-> resolve,
   bad |-> FALSE, loggedIn |-> TRUE, noRedact |-> FALSE]

DB(a) == "DB" :> a
Token(n, t) == [name |-> n, token |-> t]

Nothing == Called(<<>>, <<>>, <<>>)

MCSpecs ==
  {Called(DB("x"), DB("y"), <<>>),
   Called(DB("x"), <<>>, <<Token("KEY", 1)>>),
   [Nothing EXCEPT !.resolve = <<Token("DB", 1)>>, !.loggedIn = FALSE, !.noRedact = TRUE],
   [Nothing EXCEPT !.file = DB("x"), !.loggedIn = FALSE],
   [Nothing EXCEPT !.bad = TRUE]}

\* What a command prints passes through its own invocation alone: it is explored
\* with nothing else under way.
PrintsAlone ==
  writes > 0 => /\ Cardinality({p \in Procs : runs[p].step # "idle"}) = 1
                /\ changes = 0 /\ faults = 0 /\ starts <= 1
=============================================================================
