------------------------- MODULE VersionedSecrets -------------------------
(***************************************************************************)
(* What the secrets table promises, with no requests in it: each alias has *)
(* a history of values that only grows at its end, and either its last     *)
(* value resolves or nothing does.  A value is only ever added behind the  *)
(* one its writer had read while it resolved: nobody overwrites a value he *)
(* has not seen, and who finds a secret deleted cannot bring it back.      *)
(* SecretStore implements it.                                              *)
(***************************************************************************)
EXTENDS Naturals, Sequences

CONSTANTS Aliases, Writers

VARIABLES
  history,   \* alias -> the values it has had, each known by who wrote it
  resolves,  \* alias -> its last value can be read
  rotating   \* <<alias, length of its history, writer>> of rotations under way

vars == <<history, resolves, rotating>>

Init ==
  /\ history = [a \in Aliases |-> <<>>]
  /\ resolves = [a \in Aliases |-> FALSE]
  /\ rotating = {}

\* One or, in a batch, several secrets get their first value in one step.
Create(A, w) ==
  /\ \A a \in A : history[a] = <<>>
  /\ history' = [a \in Aliases |-> IF a \in A THEN <<w>> ELSE history[a]]
  /\ resolves' = [a \in Aliases |-> a \in A \/ resolves[a]]
  /\ UNCHANGED rotating

\* A rotation reads the value it is to replace, which has to resolve.
Begin(a, w) ==
  /\ resolves[a]
  /\ rotating' = rotating \cup {<<a, Len(history[a]), w>>}
  /\ UNCHANGED <<history, resolves>>

\* It then appends one value, unless another was written since it read.  It
\* does not look whether the secret was deleted meanwhile: a rotation that had
\* begun before a delete, and nothing else, makes the secret resolve again.
Supersede(a, w) ==
  LET mine == <<a, Len(history[a]), w>> IN
  /\ mine \in rotating
  /\ history' = [history EXCEPT ![a] = Append(@, w)]
  /\ resolves' = [resolves EXCEPT ![a] = TRUE]
  /\ rotating' = rotating \ {mine}

\* Rotations are refused, or die with the process.
Abandon ==
  /\ rotating' \subseteq rotating
  /\ UNCHANGED <<history, resolves>>

Retire(a) ==
  /\ resolves[a]
  /\ resolves' = [resolves EXCEPT ![a] = FALSE]
  /\ UNCHANGED <<history, rotating>>

Next ==
  \/ \E A \in (SUBSET Aliases) \ {{}}, w \in Writers : Create(A, w)
  \/ \E a \in Aliases, w \in Writers : Begin(a, w) \/ Supersede(a, w)
  \/ \E a \in Aliases : Retire(a)
  \/ Abandon

Spec == Init /\ [][Next]_vars
============================================================================
