----------------------------- MODULE AccountsMC -----------------------------
(***************************************************************************)
(* Instance of Accounts for TLC: organization A with its owner o, the      *)
(* admin a, the developer l who leads project p, and d; organization B,    *)
(* which a has made, with project q and the user b.  l has a CLI token t   *)
(* and a has created a secret.                                             *)
(***************************************************************************)
EXTENDS Accounts, TLC

CONSTANTS A, B, o, a, l, d, b, p, q, t, r1, r2

MCRequests == {r1, r2}
Interchangeable == Permutations(MCRequests)

User(org, role, email) == [org |-> org, email |-> email, role |-> role]
Project(org, name) == [org |-> org, name |-> name, deleted |-> FALSE]
Member(u, role, by) == [user |-> u, project |-> p, role |-> role, by |-> by]

MCOrgs == A :> "A" @@ B :> "B"
MCUsers == o :> User(A, "owner", "o") @@ a :> User(A, "admin", "a") @@ l :> User(A, "developer", "l")
           @@ d :> User(A, "developer", "d") @@ b :> User(B, "developer", "b")
MCOwned == {<<a, B>>}
MCProjects == p :> Project(A, "p") @@ q :> Project(B, "p")
MCMembers == {Member(l, "lead", o), Member(d, "reader", l)}
MCTokens == t :> [user |-> l, revoked |-> FALSE]

By(op, us, os) == {[Blank EXCEPT !.op = op, !.by = u, !.org = g] : u \in us, g \in os}

MCCalls ==
  {[Blank EXCEPT !.op = "register", !.email = "e", !.name = "new"]}
  \cup By("whoami", {a, l, d}, {Null}) \cup By("projects.list", {a, l}, {B})
  \cup By("projects.summary", {l}, {Null}) \cup By("users.list", {a, l}, {B})
  \cup By("orgs.list", {a}, {Null}) \cup By("tokens.list", {t}, {Null})
  \cup {[c EXCEPT !.project = p] : c \in By("project.get", {a, l}, {Null, B}) \cup By("members.list", {l, b}, {Null})}
  \cup {[c EXCEPT !.name = "new"] : c \in By("org.create", {d}, {Null}) \cup By("org.rename", {a, l}, {B})}
  \cup {[c EXCEPT !.email = "e", !.orgId = g, !.role = "developer"] : c \in By("invite", {o, a, l}, {Null}), g \in {Null, B}}
  \cup {[c EXCEPT !.user = u, !.role = "admin"] : c \in By("user.role", {o, a}, {Null}), u \in {o, a, d}}
  \cup {[c EXCEPT !.user = u] : c \in By("user.remove", {o, a}, {Null, B}), u \in {o, a, l, d}}
  \cup {[c EXCEPT !.name = "new"] : c \in By("project.create", {a, d}, {Null, B})}
  \cup {[c EXCEPT !.project = x] : c \in By("project.delete", {o, a}, {B}), x \in {p, q}}
  \cup {[c EXCEPT !.project = x, !.name = "prod"] : c \in By("env.add", {a, t}, {Null}), x \in {p, q}}
  \cup {[c EXCEPT !.project = p, !.email = e, !.role = "developer"] :
          c \in By("member.add", {a, t}, {Null, B}), e \in {"a", "d", "b"}}
  \cup {[c EXCEPT !.project = p, !.user = d, !.role = "lead"] : c \in By("member.patch", {a, l}, {Null, B})}
  \cup {[c EXCEPT !.project = p, !.user = d] : c \in By("member.remove", {a, t}, {Null, B})}
  \cup By("token.create", {l}, {Null})
  \cup {[c EXCEPT !.token = t] : c \in By("token.revoke", {l, t, d}, {Null})}
=============================================================================
