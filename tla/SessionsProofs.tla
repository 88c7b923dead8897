--------------------------- MODULE SessionsProofs ---------------------------
(***************************************************************************)
(* Theorems about Sessions, for any sets of requests and users and any     *)
(* lifetimes.                                                              *)
(*                                                                         *)
(* A handler acts on rows that it read some awaits ago.  What it relies on *)
(* is that a row keeps its user and its expiry, and that nothing takes a   *)
(* revocation or a consumption back (RowStep): so what was invalid stays   *)
(* so, and what was done on someone's authority stays authorized.          *)
(***************************************************************************)
EXTENDS Sessions, TLAPS

\* Somebody logged in as u has entered the code of flow f.
AuthorizedBy(f, u) ==
  \E q \in Requests : /\ call[q] # Null /\ call[q].op = "authorize"
                      /\ call[q].id = f /\ call[q].user = u
                      /\ pc[q] = "done"

\* A flow has the user who authorized it.
FlowsOK ==
  \A f \in Flows : flows[f].user # Null => AuthorizedBy(f, flows[f].user)

\* What the position of a request says of its call and of its rows
AtPosition(r) ==
  /\ pc[r] = "idle" => call[r] = Null
  /\ pc[r] # "idle" => call[r] \in Call
  /\ reply[r] = "none" <=> pc[r] # "done"
  /\ tokens[r] # Null => /\ pc[r] \in {"audit", "done"}
                         /\ call[r].op \in {"login", "refresh", "poll"}
  /\ flows[r] # Null => pc[r] = "done" /\ call[r].op = "start"
  /\ pc[r] = "revoke" => call[r].op = "refresh"
  /\ pc[r] = "issue" => call[r].op \in {"login", "refresh", "poll"}
  /\ pc[r] = "consume" => call[r].op = "poll"
  /\ pc[r] = "authorize" => call[r].op = "authorize"
  /\ pc[r] \in {"rehash", "revokeAll"} => call[r].op = "password"

\* The rows and users that a call names are there.
CallOK(r) ==
  call[r] # Null =>
    /\ call[r].op \in {"refresh", "logout"} => call[r].id \in Tokens
    /\ call[r].op \in {"poll", "authorize"} => call[r].id \in Flows
    /\ call[r].op \in {"login", "password", "authorize"} => call[r].user \in Users

\* A handler on its way to a token has found on whose authority.
GranteeOK(r) ==
  /\ pc[r] = "issue" /\ call[r].op = "login"
       => grantee[r] = call[r].user /\ r \in knowing
  /\ pc[r] \in {"revoke", "issue"} /\ call[r].op = "refresh"
       => grantee[r] = tokens[call[r].id].user
  /\ pc[r] \in {"consume", "issue"} /\ call[r].op = "poll"
       => grantee[r] \in Users /\ AuthorizedBy(call[r].id, grantee[r])
  /\ pc[r] = "issue" /\ call[r].op = "poll" => flows[call[r].id].consumed
  /\ pc[r] = "issue" /\ call[r].op = "refresh" => tokens[call[r].id].revoked

\* A refresh that has come past its read, or may still, presented a token that
\* was valid when it arrived.
RefreshOK(r) ==
  pc[r] # "idle" /\ call[r].op = "refresh" =>
    /\ Valid(call[r].id) => call[r].id \in live[r]
    /\ pc[r] \in {"revoke", "issue", "audit"} \/ reply[r] = "ok"
         => call[r].id \in live[r]

\* A password change past its revocation has ended what was valid before it.
ChangeOK(r) ==
  /\ live[r] \subseteq Tokens
  /\ call[r] # Null /\ call[r].op = "password"
       /\ (pc[r] = "audit" \/ reply[r] = "ok")
       => \A i \in live[r] : tokens[i].user = call[r].user => tokens[i].revoked

\* A login that is still to be verified, and would pass, has presented a password
\* that has been its user's since it arrived.
KnowingOK ==
  \A r \in Requests :
    pc[r] = "start" /\ call[r].op = "login" /\ call[r].password = password[call[r].user]
      => r \in knowing

Positions ==
  \A r \in Requests : /\ AtPosition(r) /\ CallOK(r) /\ GranteeOK(r)
                      /\ RefreshOK(r) /\ ChangeOK(r)

IInv == TypeOK /\ FlowsOK /\ KnowingOK /\ Positions /\ IssuedOnAuthority

----------------------------------------------------------------------------
(* What a step does *)

\* A step of r leaves the variables of the others alone.
Frame(r) ==
  \A q \in Requests \ {r} :
    /\ pc'[q] = pc[q] /\ call'[q] = call[q] /\ grantee'[q] = grantee[q]
    /\ reply'[q] = reply[q] /\ live'[q] = live[q]

\* No handler breaks that.
LEMMA ServeFrame ==
  ASSUME TypeOK, NEW r \in Requests, Serve(r) PROVE Frame(r)
<1> USE DEF TypeOK, Frame, Answer, Goto, tables, world, history
<1>1. CASE Arrive(r)
  BY <1>1 DEF Arrive
<1>2. CASE LoginVerify(r) \/ Logout(r)
  BY <1>2 DEF LoginVerify, Logout
<1>3. CASE RefreshRead(r) \/ RefreshRevoke(r) \/ Issue(r)
  BY <1>3 DEF RefreshRead, RefreshRevoke, Issue
<1>4. CASE Start(r) \/ PollConsume(r)
  BY <1>4 DEF Start, PollConsume
<1>5. CASE PollRead(r)
  BY <1>5 DEF PollRead
<1>6. CASE AuthorizeRead(r) \/ AuthorizeWrite(r)
  BY <1>6 DEF AuthorizeRead, AuthorizeWrite
<1>7. CASE PasswordVerify(r) \/ PasswordWrite(r) \/ PasswordRevoke(r)
  BY <1>7 DEF PasswordVerify, PasswordWrite, PasswordRevoke
<1>8. CASE Audit(r) \/ AuditFails(r)
  BY <1>8 DEF Audit, AuditFails
<1> QED
  BY <1>1, <1>2, <1>3, <1>4, <1>5, <1>6, <1>7, <1>8 DEF Serve

\* No row goes; a token keeps its user, what it rests on and its end; and no
\* revocation and no consumption is taken back.
RowStep ==
  /\ now <= now'
  /\ \A i \in Tokens : /\ i \in Tokens'
                       /\ tokens'[i].user = tokens[i].user
                       /\ tokens'[i].proof = tokens[i].proof
                       /\ tokens'[i].expires = tokens[i].expires
                       /\ tokens[i].revoked => tokens'[i].revoked
  /\ \A f \in Flows : /\ f \in Flows'
                      /\ flows[f].consumed => flows'[f].consumed

\* What a revocation of the tokens I does to the table
LEMMA Revocation ==
  ASSUME TypeOK, NEW I \in SUBSET Tokens,
         tokens' = [i \in Requests |-> IF i \in I THEN [tokens[i] EXCEPT !.revoked = TRUE]
                                                 ELSE tokens[i]]
  PROVE  /\ tokens' \in [Requests -> Token \cup {Null}]
         /\ \A i \in Requests : i \in Tokens' <=> i \in Tokens
         /\ \A i \in Tokens : /\ tokens'[i].user = tokens[i].user
                              /\ tokens'[i].proof = tokens[i].proof
                              /\ tokens'[i].expires = tokens[i].expires
                              /\ tokens'[i].revoked = (i \in I \/ tokens[i].revoked)
<1>1. \A i \in Tokens : tokens[i] \in Token /\ i \in Requests
  BY DEF TypeOK, Tokens
<1>2. ASSUME NEW i \in Tokens
      PROVE  LET t == [tokens[i] EXCEPT !.revoked = TRUE] IN
             /\ t \in Token /\ t # Null /\ t.user = tokens[i].user
             /\ t.proof = tokens[i].proof /\ t.expires = tokens[i].expires
             /\ t.revoked = TRUE
  BY <1>1, NullAssumption DEF Token
<1>3. tokens' \in [Requests -> Token \cup {Null}]
  BY <1>2 DEF TypeOK
<1>4. \A i \in Requests : i \in Tokens' <=> i \in Tokens
  BY <1>2 DEF Tokens
<1>5. \A i \in Tokens : tokens[i].revoked \in BOOLEAN
  BY <1>1 DEF Token
<1> QED
  BY <1>1, <1>2, <1>3, <1>4, <1>5

\* Only Issue adds a token, that of its request, which has had none.
LEMMA TokenSteps ==
  ASSUME IInv, NEW r \in Requests, Serve(r)
  PROVE  /\ tokens' \in [Requests -> Token \cup {Null}]
         /\ \A i \in Tokens : /\ i \in Tokens'
                              /\ tokens'[i].user = tokens[i].user
                              /\ tokens'[i].proof = tokens[i].proof
                              /\ tokens'[i].expires = tokens[i].expires
                              /\ tokens[i].revoked => tokens'[i].revoked
         /\ \A i \in Tokens' : i \in Tokens \/ (i = r /\ Issue(r))
<1>0. TypeOK /\ AtPosition(r) /\ CallOK(r)
  BY DEF IInv, Positions
<1>a. Tokens \subseteq Requests
  BY DEF Tokens
<1>b. ASSUME UNCHANGED tokens
      PROVE  tokens' \in [Requests -> Token \cup {Null}] /\ Tokens' = Tokens
  BY <1>0, <1>b DEF TypeOK, Tokens
<1>c. ASSUME NEW I \in SUBSET Tokens,
             tokens' = [i \in Requests |-> IF i \in I THEN [tokens[i] EXCEPT !.revoked = TRUE]
                                                     ELSE tokens[i]]
      PROVE  /\ tokens' \in [Requests -> Token \cup {Null}]
             /\ Tokens' = Tokens
             /\ \A i \in Tokens : /\ tokens'[i].user = tokens[i].user
                                  /\ tokens'[i].proof = tokens[i].proof
                                  /\ tokens'[i].expires = tokens[i].expires
                                  /\ tokens[i].revoked => tokens'[i].revoked
  <2>1. /\ tokens' \in [Requests -> Token \cup {Null}]
        /\ \A i \in Requests : i \in Tokens' <=> i \in Tokens
        /\ \A i \in Tokens : /\ tokens'[i].user = tokens[i].user
                             /\ tokens'[i].proof = tokens[i].proof
                             /\ tokens'[i].expires = tokens[i].expires
                             /\ tokens'[i].revoked = (i \in I \/ tokens[i].revoked)
    BY <1>0, <1>c, Revocation
  <2>2. Tokens' \subseteq Requests
    BY DEF Tokens
  <2> QED
    BY <1>a, <2>1, <2>2
<1>1. CASE RefreshRevoke(r) \/ Logout(r)
  <2>1. call[r].id \in Tokens /\ tokens' = Revoked(call[r].id)
    <3>1. call[r] # Null /\ call[r].op \in {"refresh", "logout"}
      BY <1>0, <1>1, NullAssumption DEF RefreshRevoke, Logout, AtPosition
    <3> QED
      BY <1>0, <1>1, <3>1 DEF RefreshRevoke, Logout, CallOK
  <2>2. tokens' = [i \in Requests |-> IF i \in {call[r].id}
                                      THEN [tokens[i] EXCEPT !.revoked = TRUE]
                                      ELSE tokens[i]]
    BY <1>0, <1>a, <2>1 DEF Revoked, TypeOK
  <2> QED
    BY <1>c, <2>1, <2>2
<1>2. CASE PasswordRevoke(r)
  <2> DEFINE I == {i \in Tokens : tokens[i].user = call[r].user}
  <2>1. tokens' = [i \in Requests |-> IF i \in I THEN [tokens[i] EXCEPT !.revoked = TRUE]
                                                ELSE tokens[i]]
    BY <1>2 DEF PasswordRevoke, RevokedAll
  <2>2. I \in SUBSET Tokens
    OBVIOUS
  <2> HIDE DEF I
  <2> QED
    BY <1>c, <2>1, <2>2
<1>3. CASE Issue(r)
  <2> DEFINE t == [user |-> grantee[r], proof |-> ProofOf(r),
                   expires |-> now + RefreshTtl, revoked |-> FALSE]
  <2>1. tokens[r] = Null
    BY <1>0, <1>3 DEF Issue, AtPosition
  <2>2. t \in Token
    <3>1. call[r] \in Call /\ call[r] # Null /\ pc[r] = "issue"
      BY <1>0, <1>3, NullAssumption DEF AtPosition, Issue
    <3>2. /\ call[r].op \in {"login", "refresh", "poll"}
          /\ call[r].op = "login" => call[r].user \in Users
          /\ call[r].op = "refresh" => call[r].id \in Tokens
          /\ call[r].password \in Passwords
      BY <1>0, <3>1 DEF AtPosition, CallOK, Call
    <3>3. \A i \in Tokens : tokens[i] \in Token
      BY <1>0 DEF TypeOK, Tokens
    <3>4. grantee[r] \in Users
      BY <3>1, <3>2, <3>3 DEF IInv, Positions, GranteeOK, Token
    <3>5. ProofOf(r) \in Passwords \cup {"flow"}
      BY <3>2, <3>3 DEF ProofOf, Token
    <3>6. now + RefreshTtl \in Nat
      BY <1>0, TtlAssumption DEF TypeOK
    <3> QED
      BY <3>4, <3>5, <3>6 DEF Token
  <2> HIDE DEF t
  <2>3. tokens' = [tokens EXCEPT ![r] = t]
    BY <1>3 DEF Issue, t
  <2> QED
    BY <1>0, <1>3, <2>1, <2>2, <2>3, NullAssumption DEF TypeOK, Tokens
<1>4. CASE UNCHANGED tokens
  BY <1>b, <1>4
<1>5. \/ UNCHANGED tokens \/ RefreshRevoke(r) \/ Logout(r) \/ PasswordRevoke(r) \/ Issue(r)
  BY DEF Serve, Arrive, LoginVerify, RefreshRead, Start, PollRead, PollConsume,
         AuthorizeRead, AuthorizeWrite, PasswordVerify, PasswordWrite, Audit, AuditFails,
         tables
<1> QED
  BY <1>1, <1>2, <1>3, <1>4, <1>5

\* Only Start adds a flow, that of its request, and only AuthorizeWrite gives
\* one a user.
LEMMA FlowSteps ==
  ASSUME IInv, NEW r \in Requests, Serve(r)
  PROVE  /\ flows' \in [Requests -> Flow \cup {Null}]
         /\ \A f \in Flows :
              /\ f \in Flows'
              /\ flows[f].consumed => flows'[f].consumed
              /\ \/ flows'[f].user = flows[f].user
                 \/ /\ AuthorizeWrite(r) /\ f = call[r].id
                    /\ flows'[f].user = call[r].user
         /\ \A f \in Flows' : f \in Flows \/ (f = r /\ Start(r) /\ flows'[f].user = Null)
<1>0. TypeOK /\ AtPosition(r) /\ CallOK(r)
  BY DEF IInv, Positions
<1>a. Flows \subseteq Requests /\ \A f \in Flows : flows[f] \in Flow /\ flows[f] # Null
  BY <1>0 DEF Flows, TypeOK
<1>b. ASSUME NEW f \in Flows, NEW g \in Flow, flows' = [flows EXCEPT ![f] = g]
      PROVE  /\ flows' \in [Requests -> Flow \cup {Null}]
             /\ Flows' = Flows /\ flows'[f] = g
             /\ \A i \in Flows \ {f} : flows'[i] = flows[i]
  BY <1>0, <1>a, <1>b, NullAssumption DEF TypeOK, Flows
<1>1. CASE PollConsume(r)
  <2>1. call[r].id \in Flows
    <3>1. call[r] # Null /\ call[r].op = "poll"
      BY <1>0, <1>1, NullAssumption DEF PollConsume, AtPosition
    <3> QED
      BY <1>0, <3>1 DEF CallOK
  <2> DEFINE f == call[r].id
             g == [flows[f] EXCEPT !.consumed = TRUE]
  <2>2. flows[f] \in Flow
    BY <1>a, <2>1
  <2>3. g \in Flow /\ g.consumed = TRUE /\ g.user = flows[f].user
    BY <2>2 DEF Flow
  <2>4. flows' = [flows EXCEPT ![f] = g]
    BY <1>0, <1>1, <1>a, <2>1 DEF PollConsume, TypeOK
  <2> HIDE DEF f, g
  <2> QED
    BY <1>b, <2>1, <2>3, <2>4 DEF f
<1>2. CASE AuthorizeWrite(r)
  <2>1. call[r].id \in Flows /\ call[r].user \in Users
    <3>1. call[r] # Null /\ call[r].op = "authorize"
      BY <1>0, <1>2, NullAssumption DEF AuthorizeWrite, AtPosition
    <3> QED
      BY <1>0, <3>1 DEF CallOK
  <2> DEFINE f == call[r].id
             g == [flows[f] EXCEPT !.user = call[r].user]
  <2>2. flows[f] \in Flow
    BY <1>a, <2>1
  <2>3. g \in Flow /\ g.consumed = flows[f].consumed /\ g.user = call[r].user
    BY <2>1, <2>2 DEF Flow
  <2>4. flows' = [flows EXCEPT ![f] = g]
    BY <1>0, <1>2, <1>a, <2>1 DEF AuthorizeWrite, TypeOK
  <2> HIDE DEF f, g
  <2> QED
    BY <1>2, <1>b, <2>1, <2>3, <2>4 DEF f
<1>3. CASE Start(r)
  <2> DEFINE g == [user |-> Null, expires |-> now + FlowTtl, consumed |-> FALSE]
  <2>1. flows[r] = Null
    BY <1>0, <1>3 DEF Start, AtPosition
  <2>2. g \in Flow /\ g # Null /\ g.user = Null
    <3>1. now + FlowTtl \in Nat
      BY <1>0, TtlAssumption DEF TypeOK
    <3>2. g \in Flow
      BY <3>1 DEF Flow
    <3> QED
      BY <3>2, NullAssumption
  <2>3. flows' = [flows EXCEPT ![r] = g]
    BY <1>3 DEF Start
  <2> HIDE DEF g
  <2> QED
    BY <1>0, <1>3, <2>1, <2>2, <2>3 DEF TypeOK, Flows
<1>4. CASE UNCHANGED flows
  BY <1>0, <1>4 DEF TypeOK, Flows
<1>5. UNCHANGED flows \/ PollConsume(r) \/ AuthorizeWrite(r) \/ Start(r)
  BY DEF Serve, Arrive, LoginVerify, RefreshRead, RefreshRevoke, Issue, Logout,
         PollRead, AuthorizeRead, PasswordVerify, PasswordWrite, PasswordRevoke,
         Audit, AuditFails, tables
<1> QED
  BY <1>1, <1>2, <1>3, <1>4, <1>5

\* No step of a handler takes back a row, a revocation or a consumption, and none
\* turns the clock.
LEMMA RowSteps ==
  ASSUME IInv, NEW r \in Requests, Serve(r) PROVE RowStep /\ now' = now
<1>1. now' = now
  BY DEF Serve, Arrive, LoginVerify, RefreshRead, RefreshRevoke, Issue, Logout, Start,
         PollRead, PollConsume, AuthorizeRead, AuthorizeWrite, PasswordVerify,
         PasswordWrite, PasswordRevoke, Audit, AuditFails, world
<1>2. now \in Nat
  BY DEF IInv, TypeOK
<1> QED
  BY <1>1, <1>2, TokenSteps, FlowSteps DEF RowStep

\* Every variable keeps its type in a step of a handler.
LEMMA ServeTypes ==
  ASSUME IInv, NEW r \in Requests, Serve(r) PROVE TypeOK'
<1> USE DEF Answer, Goto, tables, world, history
<1>0. /\ TypeOK /\ AtPosition(r) /\ CallOK(r) /\ GranteeOK(r)
      /\ pc[r] # "idle" => call[r] \in Call
  BY DEF IInv, Positions, AtPosition
<1>1. tokens' \in [Requests -> Token \cup {Null}] /\ flows' \in [Requests -> Flow \cup {Null}]
  BY TokenSteps, FlowSteps
<1>2. CASE Arrive(r)
  <2>1. Callable \subseteq Call
    <3>1. Tokens \subseteq Requests /\ Flows \subseteq Requests
      BY DEF Tokens, Flows
    <3> QED
      BY <3>1 DEF Callable, Call, Passwords
  <2>2. {i \in Tokens : Valid(i)} \subseteq Requests
    BY DEF Tokens
  <2> QED
    BY <1>0, <1>2, <2>1, <2>2 DEF Arrive, TypeOK
<1>3. CASE LoginVerify(r)
  <2>1. call[r].user \in Users
    BY <1>0, <1>3, NullAssumption DEF LoginVerify, CallOK
  <2> QED
    BY <1>0, <1>3, <2>1 DEF LoginVerify, TypeOK
<1>4. CASE RefreshRead(r)
  <2>1. Usable(call[r].id) => tokens[call[r].id].user \in Users
    BY <1>0 DEF Usable, Valid, Tokens, TypeOK, Token
  <2> QED
    BY <1>0, <1>4, <2>1 DEF RefreshRead, TypeOK
<1>5. CASE RefreshRevoke(r) \/ Issue(r) \/ Logout(r)
  BY <1>0, <1>1, <1>5 DEF RefreshRevoke, Issue, Logout, TypeOK
<1>6. CASE Start(r) \/ PollConsume(r) \/ AuthorizeWrite(r)
  BY <1>0, <1>1, <1>6 DEF Start, PollConsume, AuthorizeWrite, TypeOK
<1>7. CASE PollRead(r)
  <2>1. call[r].id \in Flows
    BY <1>0, <1>7, NullAssumption DEF PollRead, CallOK
  <2>2. flows[call[r].id].user \in Users \cup {Null}
    BY <1>0, <2>1 DEF Flows, TypeOK, Flow
  <2>3. PollOutcome(call[r].id) \in {"expired", "already_used", "pending", "go"}
    BY DEF PollOutcome
  <2> QED
    BY <1>0, <1>7, <2>2, <2>3 DEF PollRead, TypeOK
<1>8. CASE AuthorizeRead(r)
  BY <1>0, <1>8 DEF AuthorizeRead, TypeOK
<1>9. CASE PasswordVerify(r) \/ PasswordRevoke(r)
  BY <1>0, <1>1, <1>9 DEF PasswordVerify, PasswordRevoke, TypeOK
<1>10. CASE PasswordWrite(r)
  BY <1>0, <1>10 DEF PasswordWrite, TypeOK, Passwords
<1>11. CASE Audit(r)
  <2>1. AllowedEvent(r) \in EventTypes /\ DeniedEvent(r) \in EventTypes
    BY DEF AllowedEvent, DeniedEvent, EventTypes
  <2> QED
    BY <1>0, <1>11, <2>1 DEF Audit, TypeOK
<1>12. CASE AuditFails(r)
  BY <1>0, <1>12, BoundAssumption DEF AuditFails, TypeOK
<1> QED
  BY <1>2, <1>3, <1>4, <1>5, <1>6, <1>7, <1>8, <1>9, <1>10, <1>11, <1>12 DEF Serve

\* An answered request is served no more, so an authorization stands.
LEMMA AuthorityStands ==
  ASSUME NEW r \in Requests, Serve(r), Frame(r), NEW f, NEW u, AuthorizedBy(f, u)
  PROVE  AuthorizedBy(f, u)'
<1>1. pc[r] # "done"
  BY DEF Serve, Arrive, LoginVerify, RefreshRead, RefreshRevoke, Issue, Logout, Start,
         PollRead, PollConsume, AuthorizeRead, AuthorizeWrite, PasswordVerify,
         PasswordWrite, PasswordRevoke, Audit, AuditFails
<1> QED
  BY <1>1 DEF AuthorizedBy, Frame

\* A token that is valid was so before.
LEMMA ValidBefore ==
  ASSUME TypeOK, TypeOK', RowStep, NEW i \in Tokens, Valid(i)' PROVE Valid(i)
<1>1. /\ tokens[i] \in Token /\ tokens[i].expires \in Nat
      /\ now \in Nat /\ now' \in Nat
  BY DEF TypeOK, Tokens, Token
<1>2. now < tokens[i].expires
  BY <1>1 DEF Valid, RowStep
<1>3. ~tokens[i].revoked
  BY DEF Valid, RowStep
<1> QED
  BY <1>2, <1>3 DEF Valid

\* What is said of a request holds through the steps of others: their
\* variables stay and so do the rows.
LEMMA OthersKept ==
  ASSUME IInv, TypeOK', RowStep, NEW q \in Requests,
         pc'[q] = pc[q], call'[q] = call[q], grantee'[q] = grantee[q],
         reply'[q] = reply[q], live'[q] = live[q],
         q \in Tokens' <=> q \in Tokens, q \in Flows' <=> q \in Flows,
         knowing \subseteq knowing',
         \A f, u : AuthorizedBy(f, u) => AuthorizedBy(f, u)'
  PROVE  /\ AtPosition(q)' /\ CallOK(q)' /\ GranteeOK(q)'
         /\ RefreshOK(q)' /\ ChangeOK(q)'
<1>0. /\ TypeOK /\ AtPosition(q) /\ CallOK(q) /\ GranteeOK(q)
      /\ RefreshOK(q) /\ ChangeOK(q)
  BY DEF IInv, Positions
<1>1. AtPosition(q)'
  BY <1>0 DEF AtPosition, Tokens, Flows
<1>2. CallOK(q)'
  BY <1>0 DEF CallOK, RowStep
<1>c. pc[q] # "idle" => call[q] # Null
  BY <1>0, NullAssumption DEF AtPosition
<1>3. GranteeOK(q)'
  BY <1>0, <1>c DEF GranteeOK, CallOK, RowStep
<1>4. RefreshOK(q)'
  <2> SUFFICES ASSUME pc[q] # "idle", call[q].op = "refresh"
               PROVE  RefreshOK(q)'
    BY DEF RefreshOK
  <2>1. call[q].id \in Tokens
    BY <1>0, <1>c DEF CallOK
  <2>2. Valid(call[q].id)' => Valid(call[q].id)
    BY <1>0, <2>1, ValidBefore
  <2> QED
    BY <1>0, <2>2 DEF RefreshOK
<1>5. ChangeOK(q)'
  BY <1>0 DEF ChangeOK, RowStep
<1> QED
  BY <1>1, <1>2, <1>3, <1>4, <1>5

\* A request moves along the awaits of its own handler.
LEMMA OwnPosition ==
  ASSUME IInv, NEW r \in Requests, Serve(r) PROVE AtPosition(r)'
<1> USE DEF Answer, Goto, tables, world, history
<1>0. TypeOK /\ AtPosition(r)
  BY DEF IInv, Positions
<1>1. /\ tokens'[r] # Null => tokens[r] # Null \/ Issue(r)
      /\ flows'[r] # Null => flows[r] # Null \/ Start(r)
  BY TokenSteps, FlowSteps DEF Tokens, Flows
<1>2. CASE Arrive(r)
  <2>1. Callable \subseteq Call
    BY DEF Callable, Call, Passwords, Tokens, Flows
  <2>2. call'[r] \in Call /\ pc'[r] = "start" /\ pc[r] = "idle"
        /\ reply'[r] = reply[r] /\ tokens' = tokens /\ flows' = flows
    BY <1>0, <1>2, <2>1 DEF Arrive, TypeOK
  <2> QED
    BY <1>0, <2>2 DEF AtPosition
<1>3. CASE LoginVerify(r) \/ Logout(r)
  BY <1>0, <1>1, <1>3 DEF LoginVerify, Logout, Issue, Start, AtPosition, TypeOK
<1>4. CASE RefreshRead(r) \/ RefreshRevoke(r) \/ Issue(r)
  BY <1>0, <1>1, <1>4 DEF RefreshRead, RefreshRevoke, Issue, Start, AtPosition, TypeOK
<1>5. CASE Start(r) \/ PollConsume(r)
  BY <1>0, <1>1, <1>5 DEF PollConsume, Issue, Start, AtPosition, TypeOK
<1>6. CASE PollRead(r)
  <2>1. PollOutcome(call[r].id) \in {"expired", "already_used", "pending", "go"}
    BY DEF PollOutcome
  <2> QED
    BY <1>0, <1>1, <1>6, <2>1 DEF PollRead, Issue, Start, AtPosition, TypeOK
<1>7. CASE AuthorizeRead(r) \/ AuthorizeWrite(r)
  BY <1>0, <1>1, <1>7 DEF AuthorizeRead, AuthorizeWrite, Issue, Start, AtPosition, TypeOK
<1>8. CASE PasswordVerify(r) \/ PasswordWrite(r) \/ PasswordRevoke(r)
  BY <1>0, <1>1, <1>8
     DEF PasswordVerify, PasswordWrite, PasswordRevoke, Issue, Start, AtPosition, TypeOK
<1>9. CASE Audit(r) \/ AuditFails(r)
  BY <1>0, <1>1, <1>9 DEF Audit, AuditFails, Issue, Start, AtPosition, TypeOK
<1> QED
  BY <1>2, <1>3, <1>4, <1>5, <1>6, <1>7, <1>8, <1>9 DEF Serve

\* Nothing but an arrival touches a call and what was valid at its time.
LEMMA CallSteps ==
  ASSUME TypeOK, NEW r \in Requests, Serve(r)
  PROVE  \/ /\ Arrive(r) /\ pc'[r] = "start" /\ call'[r] \in Callable
            /\ live'[r] = {i \in Tokens : Valid(i)}
            /\ UNCHANGED <<tokens, flows, now, reply, grantee>>
         \/ /\ ~Arrive(r) /\ pc[r] # "idle"
            /\ call'[r] = call[r] /\ live'[r] = live[r]
<1>1. CASE Arrive(r)
  BY <1>1 DEF Arrive, TypeOK, Goto, tables, world
<1>2. CASE ~Arrive(r)
  BY <1>2 DEF Serve, LoginVerify, RefreshRead, RefreshRevoke, Issue, Logout, Start,
              PollRead, PollConsume, AuthorizeRead, AuthorizeWrite, PasswordVerify,
              PasswordWrite, PasswordRevoke, Audit, AuditFails, history
<1> QED
  BY <1>1, <1>2

\* A password that is replaced is not forgotten, and one that is set is noted.
LEMMA KnowingKept ==
  ASSUME IInv, NEW r \in Requests, Serve(r)
  PROVE  KnowingOK' /\ knowing \subseteq knowing'
<1> USE DEF Answer, Goto, tables, world, history
<1>0. /\ TypeOK /\ KnowingOK /\ \A q \in Requests : AtPosition(q) /\ CallOK(q)
      /\ Frame(r)
  BY ServeFrame DEF IInv, Positions
<1>1. CASE Arrive(r)
  <2>1. /\ pc[r] = "idle" /\ password' = password
        /\ knowing' = knowing \cup {q \in {r} : /\ call'[r].op = "login"
                                               /\ call'[r].password = password[call'[r].user]}
    BY <1>0, <1>1 DEF Arrive, TypeOK
  <2> QED
    BY <1>0, <2>1 DEF KnowingOK, Frame
<1>2. CASE PasswordWrite(r)
  <2>1. /\ pc[r] = "rehash" /\ pc'[r] = "revokeAll" /\ call' = call
        /\ call[r] # Null /\ call[r].op = "password"
        /\ password' = [password EXCEPT ![call[r].user] = r]
        /\ knowing' = knowing \cup
             {q \in Requests : /\ pc[q] = "start" /\ call[q].op = "login"
                               /\ call[q].user = call[r].user /\ call[q].password = r}
    BY <1>0, <1>2, NullAssumption DEF PasswordWrite, TypeOK, AtPosition
  <2>2. call[r].user \in Users
    BY <1>0, <2>1 DEF CallOK
  <2>3. ASSUME NEW q \in Requests, pc'[q] = "start", call[q].op = "login",
               call[q].password = password'[call[q].user]
        PROVE  q \in knowing'
    <3>1. q # r /\ pc[q] = "start"
      BY <1>0, <2>1, <2>3 DEF Frame
    <3>2. call[q] # Null
      BY <1>0, <3>1, NullAssumption DEF AtPosition
    <3>3. call[q].user \in Users
      BY <1>0, <2>3, <3>2 DEF CallOK
    <3>4. CASE call[q].user = call[r].user
      BY <1>0, <2>1, <2>2, <2>3, <3>1, <3>4 DEF TypeOK
    <3>5. CASE call[q].user # call[r].user
      BY <1>0, <2>1, <2>3, <3>1, <3>3, <3>5 DEF TypeOK, KnowingOK
    <3> QED
      BY <3>4, <3>5
  <2> QED
    BY <2>1, <2>3 DEF KnowingOK
<1>3. CASE ~Arrive(r) /\ ~PasswordWrite(r)
  <2>1. password' = password /\ knowing' = knowing
    BY <1>3 DEF Serve, LoginVerify, RefreshRead, RefreshRevoke, Issue, Logout, Start,
                PollRead, PollConsume, AuthorizeRead, AuthorizeWrite, PasswordVerify,
                PasswordRevoke, Audit, AuditFails
  <2>2. pc'[r] # "start"
    <3>1. CASE PollRead(r)
      BY <1>0, <3>1 DEF PollRead, TypeOK
    <3>2. CASE AuthorizeRead(r)
      BY <1>0, <3>2 DEF AuthorizeRead, TypeOK
    <3> QED
      BY <1>0, <1>3, <3>1, <3>2
         DEF Serve, LoginVerify, RefreshRead, RefreshRevoke, Issue, Logout, Start,
             PollConsume, AuthorizeWrite, PasswordVerify, PasswordRevoke, Audit,
             AuditFails, TypeOK
  <2> QED
    BY <1>0, <2>1, <2>2 DEF KnowingOK, Frame
<1> QED
  BY <1>1, <1>2, <1>3

\* The client holds what it names, and rows stay.
LEMMA OwnCall ==
  ASSUME IInv, NEW r \in Requests, Serve(r), RowStep PROVE CallOK(r)'
<1>1. CASE call'[r] = call[r]
  BY <1>1 DEF IInv, Positions, CallOK, RowStep
<1>2. CASE call'[r] \in Callable
  BY <1>2 DEF CallOK, RowStep, Callable
<1> QED
  BY <1>1, <1>2, CallSteps DEF IInv

\* Who is to get the token is read from the row that proves it.
LEMMA OwnGrantee ==
  ASSUME IInv, NEW r \in Requests, Serve(r), RowStep,
         \A f, u : AuthorizedBy(f, u) => AuthorizedBy(f, u)'
  PROVE  GranteeOK(r)'
<1> USE DEF Answer, Goto
<1>0. /\ TypeOK /\ AtPosition(r) /\ CallOK(r) /\ GranteeOK(r)
      /\ pc[r] # "idle" => call[r] # Null
  BY NullAssumption DEF IInv, Positions, AtPosition
<1>1. CASE LoginVerify(r)
  BY <1>0, <1>1 DEF LoginVerify, GranteeOK, TypeOK, IInv, KnowingOK, history
<1>2. CASE RefreshRead(r)
  <2>1. call[r].id \in Tokens
    BY <1>0, <1>2 DEF RefreshRead, CallOK
  <2>2. \/ pc'[r] = "done"
        \/ grantee'[r] = tokens[call[r].id].user /\ pc'[r] = "revoke"
    BY <1>0, <1>2 DEF RefreshRead, TypeOK
  <2>3. call'[r] = call[r] /\ call[r].op = "refresh"
    BY <1>2 DEF RefreshRead
  <2> QED
    BY <2>1, <2>2, <2>3 DEF GranteeOK, RowStep
<1>3. CASE RefreshRevoke(r)
  <2>1. /\ call[r].op = "refresh" /\ call'[r] = call[r] /\ grantee'[r] = grantee[r]
        /\ call[r].id \in Tokens /\ pc[r] = "revoke"
    BY <1>0, <1>3 DEF RefreshRevoke, CallOK, AtPosition
  <2>2. tokens'[call[r].id].revoked
    BY <1>0, <1>3, <2>1 DEF RefreshRevoke, Revoked, TypeOK, Token, Tokens
  <2> QED
    BY <1>0, <2>1, <2>2 DEF GranteeOK, RowStep
<1>4. CASE PollRead(r)
  <2>1. call[r].id \in Flows
    BY <1>0, <1>4 DEF PollRead, CallOK
  <2>2. \/ pc'[r] = "done"
        \/ /\ grantee'[r] = flows[call[r].id].user /\ pc'[r] = "consume"
           /\ flows[call[r].id].user # Null
    BY <1>0, <1>4 DEF PollRead, TypeOK, PollOutcome
  <2>3. call'[r] = call[r] /\ call[r].op = "poll"
    BY <1>4 DEF PollRead
  <2>4. flows[call[r].id].user # Null =>
          /\ flows[call[r].id].user \in Users
          /\ AuthorizedBy(call[r].id, flows[call[r].id].user)
    BY <1>0, <2>1 DEF IInv, FlowsOK, TypeOK, Flow, Flows
  <2> QED
    BY <2>2, <2>3, <2>4 DEF GranteeOK
<1>5. CASE PollConsume(r)
  <2>1. /\ call[r].op = "poll" /\ call'[r] = call[r] /\ grantee'[r] = grantee[r]
        /\ call[r].id \in Flows /\ pc[r] = "consume"
    BY <1>0, <1>5 DEF PollConsume, CallOK, AtPosition
  <2>2. flows'[call[r].id].consumed
    BY <1>0, <1>5, <2>1 DEF PollConsume, TypeOK, Flow, Flows
  <2> QED
    BY <1>0, <2>1, <2>2 DEF GranteeOK
<1>6. pc'[r] \notin {"issue", "revoke", "consume"} => GranteeOK(r)'
  BY DEF GranteeOK
<1>7. CASE Arrive(r) \/ Issue(r) \/ Logout(r) \/ Start(r)
  BY <1>0, <1>6, <1>7 DEF Arrive, Issue, Logout, Start, TypeOK
<1>8. CASE AuthorizeRead(r) \/ AuthorizeWrite(r)
  BY <1>0, <1>6, <1>8 DEF AuthorizeRead, AuthorizeWrite, TypeOK
<1>9. CASE \/ PasswordVerify(r) \/ PasswordWrite(r) \/ PasswordRevoke(r)
           \/ Audit(r) \/ AuditFails(r)
  BY <1>0, <1>6, <1>9
     DEF PasswordVerify, PasswordWrite, PasswordRevoke, Audit, AuditFails, TypeOK
<1> QED
  BY <1>1, <1>2, <1>3, <1>4, <1>5, <1>7, <1>8, <1>9 DEF Serve

\* A token that was invalid at an arrival stays invalid, so whoever reads it
\* as valid presented it in time.
LEMMA OwnRefresh ==
  ASSUME IInv, TypeOK', NEW r \in Requests, Serve(r), RowStep PROVE RefreshOK(r)'
<1> USE DEF Answer, Goto
<1>0. /\ TypeOK /\ AtPosition(r) /\ CallOK(r) /\ RefreshOK(r)
      /\ pc[r] # "idle" => call[r] # Null
  BY NullAssumption DEF IInv, Positions, AtPosition
<1>1. CASE Arrive(r)
  <2>1. /\ pc'[r] = "start" /\ reply'[r] = "none" /\ call'[r] \in Callable
        /\ live'[r] = {i \in Tokens : Valid(i)}
        /\ tokens' = tokens /\ now' = now
    BY <1>0, <1>1, CallSteps DEF AtPosition, Arrive
  <2>2. call'[r].op = "refresh" => call'[r].id \in Tokens
    BY <2>1 DEF Callable
  <2>3. \A i \in Tokens : Valid(i)' => Valid(i)
    BY <2>1 DEF Valid, Tokens
  <2> QED
    BY <2>1, <2>2, <2>3 DEF RefreshOK
<1>2. CASE ~Arrive(r)
  <2>1. pc[r] # "idle" /\ call'[r] = call[r] /\ live'[r] = live[r]
    BY <1>0, <1>2, CallSteps
  <2> SUFFICES ASSUME call[r].op = "refresh" PROVE RefreshOK(r)'
    BY <2>1 DEF RefreshOK
  <2>2. Valid(call[r].id)' => call[r].id \in live[r]
    BY <1>0, <2>1, ValidBefore DEF RefreshOK, CallOK
  <2>3. CASE RefreshRead(r)
    BY <1>0, <2>1, <2>2, <2>3 DEF RefreshRead, RefreshOK, Usable, TypeOK
  <2>4. CASE RefreshRevoke(r) \/ Issue(r) \/ Audit(r) \/ AuditFails(r)
    BY <1>0, <2>1, <2>2, <2>4
       DEF RefreshRevoke, Issue, Audit, AuditFails, RefreshOK, TypeOK, AtPosition
  <2> QED
    BY <1>0, <1>2, <2>1, <2>3, <2>4
       DEF Serve, LoginVerify, Logout, Start, PollRead, PollConsume, AuthorizeRead,
           AuthorizeWrite, PasswordVerify, PasswordWrite, PasswordRevoke, AtPosition
<1> QED
  BY <1>1, <1>2

\* The revocation of a password change reaches every token that it found.
LEMMA OwnChange ==
  ASSUME IInv, NEW r \in Requests, Serve(r), RowStep PROVE ChangeOK(r)'
<1> USE DEF Answer, Goto
<1>0. /\ TypeOK /\ AtPosition(r) /\ ChangeOK(r)
      /\ pc[r] # "idle" => call[r] # Null
  BY NullAssumption DEF IInv, Positions, AtPosition
<1>1. Tokens \subseteq Tokens'
  BY DEF RowStep
<1>2. CASE Arrive(r)
  <2>1. live'[r] = {i \in Tokens : Valid(i)} /\ pc'[r] = "start" /\ reply'[r] = "none"
    BY <1>0, <1>2, CallSteps DEF AtPosition, Arrive
  <2>2. live'[r] \subseteq Tokens'
    BY <1>1, <2>1
  <2> QED
    BY <2>1, <2>2 DEF ChangeOK
<1>3. CASE ~Arrive(r)
  <2>1. pc[r] # "idle" /\ call'[r] = call[r] /\ live'[r] = live[r]
    BY <1>0, <1>3, CallSteps
  <2>2. live[r] \subseteq Tokens /\ live'[r] \subseteq Tokens'
    BY <1>0, <1>1, <2>1 DEF ChangeOK
  <2> SUFFICES ASSUME call[r].op = "password", pc'[r] = "audit" \/ reply'[r] = "ok",
                      NEW i \in live[r], tokens'[i].user = call[r].user
               PROVE  tokens'[i].revoked
    BY <2>1, <2>2 DEF ChangeOK
  <2>3. i \in Tokens /\ i \in Requests /\ tokens[i] \in Token
    BY <1>0, <2>2 DEF Tokens, TypeOK
  <2>4. tokens[i].user = call[r].user
    BY <2>3 DEF RowStep
  <2>5. CASE PasswordRevoke(r)
    <3>1. tokens'[i] = [tokens[i] EXCEPT !.revoked = TRUE]
      BY <2>3, <2>4, <2>5 DEF PasswordRevoke, RevokedAll
    <3> QED
      BY <2>3, <3>1 DEF Token
  <2>6. CASE Audit(r)
    <3>1. pc[r] = "audit"
      BY <1>0, <2>6 DEF Audit, TypeOK
    <3>2. tokens[i].revoked
      BY <1>0, <2>1, <2>4, <3>1 DEF ChangeOK
    <3> QED
      BY <2>3, <3>2 DEF RowStep
  <2>7. CASE PasswordVerify(r) \/ PasswordWrite(r) \/ AuditFails(r)
    BY <1>0, <2>7 DEF PasswordVerify, PasswordWrite, AuditFails, TypeOK, AtPosition
  <2> QED
    BY <1>0, <1>3, <2>5, <2>6, <2>7
       DEF Serve, LoginVerify, RefreshRead, RefreshRevoke, Issue, Logout, Start,
           PollRead, PollConsume, AuthorizeRead, AuthorizeWrite, AtPosition
<1> QED
  BY <1>2, <1>3

\* A flow gets its user from the request that is answered for it.
LEMMA FlowsKept ==
  ASSUME IInv, NEW r \in Requests, Serve(r),
         \A f, u : AuthorizedBy(f, u) => AuthorizedBy(f, u)'
  PROVE  FlowsOK'
<1> SUFFICES ASSUME NEW f \in Flows', NEW u, u = flows'[f].user, u # Null
             PROVE  AuthorizedBy(f, u)'
  BY DEF FlowsOK, AuthorizedBy
<1>1. f \in Flows
  BY FlowSteps
<1>2. CASE u = flows[f].user
  BY <1>1, <1>2 DEF IInv, FlowsOK
<1>3. CASE AuthorizeWrite(r) /\ f = call[r].id /\ u = call[r].user
  <2>1. /\ call'[r] = call[r] /\ pc'[r] = "done" /\ pc[r] = "authorize"
    BY <1>3 DEF AuthorizeWrite, Answer, IInv, TypeOK
  <2>2. call[r] # Null /\ call[r].op = "authorize"
    BY <2>1, NullAssumption DEF IInv, Positions, AtPosition
  <2> QED
    BY <1>3, <2>1, <2>2 DEF AuthorizedBy
<1> QED
  BY <1>1, <1>2, <1>3, FlowSteps

\* What a token rests on is there when it is issued, and stays.
LEMMA AuthorityKept ==
  ASSUME IInv, NEW r \in Requests, Serve(r), RowStep, Frame(r), knowing \subseteq knowing',
         \A f, u : AuthorizedBy(f, u) => AuthorizedBy(f, u)'
  PROVE  IssuedOnAuthority'
<1> DEFINE OnAuthority(i) ==
             CASE call[i].op = "login" ->
                    /\ i \in knowing
                    /\ tokens[i].user = call[i].user /\ tokens[i].proof = call[i].password
               [] call[i].op = "refresh" ->
                    /\ tokens[i].user = tokens[call[i].id].user
                    /\ tokens[call[i].id].revoked
               [] OTHER -> /\ call[i].op = "poll"
                           /\ flows[call[i].id].consumed
                           /\ AuthorizedBy(call[i].id, tokens[i].user)
<1>1. IssuedOnAuthority => \A i \in Tokens : OnAuthority(i)
  BY DEF IssuedOnAuthority, AuthorizedBy
<1>2. (\A i \in Tokens' : OnAuthority(i)') => IssuedOnAuthority'
  BY DEF IssuedOnAuthority, AuthorizedBy
<1>a. \A i \in Requests :
        /\ AtPosition(i) /\ CallOK(i) /\ GranteeOK(i)
        /\ pc[i] # "idle" => call[i] # Null
  BY NullAssumption DEF IInv, Positions, AtPosition
<1>b. ASSUME NEW i \in Tokens, call'[i] = call[i]
      PROVE  OnAuthority(i)'
  <2>1. /\ i \in Requests /\ pc[i] # "idle"
        /\ call[i].op \in {"login", "refresh", "poll"}
        /\ call[i].op = "refresh" => call[i].id \in Tokens
        /\ call[i].op = "poll" => call[i].id \in Flows
    BY <1>a DEF Tokens, AtPosition, CallOK
  <2>2. OnAuthority(i)
    BY <1>1 DEF IInv
  <2>3. tokens'[i].user = tokens[i].user /\ tokens'[i].proof = tokens[i].proof
    BY DEF RowStep
  <2>4. CASE call[i].op = "login"
    BY <1>b, <2>2, <2>3, <2>4
  <2>5. CASE call[i].op = "refresh"
    <3>1. /\ tokens'[call[i].id].user = tokens[call[i].id].user
          /\ tokens'[call[i].id].revoked
      BY <2>1, <2>2, <2>5 DEF RowStep
    <3> QED
      BY <1>b, <2>2, <2>3, <2>5, <3>1
  <2>6. CASE call[i].op = "poll"
    <3>1. flows'[call[i].id].consumed
      BY <2>1, <2>2, <2>6 DEF RowStep
    <3>2. \E f, w : f = call[i].id /\ w = tokens[i].user /\ AuthorizedBy(f, w)'
      BY <2>2, <2>6
    <3>3. AuthorizedBy(call[i].id, tokens[i].user)'
      BY <1>b, <2>3, <3>2 DEF AuthorizedBy
    <3> QED
      BY <1>b, <2>6, <3>1, <3>3
  <2> QED
    BY <2>1, <2>4, <2>5, <2>6
<1>c. ASSUME NEW i \in Tokens PROVE call'[i] = call[i]
  <2>1. i \in Requests /\ (i = r => ~Arrive(r))
    BY <1>a, <1>c DEF Tokens, AtPosition, Arrive
  <2> QED
    BY <2>1, CallSteps DEF Frame, IInv
<1>d. ASSUME Issue(r) PROVE OnAuthority(r)'
  <2>1. /\ pc[r] = "issue" /\ call'[r] = call[r] /\ flows' = flows /\ call[r] # Null
        /\ tokens'[r].user = grantee[r] /\ tokens'[r].proof = ProofOf(r)
    BY <1>a, <1>d DEF Issue, IInv, TypeOK
  <2>2. call[r].op \in {"login", "refresh", "poll"}
    BY <1>a, <2>1 DEF AtPosition
  <2>3. CASE call[r].op = "login"
    BY <1>a, <2>1, <2>3 DEF GranteeOK, ProofOf
  <2>4. CASE call[r].op = "refresh"
    <3>1. call[r].id \in Tokens
      BY <1>a, <2>1, <2>4 DEF CallOK
    <3>2. tokens'[call[r].id].user = tokens[call[r].id].user
      BY <3>1 DEF RowStep
    <3>3. tokens'[call[r].id].revoked
      BY <1>a, <2>1, <2>4, <3>1 DEF GranteeOK, RowStep
    <3> QED
      BY <1>a, <2>1, <2>4, <3>2, <3>3 DEF GranteeOK
  <2>5. CASE call[r].op = "poll"
    <3>1. AuthorizedBy(call[r].id, grantee[r]) /\ flows[call[r].id].consumed
      BY <1>a, <2>1, <2>5 DEF GranteeOK
    <3>2. \E f, w : f = call[r].id /\ w = grantee[r] /\ AuthorizedBy(f, w)'
      BY <3>1
    <3>3. AuthorizedBy(call[r].id, tokens[r].user)'
      BY <2>1, <3>2 DEF AuthorizedBy
    <3> QED
      BY <2>1, <2>5, <3>1, <3>3
  <2> QED
    BY <2>2, <2>3, <2>4, <2>5
<1> QED
  BY <1>2, <1>b, <1>c, <1>d, TokenSteps

----------------------------------------------------------------------------
(* The invariant *)

\* The invariant holds of the empty tables.
LEMMA InitKeeps == Init => IInv
<1> SUFFICES ASSUME Init PROVE IInv
  OBVIOUS
<1> USE DEF Init
<1>1. Tokens = {} /\ Flows = {}
  BY DEF Tokens, Flows
<1>2. TypeOK
  BY BoundAssumption DEF TypeOK, Passwords
<1>3. Positions
  BY <1>1 DEF Positions, AtPosition, CallOK, GranteeOK, RefreshOK, ChangeOK
<1> QED
  BY <1>1, <1>2, <1>3 DEF IInv, FlowsOK, KnowingOK, IssuedOnAuthority

\* Every step of a handler keeps it,
LEMMA ServeKeeps ==
  ASSUME IInv, NEW r \in Requests, Serve(r) PROVE IInv' /\ RowStep
<1>1. TypeOK' /\ RowStep /\ Frame(r) /\ KnowingOK' /\ knowing \subseteq knowing'
  BY ServeTypes, RowSteps, ServeFrame, KnowingKept DEF IInv
<1>2. \A f, u : AuthorizedBy(f, u) => AuthorizedBy(f, u)'
  BY <1>1, AuthorityStands
<1>3. Positions'
  <2> SUFFICES ASSUME NEW q \in Requests
               PROVE  /\ AtPosition(q)' /\ CallOK(q)' /\ GranteeOK(q)'
                      /\ RefreshOK(q)' /\ ChangeOK(q)'
    BY DEF Positions
  <2>1. CASE q = r
    BY <1>1, <1>2, <2>1, OwnPosition, OwnCall, OwnGrantee, OwnRefresh, OwnChange
  <2>2. CASE q # r
    <3>1. /\ pc'[q] = pc[q] /\ call'[q] = call[q] /\ grantee'[q] = grantee[q]
          /\ reply'[q] = reply[q] /\ live'[q] = live[q]
      BY <1>1, <2>2 DEF Frame
    <3>2. q \in Tokens' <=> q \in Tokens
      BY <2>2, TokenSteps
    <3>3. q \in Flows' <=> q \in Flows
      BY <2>2, FlowSteps
    <3> QED
      BY <1>1, <1>2, <3>1, <3>2, <3>3, OthersKept
  <2> QED
    BY <2>1, <2>2
<1>4. FlowsOK' /\ IssuedOnAuthority'
  BY <1>1, <1>2, FlowsKept, AuthorityKept
<1> QED
  BY <1>1, <1>3, <1>4 DEF IInv

\* so does the clock, which only ends tokens,
LEMMA TickKeeps == IInv /\ Tick => IInv' /\ RowStep
<1> SUFFICES ASSUME IInv, Tick PROVE IInv' /\ RowStep
  OBVIOUS
<1> USE DEF Tick, tables, history
<1>1. TypeOK' /\ now <= now'
  BY BoundAssumption DEF IInv, TypeOK
<1>2. RowStep
  BY <1>1 DEF RowStep, Tokens, Flows
<1>3. \A f, u : AuthorizedBy(f, u) => AuthorizedBy(f, u)'
  BY DEF AuthorizedBy
<1>4. Positions'
  <2> SUFFICES ASSUME NEW q \in Requests
               PROVE  /\ AtPosition(q)' /\ CallOK(q)' /\ GranteeOK(q)'
                      /\ RefreshOK(q)' /\ ChangeOK(q)'
    BY DEF Positions
  <2>1. (q \in Tokens' <=> q \in Tokens) /\ (q \in Flows' <=> q \in Flows)
    BY DEF Tokens, Flows
  <2> QED
    BY <1>1, <1>2, <1>3, <2>1, OthersKept
<1>5. FlowsOK' /\ KnowingOK' /\ IssuedOnAuthority'
  BY DEF IInv, FlowsOK, KnowingOK, IssuedOnAuthority, AuthorizedBy, Tokens, Flows
<1> QED
  BY <1>1, <1>2, <1>4, <1>5 DEF IInv

\* a crash, after which nobody is on the way to a token,
LEMMA RestartKeeps == IInv /\ Restart => IInv' /\ RowStep
<1> SUFFICES ASSUME IInv, Restart PROVE IInv' /\ RowStep
  OBVIOUS
<1>0. /\ UNCHANGED <<tokens, flows, password, audit, now, call, grantee, live, knowing>>
      /\ \A q \in Requests :
           /\ pc'[q] = IF pc[q] = "idle" THEN "idle" ELSE "done"
           /\ reply'[q] = IF pc[q] \in {"idle", "done"} THEN reply[q] ELSE "lost"
  BY DEF Restart, tables, history
<1>1. TypeOK'
  BY BoundAssumption DEF IInv, TypeOK, Restart, tables, history
<1>2. RowStep
  BY <1>0 DEF RowStep, Tokens, Flows, IInv, TypeOK
<1>3. \A f, u : AuthorizedBy(f, u) => AuthorizedBy(f, u)'
  BY <1>0 DEF AuthorizedBy
<1>4. Tokens' = Tokens /\ Flows' = Flows /\ \A i : Valid(i)' <=> Valid(i)
  BY <1>0 DEF Tokens, Flows, Valid
<1>5. Positions'
  <2> SUFFICES ASSUME NEW q \in Requests
               PROVE  /\ AtPosition(q)' /\ CallOK(q)' /\ GranteeOK(q)'
                      /\ RefreshOK(q)' /\ ChangeOK(q)'
    BY DEF Positions
  <2>0. AtPosition(q) /\ CallOK(q) /\ RefreshOK(q) /\ ChangeOK(q)
    BY DEF IInv, Positions
  <2>1. /\ pc'[q] \in {"idle", "done"} /\ (pc'[q] = "idle" <=> pc[q] = "idle")
        /\ reply'[q] = "none" <=> pc'[q] # "done"
        /\ reply'[q] = "ok" => reply[q] = "ok"
    BY <1>0, <2>0 DEF AtPosition
  <2>2. AtPosition(q)'
    BY <1>0, <2>0, <2>1 DEF AtPosition
  <2>3. CallOK(q)' /\ GranteeOK(q)'
    BY <1>0, <1>4, <2>0, <2>1 DEF CallOK, GranteeOK
  <2>4. RefreshOK(q)'
    BY <1>0, <1>4, <2>0, <2>1 DEF RefreshOK
  <2>5. ChangeOK(q)'
    BY <1>0, <1>4, <2>0, <2>1 DEF ChangeOK
  <2> QED
    BY <2>2, <2>3, <2>4, <2>5
<1>6. FlowsOK' /\ KnowingOK'
  BY <1>0, <1>3, <1>4 DEF IInv, FlowsOK, KnowingOK
<1>7. IssuedOnAuthority'
  BY <1>0, <1>4 DEF IInv, IssuedOnAuthority
<1> QED
  BY <1>1, <1>2, <1>5, <1>6, <1>7 DEF IInv

\* and a step of something else.
LEMMA StutterKeeps == IInv /\ UNCHANGED vars => IInv' /\ RowStep
<1> SUFFICES ASSUME IInv, UNCHANGED vars PROVE IInv' /\ RowStep
  OBVIOUS
<1> USE DEF vars
<1>1. TypeOK' /\ RowStep
  BY DEF IInv, TypeOK, RowStep, Tokens, Flows
<1>2. Positions'
  BY DEF IInv, Positions, AtPosition, CallOK, GranteeOK, RefreshOK, ChangeOK,
         AuthorizedBy, Valid, Tokens, Flows
<1>3. FlowsOK' /\ KnowingOK' /\ IssuedOnAuthority'
  BY DEF IInv, FlowsOK, KnowingOK, IssuedOnAuthority, AuthorizedBy, Tokens, Flows
<1> QED
  BY <1>1, <1>2, <1>3 DEF IInv

\* No step breaks the invariant or takes a revocation back.
LEMMA NextKeeps == IInv /\ [Next]_vars => IInv' /\ RowStep
BY ServeKeeps, TickKeeps, RestartKeeps, StutterKeeps DEF Next

\* The invariant is one.
THEOREM Invariance == Spec => []IInv
<1>1. Init => IInv
  BY InitKeeps
<1>2. IInv /\ [Next]_vars => IInv'
  BY NextKeeps
<1> QED
  BY <1>1, <1>2, PTL DEF Spec

----------------------------------------------------------------------------
(* What Sessions promises *)

\* Every token rests on a password that was its user's while the login ran, on a
\* revoked earlier token or on an authorized and consumed flow of its user (login,
\* rotateRefreshToken and the poll of routes/auth.ts), and the variables have
\* their types.
THEOREM SessionsAreConsistent == Spec => []SessionsConsistent
<1>1. IInv => SessionsConsistent
  BY DEF IInv, SessionsConsistent
<1> QED
  BY <1>1, Invariance, PTL

\* A refresh only succeeds with a token that was valid when it arrived, however
\* it overlaps with rotations, logouts and password changes.
THEOREM ReplaysAreRefused == Spec => []ReplayRefused
<1>1. IInv => ReplayRefused
  <2> SUFFICES ASSUME IInv, NEW r \in Requests, reply[r] = "ok", call[r].op = "refresh"
               PROVE  call[r].id \in live[r]
    BY DEF ReplayRefused
  <2>1. pc[r] # "idle" /\ RefreshOK(r)
    BY DEF IInv, Positions, AtPosition
  <2> QED
    BY <2>1 DEF RefreshOK
<1> QED
  BY <1>1, Invariance, PTL

\* An answered password change has ended every session that was there before
\* it.
THEOREM ChangesEndSessions == Spec => []ChangeEndsSessions
<1>1. IInv => ChangeEndsSessions
  <2> SUFFICES ASSUME IInv, NEW r \in Requests, reply[r] = "ok", call[r].op = "password"
               PROVE  \A i \in live[r] :
                        tokens[i].user = call[r].user => tokens[i].revoked
    BY DEF ChangeEndsSessions
  <2>1. pc[r] # "idle" /\ call[r] \in Call /\ ChangeOK(r)
    BY DEF IInv, Positions, AtPosition
  <2> QED
    BY <2>1, NullAssumption DEF ChangeOK
<1> QED
  BY <1>1, Invariance, PTL

\* No revocation and no consumption is taken back, and no token changes hands.
THEOREM RevocationsStand == Spec => [][RowStep]_vars
<1>1. IInv /\ [Next]_vars => RowStep
  BY NextKeeps
<1> QED
  BY <1>1, Invariance, PTL DEF Spec
============================================================================
