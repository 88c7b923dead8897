------------------------------ MODULE Sessions ------------------------------
(***************************************************************************)
(* Refresh tokens and the handlers that issue, rotate and revoke them:     *)
(* login, refresh, logout, the browser flow of the CLI and the password    *)
(* change (apps/server/src/routes/auth.ts, auth/tokens.ts).  A handler is  *)
(* one action per database access whose outcome another request can        *)
(* change; hashing, verifying and signing are awaits between them.         *)
(*                                                                         *)
(* Tokens and flows are known by the request that inserted them, and a     *)
(* password by the request that set it (Null: the user's first one).       *)
(***************************************************************************)
EXTENDS Naturals

CONSTANTS
  Requests,    \* HTTP requests, each one call of one handler
  Ops,         \* the operations that clients call
  Users,
  Null,
  RefreshTtl,  \* KEYNV_REFRESH_TOKEN_TTL_S
  FlowTtl,     \* BROWSER_AUTH_TTL_S
  MaxEvents    \* bound on clock ticks, crashes of the server and
               \* failed appends, together

ASSUME OpAssumption ==
  Ops \subseteq {"login", "refresh", "logout", "start", "poll", "authorize",
                 "password"}
ASSUME TtlAssumption == RefreshTtl \in Nat \ {0} /\ FlowTtl \in Nat \ {0}
ASSUME BoundAssumption == MaxEvents \in Nat

VARIABLES
  tokens,    \* id -> the row of auth_refresh_tokens, or Null
  flows,     \* id -> the row of cli_auth_flows, or Null
  password,  \* user -> the password whose hash is stored
  audit,     \* the audit events appended so far
  now,       \* the clock
  failures,  \* crashes and failed appends so far
  pc,        \* request -> the next await of its handler
  call,      \* request -> what was asked, by whom
  grantee,   \* request -> the user its handler is issuing a token to
  reply,     \* request -> the outcome sent to the client
  live,      \* history: request -> the tokens that were valid when it arrived
  knowing    \* history: the logins whose password has been that of the user they
             \*          name at some moment since they arrived

vars == <<tokens, flows, password, audit, now, failures,
          pc, call, grantee, reply, live, knowing>>

tables == <<tokens, flows, password, audit>>
world == <<now, failures>>
history == <<live, knowing>>

Passwords == Requests \cup {Null}

Token == [user: Users, proof: Passwords \cup {"flow"}, expires: Nat, revoked: BOOLEAN]

Flow == [user: Users \cup {Null}, expires: Nat, consumed: BOOLEAN]

Call == [op: Ops, user: Users \cup {Null}, password: Passwords,
         id: Requests \cup {Null}]

ASSUME NullAssumption ==
  /\ Null \notin Requests /\ Null \notin Users
  /\ Null \notin Token /\ Null \notin Flow /\ Null \notin Call

EventTypes == {"auth.login.allowed", "auth.login.denied", "auth.refresh",
               "auth.logout", "auth.password_change.allowed",
               "auth.password_change.denied"}

Tokens == {i \in Requests : tokens[i] # Null}
Flows == {i \in Requests : flows[i] # Null}

\* isNull(revoked_at) and not expired
Valid(i) ==
  /\ i \in Tokens
  /\ ~tokens[i].revoked
  /\ now < tokens[i].expires

\* Mutant of Usable: AND revoked_at IS NULL is missing
NotExpired(i) == i \in Tokens /\ now < tokens[i].expires

\* What rotateRefreshToken asks of the token it is given
Usable(i) == Valid(i)

----------------------------------------------------------------------------

Init ==
  /\ tokens = [i \in Requests |-> Null]
  /\ flows = [i \in Requests |-> Null]
  /\ password = [u \in Users |-> Null]
  /\ audit = {}
  /\ now = 0
  /\ failures = 0
  /\ pc = [r \in Requests |-> "idle"]
  /\ call = [r \in Requests |-> Null]
  /\ grantee = [r \in Requests |-> Null]
  /\ reply = [r \in Requests |-> "none"]
  /\ live = [r \in Requests |-> {}]
  /\ knowing = {}

Answer(r, code) ==
  /\ pc' = [pc EXCEPT ![r] = "done"]
  /\ reply' = [reply EXCEPT ![r] = code]

Goto(r, label) ==
  /\ pc' = [pc EXCEPT ![r] = label]
  /\ UNCHANGED reply

\* A client may still know a password that has been replaced.
KnownPasswords(u) ==
  {Null} \cup {q \in Requests : /\ call[q] # Null /\ call[q].op = "password"
                                /\ call[q].user = u}

\* What a client may ask: it holds the token or the code that it names, and
\* for authorize and password an access token, which no revocation ends.
Callable ==
  [op: Ops \cap {"login", "password"}, user: Users, password: Passwords,
   id: {Null}]
  \cup [op: Ops \cap {"refresh", "logout"}, user: {Null}, password: {Null},
        id: Tokens]
  \cup [op: Ops \cap {"start"}, user: {Null}, password: {Null}, id: {Null}]
  \cup [op: Ops \cap {"poll"}, user: {Null}, password: {Null}, id: Flows]
  \cup [op: Ops \cap {"authorize"}, user: Users, password: {Null}, id: Flows]

Arrive(r) ==
  /\ pc[r] = "idle"
  /\ \E c \in Callable :
       /\ c.op \in {"login", "password"}
            => c.password \in KnownPasswords(c.user)
       /\ call' = [call EXCEPT ![r] = c]
       /\ knowing' = knowing \cup
            {q \in {r} : c.op = "login" /\ c.password = password[c.user]}
  /\ live' = [live EXCEPT ![r] = {i \in Tokens : Valid(i)}]
  /\ Goto(r, "start")
  /\ UNCHANGED <<tables, world, grantee>>

\* Mutant of LoginVerify: what verifyPassword returned is not looked at
LoginAnyway(r) ==
  /\ pc[r] = "start"
  /\ call[r].op = "login"
  /\ grantee' = [grantee EXCEPT ![r] = call[r].user]
  /\ Goto(r, "issue")
  /\ UNCHANGED <<tables, world, call, history>>

\* The user row is read, its hash is verified: the token that follows rests on
\* the password as it was here.
LoginVerify(r) ==
  /\ pc[r] = "start"
  /\ call[r].op = "login"
  /\ IF call[r].password = password[call[r].user]
     THEN /\ grantee' = [grantee EXCEPT ![r] = call[r].user]
          /\ Goto(r, "issue")
     ELSE /\ Goto(r, "denied")
          /\ UNCHANGED grantee
  /\ UNCHANGED <<tables, world, call, history>>

\* rotateRefreshToken: the token is looked up,
RefreshRead(r) ==
  /\ pc[r] = "start"
  /\ call[r].op = "refresh"
  /\ IF Usable(call[r].id)
     THEN /\ grantee' = [grantee EXCEPT ![r] = tokens[call[r].id].user]
          /\ Goto(r, "revoke")
     ELSE /\ Answer(r, "token_revoked")
          /\ UNCHANGED grantee
  /\ UNCHANGED <<tables, world, call, history>>

\* SET revoked_at
Revoked(i) == [tokens EXCEPT ![i].revoked = TRUE]

\* then revoked by its id, whether or not it still is valid,
RefreshRevoke(r) ==
  /\ pc[r] = "revoke"
  /\ tokens' = Revoked(call[r].id)
  /\ Goto(r, "issue")
  /\ UNCHANGED <<flows, password, audit, world, call, grantee, history>>

\* What the new token rests on
ProofOf(r) ==
  CASE call[r].op = "login" -> call[r].password
    [] call[r].op = "refresh" -> tokens[call[r].id].proof
    [] OTHER -> "flow"

\* and its successor is issued, as is the token of a login or of a poll.
Issue(r) ==
  /\ pc[r] = "issue"
  /\ tokens' = [tokens EXCEPT ![r] =
       [user |-> grantee[r],
        proof |-> ProofOf(r),
        expires |-> now + RefreshTtl, revoked |-> FALSE]]
  /\ Goto(r, "audit")
  /\ UNCHANGED <<flows, password, audit, world, call, grantee, history>>

\* UPDATE ... WHERE token_hash = ? AND revoked_at IS NULL
Logout(r) ==
  /\ pc[r] = "start"
  /\ call[r].op = "logout"
  /\ tokens' = Revoked(call[r].id)
  /\ Goto(r, "audit")
  /\ UNCHANGED <<flows, password, audit, world, call, grantee, history>>

----------------------------------------------------------------------------
(* The browser flow of the CLI *)

Start(r) ==
  /\ pc[r] = "start"
  /\ call[r].op = "start"
  /\ flows' = [flows EXCEPT ![r] =
       [user |-> Null, expires |-> now + FlowTtl, consumed |-> FALSE]]
  /\ Answer(r, "ok")
  /\ UNCHANGED <<tokens, password, audit, world, call, grantee, history>>

FlowExpired(f) == flows[f].expires <= now

\* Polling a flow: what the row says when it is read
PollOutcome(f) ==
  IF FlowExpired(f) THEN "expired"
  ELSE IF flows[f].consumed THEN "already_used"
  ELSE IF flows[f].user = Null THEN "pending" ELSE "go"

PollRead(r) ==
  /\ pc[r] = "start"
  /\ call[r].op = "poll"
  /\ LET f == call[r].id IN
     IF PollOutcome(f) = "go"
     THEN /\ grantee' = [grantee EXCEPT ![r] = flows[f].user]
          /\ Goto(r, "consume")
     ELSE /\ Answer(r, PollOutcome(f))
          /\ UNCHANGED grantee
  /\ UNCHANGED <<tables, world, call, history>>

\* consumed_at is set whether or not another poll has set it in between.
PollConsume(r) ==
  /\ pc[r] = "consume"
  /\ flows' = [flows EXCEPT ![call[r].id].consumed = TRUE]
  /\ Goto(r, "issue")
  /\ UNCHANGED <<tokens, password, audit, world, call, grantee, history>>

\* A logged-in user enters the code; a flow that has its user is left alone.
AuthorizeRead(r) ==
  /\ pc[r] = "start"
  /\ call[r].op = "authorize"
  /\ LET f == call[r].id IN
     IF FlowExpired(f) THEN Answer(r, "expired")
     ELSE IF flows[f].consumed THEN Answer(r, "already_used")
     ELSE IF flows[f].user # Null THEN Answer(r, "ok")
     ELSE Goto(r, "authorize")
  /\ UNCHANGED <<tables, world, call, grantee, history>>

\* user_id and authorized_at are set whatever the row holds by now.
AuthorizeWrite(r) ==
  /\ pc[r] = "authorize"
  /\ flows' = [flows EXCEPT ![call[r].id].user = call[r].user]
  /\ Answer(r, "ok")
  /\ UNCHANGED <<tokens, password, audit, world, call, grantee, history>>

----------------------------------------------------------------------------
(* The password change *)

PasswordVerify(r) ==
  /\ pc[r] = "start"
  /\ call[r].op = "password"
  /\ IF call[r].password # password[call[r].user]
     THEN Goto(r, "denied")
     ELSE \/ Goto(r, "rehash")
          \/ Answer(r, "validation_failed")  \* the new one is the current one
  /\ UNCHANGED <<tables, world, call, grantee, history>>

PasswordWrite(r) ==
  /\ pc[r] = "rehash"
  /\ password' = [password EXCEPT ![call[r].user] = r]
  /\ knowing' = knowing \cup
       {q \in Requests : /\ pc[q] = "start" /\ call[q].op = "login"
                         /\ call[q].user = call[r].user /\ call[q].password = r}
  /\ Goto(r, "revokeAll")
  /\ UNCHANGED <<tokens, flows, audit, world, call, grantee, live>>

\* Mutant of RevokedAll: only expired tokens are revoked
RevokedExpired(u) ==
  [i \in Requests |->
     IF i \in Tokens /\ tokens[i].user = u /\ tokens[i].expires <= now
     THEN [tokens[i] EXCEPT !.revoked = TRUE] ELSE tokens[i]]

\* UPDATE ... WHERE user_id = ? AND revoked_at IS NULL
RevokedAll(u) ==
  [i \in Requests |-> IF i \in Tokens /\ tokens[i].user = u
                      THEN [tokens[i] EXCEPT !.revoked = TRUE] ELSE tokens[i]]

PasswordRevoke(r) ==
  /\ pc[r] = "revokeAll"
  /\ tokens' = RevokedAll(call[r].user)
  /\ Goto(r, "audit")
  /\ UNCHANGED <<flows, password, audit, world, call, grantee, history>>

----------------------------------------------------------------------------

AllowedEvent(r) ==
  CASE call[r].op \in {"login", "poll"} -> "auth.login.allowed"
    [] call[r].op = "refresh" -> "auth.refresh"
    [] call[r].op = "logout" -> "auth.logout"
    [] OTHER -> "auth.password_change.allowed"

DeniedEvent(r) ==
  IF call[r].op = "login" THEN "auth.login.denied"
                          ELSE "auth.password_change.denied"

\* The event is appended, then the response is sent.
Audit(r) ==
  /\ pc[r] \in {"audit", "denied"}
  /\ IF pc[r] = "audit"
     THEN /\ audit' = audit \cup {[type |-> AllowedEvent(r), request |-> r]}
          /\ Answer(r, "ok")
     ELSE /\ audit' = audit \cup {[type |-> DeniedEvent(r), request |-> r]}
          /\ Answer(r, "invalid_credentials")
  /\ UNCHANGED <<tokens, flows, password, world, call, grantee, history>>

\* The append may throw, after what it is about has been committed.
AuditFails(r) ==
  /\ now + failures < MaxEvents
  /\ failures' = failures + 1
  /\ pc[r] \in {"audit", "denied"}
  /\ Answer(r, "internal_error")
  /\ UNCHANGED <<tables, now, call, grantee, history>>

Tick ==
  /\ now + failures < MaxEvents
  /\ now' = now + 1
  /\ UNCHANGED <<tables, failures, pc, call, grantee, reply, history>>

Restart ==
  /\ now + failures < MaxEvents
  /\ failures' = failures + 1
  /\ reply' = [r \in Requests |->
                 IF pc[r] \in {"idle", "done"} THEN reply[r] ELSE "lost"]
  /\ pc' = [r \in Requests |-> IF pc[r] = "idle" THEN "idle" ELSE "done"]
  /\ UNCHANGED <<tables, now, call, grantee, history>>

Serve(r) ==
  \/ Arrive(r)
  \/ LoginVerify(r)
  \/ RefreshRead(r) \/ RefreshRevoke(r)
  \/ Issue(r)
  \/ Logout(r)
  \/ Start(r) \/ PollRead(r) \/ PollConsume(r)
  \/ AuthorizeRead(r) \/ AuthorizeWrite(r)
  \/ PasswordVerify(r) \/ PasswordWrite(r) \/ PasswordRevoke(r)
  \/ Audit(r) \/ AuditFails(r)

Next ==
  \/ \E r \in Requests : Serve(r)
  \/ Tick
  \/ Restart

Spec == Init /\ [][Next]_vars
----------------------------------------------------------------------------
(* Properties *)

TypeOK ==
  /\ tokens \in [Requests -> Token \cup {Null}]
  /\ flows \in [Requests -> Flow \cup {Null}]
  /\ password \in [Users -> Passwords]
  /\ audit \subseteq [type: EventTypes, request: Requests]
  /\ now \in Nat
  /\ failures \in Nat
  /\ now + failures <= MaxEvents
  /\ pc \in [Requests -> {"idle", "start", "revoke", "issue", "consume",
                          "authorize", "rehash", "revokeAll", "audit",
                          "denied", "done"}]
  /\ call \in [Requests -> Call \cup {Null}]
  /\ grantee \in [Requests -> Users \cup {Null}]
  /\ reply \in [Requests -> {"none", "ok", "invalid_credentials",
                             "token_revoked", "expired", "already_used",
                             "pending", "validation_failed",
                             "internal_error", "lost"}]
  /\ live \in [Requests -> SUBSET Requests]
  /\ knowing \subseteq Requests

\* A refresh that is answered with a new token presented one that was valid when
\* it arrived: after a logout or a rotation has been answered, a late or repeated
\* refresh with the old token fails.
ReplayRefused ==
  \A r \in Requests :
    reply[r] = "ok" /\ call[r].op = "refresh" => call[r].id \in live[r]

\* Once a password change is answered, every token that was valid when it
\* arrived is revoked, other devices' tokens included.
ChangeEndsSessions ==
  \A r \in Requests :
    reply[r] = "ok" /\ call[r].op = "password" =>
      \A i \in live[r] : tokens[i].user = call[r].user => tokens[i].revoked

\* A token rests on the right secret of the right user: a password that has been
\* the user's, for some moment, between the arrival of the login and its answer;
\* an earlier token of the user, which by now is revoked; or a flow that this
\* user has authorized and a poll has marked as consumed.
IssuedOnAuthority ==
  \A i \in Tokens :
    CASE call[i].op = "login" ->
           /\ i \in knowing
           /\ tokens[i].user = call[i].user /\ tokens[i].proof = call[i].password
      [] call[i].op = "refresh" ->
           /\ tokens[i].user = tokens[call[i].id].user
           /\ tokens[call[i].id].revoked
      [] OTHER ->
           /\ call[i].op = "poll"
           /\ flows[call[i].id].consumed
           /\ \E q \in Requests :
                /\ call[q] # Null /\ call[q].op = "authorize"
                /\ call[q].id = call[i].id /\ call[q].user = tokens[i].user
                /\ pc[q] = "done"

SessionsConsistent == TypeOK /\ IssuedOnAuthority

============================================================================
