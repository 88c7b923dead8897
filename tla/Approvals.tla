----------------------------- MODULE Approvals -----------------------------
(***************************************************************************)
(* Access to the secrets of one project whose environments may require an  *)
(* approval: the read and test handlers of routes/secrets.ts, the queue of *)
(* approvals they feed, and the reviewers who decide                       *)
(* (apps/server/src/routes/approvals.ts).  As in SecretStore, a handler is *)
(* one action per database access whose outcome another request can        *)
(* change.  The role of a caller is read once, when the request arrives,   *)
(* and may be another one for the next request: memberships change freely. *)
(*                                                                         *)
(* An approval is known by the request that asked for it: newApprovalId()  *)
(* is drawn once per request.                                              *)
(***************************************************************************)
EXTENDS Naturals

CONSTANTS
  Requests,    \* HTTP requests, each one call of one handler
  Ops,         \* the operations that clients call
  Members,     \* users whose role in the project is a membership row
  Roles,       \* the roles they have in it
  Admin,       \* a user who is an owner or admin of the organization
  Aliases,
  Gated,       \* the aliases of production environments that require approval
  Ttls,        \* the values of expires_in_seconds
  Null,
  MaxTime,     \* bound on the clock
  MaxRestarts  \* bound on crashes of the server process

ASSUME OpAssumption == Ops \subseteq {"read", "test", "grant", "deny"}
ASSUME UserAssumption == Admin \notin Members
ASSUME RoleAssumption == Roles \subseteq {"lead", "developer", "reader", "none"}
ASSUME GatedAssumption == Gated \subseteq Aliases
ASSUME TimeAssumption == MaxTime \in Nat /\ MaxRestarts \in Nat
ASSUME TtlAssumption == Ttls \subseteq Nat \ {0}

VARIABLES
  approvals,  \* id -> the row of the table with that id, or Null
  audit,      \* the audit events appended so far
  now,        \* the clock
  restarts,   \* crashes so far
  pc,         \* request -> the next await of its handler
  call,       \* request -> [op, user, role, alias, id]: what was asked, by whom
  found,      \* request -> the approval its handler has found
  owed,       \* request -> the audit event to append before the answer
  looked,     \* request -> the time at which it looked for a grant
  exposed,    \* the requests whose secret value has left the server
  reply       \* request -> the outcome sent to the client

vars == <<approvals, audit, now, restarts,
          pc, call, found, owed, looked, exposed, reply>>

table == <<approvals, audit, exposed>>
world == <<now, restarts>>
local == <<found, owed, looked>>

Users == Members \cup {Admin}

Access == {"read", "test"}
Decisions == {"grant", "deny"}

Approval == [alias: Aliases, user: Users,
             status: {"pending", "granted", "denied", "expired"},
             by: Users \cup {Null}, created: Nat, expires: Nat \cup {Null}]

Call == [op: Access \cup Decisions, user: Users, role: Roles \cup {"admin"},
         alias: Aliases, id: Requests \cup {Null}]

EventTypes == {"approval.requested", "approval.granted", "approval.denied",
               "secret.read.allowed", "secret.read.denied",
               "secret.test.invoked", "secret.test.denied"}

Event == [type: EventTypes, request: Requests, id: Requests \cup {Null}]

ASSUME NullAssumption ==
  /\ Null \notin Nat /\ Null \notin Requests /\ Null \notin Users
  /\ Null \notin Approval /\ Null \notin Call /\ Null \notin Event

RolesOf(u) == IF u = Admin THEN {"admin"} ELSE Roles

Rows == {i \in Requests : approvals[i] # Null}

----------------------------------------------------------------------------
(* Decisions of packages/rbac *)

\* authorize('secret.read' or 'secret.test', ...)
Authorize(r, granted) ==
  IF call[r].role \notin {"admin", "lead", "developer"} THEN "deny"
  ELSE IF call[r].role = "developer" /\ call[r].alias \in Gated /\ ~granted
       THEN "pending_approval"
       ELSE "allow"

\* authorize('approval.grant', ...)
MayDecide(r) == call[r].role \in {"admin", "lead"}

----------------------------------------------------------------------------
(* Queries *)

\* The rows for the alias and the user of r
RowsFor(r) ==
  {i \in Rows : approvals[i].alias = call[r].alias
                   /\ approvals[i].user = call[r].user}

\* Mutant of Granted: the requester is not part of the condition
GrantedToAnyone(r) ==
  {i \in Rows : approvals[i].alias = call[r].alias
                   /\ approvals[i].status = "granted"}

Granted(r) == {i \in RowsFor(r) : approvals[i].status = "granted"}

Pending(r) == {i \in RowsFor(r) : approvals[i].status = "pending"}

\* ORDER BY created_at DESC LIMIT 1: of rows created in the same millisecond
\* the database returns any.
IsNewest(i, S) ==
  i \in S /\ \A j \in S : approvals[j].created <= approvals[i].created

Expired(i) == approvals[i].expires <= now

\* Mutant of Conflict: no partial UNIQUE index
NoConflict(r) == FALSE

\* The partial UNIQUE index over pending rows (migration 0009)
Conflict(r) == Pending(r) # {}

\* INSERT of a pending row, by the request whose id it has
NewApproval(r) ==
  [alias |-> call[r].alias, user |-> call[r].user,
   status |-> "pending", by |-> Null, created |-> now, expires |-> Null]

----------------------------------------------------------------------------

Init ==
  /\ approvals = [i \in Requests |-> Null]
  /\ audit = {}
  /\ now = 0
  /\ restarts = 0
  /\ pc = [r \in Requests |-> "idle"]
  /\ call = [r \in Requests |-> Null]
  /\ found = [r \in Requests |-> Null]
  /\ owed = [r \in Requests |-> Null]
  /\ looked = [r \in Requests |-> Null]
  /\ exposed = {}
  /\ reply = [r \in Requests |-> "none"]

Answer(r, code) ==
  /\ pc' = [pc EXCEPT ![r] = "done"]
  /\ reply' = [reply EXCEPT ![r] = code]

Goto(r, label) ==
  /\ pc' = [pc EXCEPT ![r] = label]
  /\ UNCHANGED reply

\* Mutant of Owe: the audit call is forgotten
OweNothing(r, type, id) == UNCHANGED owed /\ Answer(r, "ok")

\* The answer of r waits for an audit event.
Owe(r, type, id) ==
  /\ owed' = [owed EXCEPT ![r] = [type |-> type, request |-> r, id |-> id]]
  /\ Goto(r, "audit")

\* The middleware authenticates r and reads its caller's role.  A decision
\* names an approval the reviewer has seen in a listing.
Arrive(r) ==
  /\ pc[r] = "idle"
  /\ \E u \in Users : \E x \in RolesOf(u) :
       \/ \E o \in Ops \cap Access, a \in Aliases :
            call' = [call EXCEPT ![r] =
              [op |-> o, user |-> u, role |-> x, alias |-> a, id |-> Null]]
       \/ \E o \in Ops \cap Decisions, i \in Rows :
            call' = [call EXCEPT ![r] =
              [op |-> o, user |-> u, role |-> x, alias |-> approvals[i].alias,
               id |-> i]]
  /\ Goto(r, "start")
  /\ UNCHANGED <<table, world, local>>

\* guard() of the test handler: whatever is not "allow" is refused, and no
\* grant has been looked for yet.
TestRefused(r) == call[r].op = "test" /\ Authorize(r, FALSE) # "allow"

RefuseTest(r) ==
  /\ pc[r] = "start"
  /\ TestRefused(r)
  /\ Answer(r, "denied")
  /\ UNCHANGED <<table, world, call, local>>

\* What follows findActiveGrant: refuse, queue an approval, or go on to the
\* secret.  A refusal of a read or test is audited.
Decide(r, granted) ==
  CASE Authorize(r, granted) = "pending_approval" ->
         Goto(r, "ensure") /\ UNCHANGED owed
    [] Authorize(r, granted) = "deny" ->
         Owe(r, IF call[r].op = "read" THEN "secret.read.denied"
                ELSE "secret.test.denied", Null)
    [] OTHER -> Goto(r, "secret") /\ UNCHANGED owed

\* findActiveGrant: only the newest granted row is looked at.
FindGrant(r) ==
  /\ pc[r] = "start"
  /\ call[r].op \in Access
  /\ ~TestRefused(r)
  /\ looked' = [looked EXCEPT ![r] = now]
  /\ \/ /\ Granted(r) = {}
        /\ Decide(r, FALSE)
        /\ UNCHANGED found
     \/ \E i \in Granted(r) :
          /\ IsNewest(i, Granted(r))
          /\ found' = [found EXCEPT ![r] = i]
          /\ IF Expired(i) THEN Goto(r, "expire") /\ UNCHANGED owed
                           ELSE Decide(r, TRUE)
  /\ UNCHANGED <<table, world, call>>

\* The grant found has run out: its row is marked by id, whatever its status
\* is by now, and the caller has no grant.
ExpireGrant(r) ==
  /\ pc[r] = "expire"
  /\ approvals' = [approvals EXCEPT ![found[r]].status = "expired"]
  /\ Decide(r, FALSE)
  /\ UNCHANGED <<audit, exposed, world, call, found, looked>>

\* ensurePendingApproval: insert unless a pending row is there,
EnsurePending(r) ==
  /\ pc[r] = "ensure"
  /\ IF Conflict(r)
     THEN /\ Goto(r, "reread")
          /\ UNCHANGED <<approvals, owed>>
     ELSE /\ approvals' = [approvals EXCEPT ![r] = NewApproval(r)]
          /\ Owe(r, "approval.requested", r)
  /\ UNCHANGED <<audit, exposed, world, call, found, looked>>

\* read the row that was in the way,
RereadPending(r) ==
  /\ pc[r] = "reread"
  /\ IF Pending(r) # {} THEN Answer(r, "approval_required")
                        ELSE Goto(r, "again")
  /\ UNCHANGED <<table, world, call, local>>

\* and, if a reviewer has decided it in between, insert once more, this time
\* without ON CONFLICT.
EnsureAgain(r) ==
  /\ pc[r] = "again"
  /\ IF Conflict(r)
     THEN /\ Answer(r, "internal_error")
          /\ UNCHANGED <<approvals, owed>>
     ELSE /\ approvals' = [approvals EXCEPT ![r] = NewApproval(r)]
          /\ Owe(r, "approval.requested", r)
  /\ UNCHANGED <<audit, exposed, world, call, found, looked>>

\* The secret is read and decrypted.  A test sends the value to its target
\* before anything is audited; a read first owes its event.
UseSecret(r) ==
  /\ pc[r] = "secret"
  /\ \/ Answer(r, "not_found") /\ UNCHANGED <<owed, exposed>>
     \/ /\ call[r].op = "test"
        /\ Answer(r, "validation_failed")
        /\ UNCHANGED <<owed, exposed>>
     \/ /\ call[r].op = "test"
        /\ exposed' = exposed \cup {r}
        /\ Owe(r, "secret.test.invoked", Null)
     \/ /\ call[r].op = "read"
        /\ Owe(r, "secret.read.allowed", Null)
        /\ UNCHANGED exposed
  /\ UNCHANGED <<approvals, audit, world, call, found, looked>>

----------------------------------------------------------------------------

\* Mutant of Decidable: AND status = 'pending' is missing
AnyStatus(i) == TRUE

\* WHERE id = ? AND status = 'pending'
Decidable(i) == approvals[i].status = "pending"

Grant(r) ==
  /\ pc[r] = "start"
  /\ call[r].op = "grant"
  /\ LET i == call[r].id IN
     IF ~MayDecide(r) THEN Answer(r, "denied") /\ UNCHANGED <<approvals, owed>>
     ELSE IF ~Decidable(i)
     THEN Answer(r, "not_found") /\ UNCHANGED <<approvals, owed>>
     ELSE /\ \E t \in Ttls :
               approvals' = [approvals EXCEPT ![i].status = "granted",
                                              ![i].by = call[r].user,
                                              ![i].expires = now + t]
          /\ Owe(r, "approval.granted", i)
  /\ UNCHANGED <<audit, exposed, world, call, found, looked>>

Deny(r) ==
  /\ pc[r] = "start"
  /\ call[r].op = "deny"
  /\ LET i == call[r].id IN
     IF ~MayDecide(r) THEN Answer(r, "denied") /\ UNCHANGED <<approvals, owed>>
     ELSE IF ~Decidable(i)
     THEN Answer(r, "not_found") /\ UNCHANGED <<approvals, owed>>
     ELSE /\ approvals' = [approvals EXCEPT ![i].status = "denied",
                                            ![i].by = call[r].user]
          /\ Owe(r, "approval.denied", i)
  /\ UNCHANGED <<audit, exposed, world, call, found, looked>>

\* The answer that follows each event
AnswerAfter(type) ==
  CASE type = "approval.requested" -> "approval_required"
    [] type \in {"secret.read.denied", "secret.test.denied"} -> "denied"
    [] OTHER -> "ok"

\* The event is appended and the response is sent; that of a read carries the
\* value.
Audit(r) ==
  /\ pc[r] = "audit"
  /\ audit' = audit \cup {owed[r]}
  /\ exposed' = IF owed[r].type = "secret.read.allowed"
                THEN exposed \cup {r} ELSE exposed
  /\ Answer(r, AnswerAfter(owed[r].type))
  /\ UNCHANGED <<approvals, world, call, local>>

----------------------------------------------------------------------------

Tick ==
  /\ now < MaxTime
  /\ now' = now + 1
  /\ UNCHANGED <<table, restarts, pc, call, local, reply>>

Restart ==
  /\ restarts < MaxRestarts
  /\ restarts' = restarts + 1
  /\ reply' = [r \in Requests |->
                 IF pc[r] \in {"idle", "done"} THEN reply[r] ELSE "lost"]
  /\ pc' = [r \in Requests |-> IF pc[r] = "idle" THEN "idle" ELSE "done"]
  /\ UNCHANGED <<table, now, call, local>>

Serve(r) ==
  \/ Arrive(r)
  \/ RefuseTest(r) \/ FindGrant(r) \/ ExpireGrant(r)
  \/ EnsurePending(r) \/ RereadPending(r) \/ EnsureAgain(r)
  \/ UseSecret(r)
  \/ Grant(r) \/ Deny(r)
  \/ Audit(r)

Next ==
  \/ \E r \in Requests : Serve(r)
  \/ Tick
  \/ Restart

Spec == Init /\ [][Next]_vars
----------------------------------------------------------------------------
(* Properties *)

TypeOK ==
  /\ approvals \in [Requests -> Approval \cup {Null}]
  /\ audit \subseteq Event
  /\ now \in 0..MaxTime
  /\ restarts \in 0..MaxRestarts
  /\ pc \in [Requests -> {"idle", "start", "expire", "ensure", "reread",
                          "again", "secret", "audit", "done"}]
  /\ call \in [Requests -> Call \cup {Null}]
  /\ found \in [Requests -> Requests \cup {Null}]
  /\ owed \in [Requests -> Event \cup {Null}]
  /\ looked \in [Requests -> 0..MaxTime \cup {Null}]
  /\ exposed \subseteq Requests
  /\ reply \in [Requests -> {"none", "ok", "denied", "approval_required",
                             "not_found", "validation_failed",
                             "internal_error", "lost"}]

\* A reviewer's grant of this alias to this user that had not run out when r
\* looked for it
CoveredByGrant(r) ==
  \E i \in RowsFor(r) : /\ approvals[i].by # Null
                        /\ approvals[i].status \in {"granted", "expired"}
                        /\ looked[r] < approvals[i].expires

\* A value only leaves the server for a caller who may see secrets, and one of
\* a gated alias reaches a developer only under a grant for that developer and
\* alias that was still running, however reads, decisions, role changes and the
\* clock interleave.
ExposedOnlyWithRight ==
  \A r \in exposed :
    \/ call[r].role \in {"admin", "lead"}
    \/ call[r].role = "developer"
         /\ (call[r].alias \in Gated => CoveredByGrant(r))

\* Two reviewers who decide the same approval are never both told that they did.
OneDecision ==
  \A r, q \in Requests :
    /\ r # q
    /\ reply[r] = "ok" /\ call[r].op \in Decisions
    /\ reply[q] = "ok" /\ call[q].op \in Decisions
    => call[r].id # call[q].id

\* The reviewers' queue shows a developer's wish once: concurrent reads of one
\* alias by one developer never leave two pending rows, also when a decision
\* falls between the insert and the second look (approvals.ts:347).
OnePending ==
  \A i, j \in Rows :
    /\ approvals[i].status = "pending" /\ approvals[j].status = "pending"
    /\ approvals[i].alias = approvals[j].alias
    /\ approvals[i].user = approvals[j].user
    => i = j

\* The queue of a reviewer: typed, one row a wish, one decider a row
QueueConsistent == TypeOK /\ OneDecision /\ OnePending

\* The log tells of each approval: its request and its decision are there, or
\* the request that made them has not been answered.
AuditTellsOfApprovals ==
  \A i \in Rows :
    /\ \/ \E e \in audit : e.type = "approval.requested" /\ e.id = i
       \/ reply[i] \in {"none", "lost"}
    /\ approvals[i].status # "pending" =>
         \/ \E e \in audit :
              /\ e.id = i
              /\ e.type \in {"approval.granted", "approval.denied"}
              /\ e.type = "approval.denied" <=> approvals[i].status = "denied"
         \/ \E r \in Requests : /\ call[r] # Null /\ call[r].id = i
                                /\ call[r].op \in Decisions
                                /\ reply[r] \in {"none", "lost"}

\* docs/02-threat-model.md: "Audit chain records every access".  No value that
\* has left the server is missing in the log, but for a test whose handler is
\* still running or was ended by a crash: a test sends the value before it
\* appends its event, a read after.
AccessRecorded ==
  \A r \in exposed :
    \/ \E e \in audit : e.request = r
    \/ call[r].op = "test" /\ (pc[r] = "audit" \/ reply[r] = "lost")

============================================================================
