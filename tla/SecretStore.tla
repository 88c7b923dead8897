---------------------------- MODULE SecretStore ----------------------------
(***************************************************************************)
(* The secrets table of one project and the HTTP handlers that read and    *)
(* write it (apps/server/src/routes/secrets.ts).  A handler is a sequence  *)
(* of awaits, and between two awaits of one request any other request may  *)
(* run, so every handler is cut into one action per database access whose  *)
(* outcome another request can change.  Reads of rows that nothing in this *)
(* model changes are part of the access that follows them.                 *)
(*                                                                         *)
(* A secret value is known by the request that wrote it, and so is a row:  *)
(* newSecretId() is drawn once per request and alias.                      *)
(***************************************************************************)
EXTENDS Naturals

CONSTANTS
  Requests,    \* HTTP requests, each one call of one handler
  Aliases,     \* the (environment, key) pairs of the project
  UnknownEnv,  \* the aliases that name an environment the project lacks
  Intervals,   \* the values of interval_days
  Null,        \* SQL NULL: no interval, no previous version, no row read
  MaxRestarts  \* bound on crashes of the server process

ASSUME AliasAssumption == UnknownEnv \subseteq Aliases
ASSUME IntervalAssumption == Null \notin Intervals
ASSUME RequestAssumption == Null \notin Requests
ASSUME RestartAssumption == MaxRestarts \in Nat

VARIABLES
  secrets,         \* the rows of the table
  projectDeleted,  \* projects.deleted_at is set
  audit,           \* the audit events appended so far
  restarts,        \* crashes so far
  pc,              \* request -> the next await of its handler
  op,              \* request -> the handler that serves it
  target,          \* request -> the aliases it is about
  snap,            \* request -> the row its handler holds in a local variable
  todo,            \* request -> the aliases whose audit event is still to come
  reply,           \* request -> the outcome sent to the client
  before           \* history: request -> versions committed when it arrived

vars == <<secrets, projectDeleted, audit, restarts,
          pc, op, target, snap, todo, reply, before>>

request == <<pc, op, target, snap, todo, reply, before>>

\* GET secrets and GET secrets/rotations, which record nothing
Listings == {"list", "due"}

Ops == {"create", "batch", "read", "rotate", "delete", "policy"} \cup Listings

Replies == {"none", "ok", "not_found", "already_exists", "batch_invalid",
            "internal_error", "lost"}

Rows == [alias: Aliases, version: Nat \ {0}, writer: Requests,
         prev: Requests \cup {Null}, live: BOOLEAN,
         interval: Intervals \cup {Null}, next: Intervals \cup {Null}]

Events == [type: Ops, alias: Aliases, version: Nat, request: Requests]

RowsOf(a) == {x \in secrets : x.alias = a}

LiveRows(a) == {x \in RowsOf(a) : x.live}

\* Mutant of IsNewestLive: neither the filter nor the order of the query
IsAnyRow(x, a) == x \in RowsOf(a)

\* ORDER BY version DESC LIMIT 1 over the rows with deleted_at IS NULL
IsNewestLive(x, a) ==
  /\ x \in LiveRows(a)
  /\ \A y \in LiveRows(a) : y.version <= x.version

\* The UNIQUE (project_id, environment_id, key, version) constraint
Conflict(a, v) == \E x \in RowsOf(a) : x.version = v

\* Mutant of FirstVersion: versions count from 0
ZerothVersion(a, r) ==
  [alias |-> a, version |-> 0, writer |-> r, prev |-> Null, live |-> TRUE,
   interval |-> Null, next |-> Null]

\* The row that create and batch insert
FirstVersion(a, r) ==
  [alias |-> a, version |-> 1, writer |-> r, prev |-> Null, live |-> TRUE,
   interval |-> Null, next |-> Null]

\* Mutant of NextVersion: prev_version_id is not set
UnlinkedVersion(old, r) ==
  [alias |-> old.alias, version |-> old.version + 1, writer |-> r,
   prev |-> Null, live |-> TRUE, interval |-> Null, next |-> old.interval]

\* Mutant of NextVersion: the version is not increased
SameVersion(old, r) ==
  [alias |-> old.alias, version |-> old.version, writer |-> r,
   prev |-> old.writer, live |-> TRUE, interval |-> Null,
   next |-> old.interval]

\* The row that rotate inserts: the policy's next date is computed from the
\* row read before, the policy itself is not copied
NextVersion(old, r) ==
  [alias |-> old.alias, version |-> old.version + 1, writer |-> r,
   prev |-> old.writer, live |-> TRUE, interval |-> Null,
   next |-> old.interval]

\* SET deleted_at
MarkDeleted(S) == {[x EXCEPT !.live = FALSE] : x \in S}

\* SET rotation_interval_days and next_rotation_at
SetPolicy(S, d) == {[x EXCEPT !.interval = d, !.next = d] : x \in S}

\* WHERE id = the id of the row read before
SameId(x, y) == x.alias = y.alias /\ x.writer = y.writer

----------------------------------------------------------------------------

Init ==
  /\ secrets = {}
  /\ projectDeleted = FALSE
  /\ audit = {}
  /\ restarts = 0
  /\ pc = [r \in Requests |-> "idle"]
  /\ op = [r \in Requests |-> "read"]
  /\ target = [r \in Requests |-> {}]
  /\ snap = [r \in Requests |-> Null]
  /\ todo = [r \in Requests |-> {}]
  /\ reply = [r \in Requests |-> "none"]
  /\ before = [r \in Requests |-> {}]

\* The handler of r returns: nothing of it is left to run.
Answer(r, code) ==
  /\ reply' = [reply EXCEPT ![r] = code]
  /\ pc' = [pc EXCEPT ![r] = "done"]

Goto(r, label) ==
  /\ pc' = [pc EXCEPT ![r] = label]
  /\ UNCHANGED reply

\* Mutant of OweAudit: the audit call is forgotten
SkipAudit(r, A) ==
  /\ UNCHANGED todo
  /\ Answer(r, "ok")

\* The handler of r has done its work and owes an audit event for each alias
\* in A.
OweAudit(r, A) ==
  /\ todo' = [todo EXCEPT ![r] = A]
  /\ Goto(r, "audit")

\* An authorised request with a valid body reaches its handler.  A batch names
\* several keys; one that names a key twice is refused before it reads secrets.
Arrive(r) ==
  /\ pc[r] = "idle"
  /\ \E o \in Ops, A \in SUBSET Aliases :
       /\ A # {}
       /\ o # "batch" => \E a \in Aliases : A = {a}
       /\ op' = [op EXCEPT ![r] = o]
       /\ target' = [target EXCEPT ![r] = A]
       /\ before' = [before EXCEPT ![r] =
                       {x.version : x \in {y \in secrets : y.alias \in A}}]
  /\ Goto(r, "start")
  /\ UNCHANGED <<secrets, projectDeleted, audit, restarts, snap, todo>>

\* The reads every handler starts with: the project by id, org and
\* deleted_at IS NULL, then the environment by name.
ProjectAndEnvFound(r) ==
  /\ ~projectDeleted
  /\ target[r] \cap UnknownEnv = {}

\* create and batch: the DEK, the environment, and no live row of the alias
CreateCheck(r) ==
  /\ pc[r] = "start"
  /\ op[r] = "create"
  /\ IF ~ProjectAndEnvFound(r) THEN Answer(r, "not_found")
     ELSE IF \E a \in target[r] : LiveRows(a) # {}
          THEN Answer(r, "already_exists")
          ELSE Goto(r, "write")
  /\ UNCHANGED <<secrets, projectDeleted, audit, restarts,
                 op, target, snap, todo, before>>

BatchCheck(r) ==
  /\ pc[r] = "start"
  /\ op[r] = "batch"
  /\ IF projectDeleted THEN Answer(r, "not_found")
     ELSE IF \/ ~ProjectAndEnvFound(r)
             \/ \E a \in target[r] : LiveRows(a) # {}
          THEN Answer(r, "batch_invalid")
          ELSE Goto(r, "write")
  /\ UNCHANGED <<secrets, projectDeleted, audit, restarts,
                 op, target, snap, todo, before>>

\* Version 1 is inserted without a second look at the table: only the UNIQUE
\* constraint, which counts deleted rows too, stands in the way.
CreateInsert(r) ==
  /\ pc[r] = "write"
  /\ op[r] = "create"
  /\ IF \E a \in target[r] : Conflict(a, 1)
     THEN /\ Answer(r, "internal_error")
          /\ UNCHANGED <<secrets, todo>>
     ELSE /\ secrets' = secrets \cup {FirstVersion(a, r) : a \in target[r]}
          /\ OweAudit(r, target[r])
  /\ UNCHANGED <<projectDeleted, audit, restarts, op, target, snap, before>>

\* Mutant of BatchInsert: the rows that conflict are skipped
BatchInsertSome(r) ==
  /\ pc[r] = "write"
  /\ op[r] = "batch"
  /\ secrets' = secrets \cup {FirstVersion(a, r) :
                    a \in {b \in target[r] : ~Conflict(b, 1)}}
  /\ OweAudit(r, target[r])
  /\ UNCHANGED <<projectDeleted, audit, restarts, op, target, snap, before>>

\* All inserts in one transaction: a conflict of one rolls back the others.
BatchInsert(r) ==
  /\ pc[r] = "write"
  /\ op[r] = "batch"
  /\ IF \E a \in target[r] : Conflict(a, 1)
     THEN /\ Answer(r, "internal_error")
          /\ UNCHANGED <<secrets, todo>>
     ELSE /\ secrets' = secrets \cup {FirstVersion(a, r) : a \in target[r]}
          /\ OweAudit(r, target[r])
  /\ UNCHANGED <<projectDeleted, audit, restarts, op, target, snap, before>>

----------------------------------------------------------------------------

\* Mutant of FetchNewest: the newest row, deleted or not
FetchNewestOrDeleted(r, label) ==
  IF ~ProjectAndEnvFound(r) \/ \A a \in target[r] : RowsOf(a) = {}
  THEN /\ Answer(r, "not_found")
       /\ UNCHANGED snap
  ELSE /\ \E a \in target[r] : \E x \in RowsOf(a) :
            /\ \A y \in RowsOf(a) : y.version <= x.version
            /\ snap' = [snap EXCEPT ![r] = x]
       /\ Goto(r, label)

\* The row a read, a rotate or a policy change works on from here on, whatever
\* happens to the table in the meantime.
FetchNewest(r, label) ==
  IF ~ProjectAndEnvFound(r) \/ \A a \in target[r] : LiveRows(a) = {}
  THEN /\ Answer(r, "not_found")
       /\ UNCHANGED snap
  ELSE /\ \E a \in target[r], x \in secrets :
            /\ IsNewestLive(x, a)
            /\ snap' = [snap EXCEPT ![r] = x]
       /\ Goto(r, label)

ReadRow(r) ==
  /\ pc[r] = "start"
  /\ op[r] = "read"
  /\ FetchNewest(r, "dek")
  /\ UNCHANGED <<secrets, projectDeleted, audit, restarts,
                 op, target, todo, before>>

RotateRead(r) ==
  /\ pc[r] = "start"
  /\ op[r] = "rotate"
  /\ FetchNewest(r, "dek")
  /\ UNCHANGED <<secrets, projectDeleted, audit, restarts,
                 op, target, todo, before>>

PolicyRead(r) ==
  /\ pc[r] = "start"
  /\ op[r] = "policy"
  /\ FetchNewest(r, "write")
  /\ UNCHANGED <<secrets, projectDeleted, audit, restarts,
                 op, target, todo, before>>

\* loadProjectDek reads the project a second time; a read then decrypts what
\* it holds, a rotate encrypts the new value.
LoadDek(r) ==
  /\ pc[r] = "dek"
  /\ IF projectDeleted
     THEN Answer(r, "not_found") /\ UNCHANGED todo
     ELSE IF op[r] = "read"
          THEN OweAudit(r, target[r])
          ELSE Goto(r, "write") /\ UNCHANGED todo
  /\ UNCHANGED <<secrets, projectDeleted, audit, restarts,
                 op, target, snap, before>>

\* One transaction: insert the next version of the row read before, then mark
\* that row deleted, whether or not it still is the live one.
RotateCommit(r) ==
  /\ pc[r] = "write"
  /\ op[r] = "rotate"
  /\ IF Conflict(snap[r].alias, snap[r].version + 1)
     THEN /\ Answer(r, "internal_error")
          /\ UNCHANGED <<secrets, todo>>
     ELSE LET old == {x \in secrets : SameId(x, snap[r])} IN
          /\ secrets' = (secrets \ old) \cup MarkDeleted(old)
                          \cup {NextVersion(snap[r], r)}
          /\ OweAudit(r, target[r])
  /\ UNCHANGED <<projectDeleted, audit, restarts, op, target, snap, before>>

\* One UPDATE ... RETURNING over every live row of the alias
DeleteRows(r) ==
  /\ pc[r] = "start"
  /\ op[r] = "delete"
  /\ LET gone == {x \in secrets : x.alias \in target[r] /\ x.live} IN
     IF ~ProjectAndEnvFound(r) \/ gone = {}
     THEN /\ Answer(r, "not_found")
          /\ UNCHANGED <<secrets, todo>>
     ELSE /\ secrets' = (secrets \ gone) \cup MarkDeleted(gone)
          /\ OweAudit(r, target[r])
  /\ UNCHANGED <<projectDeleted, audit, restarts, op, target, snap, before>>

\* An UPDATE by id of the row read before.  interval_days is optional in the
\* body, but an UPDATE that sets no column is refused by the query builder.
PolicyUpdate(r) ==
  /\ pc[r] = "write"
  /\ op[r] = "policy"
  /\ \/ /\ Answer(r, "internal_error")
        /\ UNCHANGED <<secrets, todo>>
     \/ \E d \in Intervals :
          LET row == {x \in secrets : SameId(x, snap[r])} IN
          /\ secrets' = (secrets \ row) \cup SetPolicy(row, d)
          /\ OweAudit(r, target[r])
  /\ UNCHANGED <<projectDeleted, audit, restarts, op, target, snap, before>>

\* Both listings look the project up before they read its secrets.  What a
\* listing says of the target stands for what it says of each secret.
ListProject(r) ==
  /\ pc[r] = "start"
  /\ op[r] \in Listings
  /\ IF projectDeleted THEN Answer(r, "not_found") ELSE Goto(r, "rows")
  /\ UNCHANGED <<secrets, projectDeleted, audit, restarts,
                 op, target, snap, todo, before>>

\* The answer names one of the rows, or says nothing of the target.
AnswerOneOf(r, rows) ==
  /\ IF rows = {} THEN UNCHANGED snap
                  ELSE \E x \in rows : snap' = [snap EXCEPT ![r] = x]
  /\ Answer(r, "ok")
  /\ UNCHANGED <<secrets, projectDeleted, audit, restarts,
                 op, target, todo, before>>

\* Newest version first, the deleted ones passed over, each alias once
ListNames(r) ==
  /\ pc[r] = "rows"
  /\ op[r] = "list"
  /\ AnswerOneOf(r, {x \in secrets : \E a \in target[r] : IsNewestLive(x, a)})

\* Every live row with a date for its next rotation
ListRotations(r) ==
  /\ pc[r] = "rows"
  /\ op[r] = "due"
  /\ AnswerOneOf(r, {x \in secrets : /\ x.alias \in target[r]
                                     /\ x.live /\ x.next # Null})

----------------------------------------------------------------------------

\* The version that the event and the response of r name
ReportedVersion(r) ==
  CASE op[r] \in {"create", "batch"} -> 1
    [] op[r] = "read" -> snap[r].version
    [] op[r] = "rotate" -> snap[r].version + 1
    [] OTHER -> 0

EventOf(r, a) ==
  [type |-> op[r], alias |-> a, version |-> ReportedVersion(r), request |-> r]

\* audit() appends one event after the change it records has been committed;
\* the response is sent when none is left.
Audit(r) ==
  /\ pc[r] = "audit"
  /\ \E a \in todo[r] :
       /\ audit' = audit \cup {EventOf(r, a)}
       /\ todo' = [todo EXCEPT ![r] = @ \ {a}]
       /\ IF todo[r] = {a} THEN Answer(r, "ok") ELSE Goto(r, "audit")
  /\ UNCHANGED <<secrets, projectDeleted, restarts, op, target, snap, before>>

\* The append throws: the payload does not fit its schema, or the transaction
\* fails.  What the request has committed stays, without an event.
AuditFails(r) ==
  /\ pc[r] = "audit"
  /\ Answer(r, "internal_error")
  /\ UNCHANGED <<secrets, projectDeleted, audit, restarts,
                 op, target, snap, todo, before>>

\* DELETE /v1/projects/:id sets deleted_at of the project and nothing else.
DeleteProject ==
  /\ ~projectDeleted
  /\ projectDeleted' = TRUE
  /\ UNCHANGED <<secrets, audit, restarts, request>>

\* The process dies: the tables survive, the handlers in flight do not.
Restart ==
  /\ restarts < MaxRestarts
  /\ restarts' = restarts + 1
  /\ reply' = [r \in Requests |->
                 IF pc[r] \in {"idle", "done"} THEN reply[r] ELSE "lost"]
  /\ pc' = [r \in Requests |-> IF pc[r] = "idle" THEN "idle" ELSE "done"]
  /\ UNCHANGED <<secrets, projectDeleted, audit, op, target, snap, todo, before>>

Serve(r) ==
  \/ Arrive(r)
  \/ CreateCheck(r) \/ CreateInsert(r)
  \/ BatchCheck(r) \/ BatchInsert(r)
  \/ ReadRow(r)
  \/ RotateRead(r) \/ RotateCommit(r)
  \/ PolicyRead(r) \/ PolicyUpdate(r)
  \/ DeleteRows(r)
  \/ LoadDek(r)
  \/ ListProject(r) \/ ListNames(r) \/ ListRotations(r)
  \/ Audit(r) \/ AuditFails(r)

Next ==
  \/ \E r \in Requests : Serve(r)
  \/ DeleteProject
  \/ Restart

Spec == Init /\ [][Next]_vars
----------------------------------------------------------------------------
(* Properties *)

\* Every variable has its type: the local variables `prev` and `secret` hold a
\* row or nothing.
TypeOK ==
  /\ secrets \subseteq Rows
  /\ projectDeleted \in BOOLEAN
  /\ audit \subseteq Events
  /\ restarts \in 0..MaxRestarts
  /\ pc \in [Requests -> {"idle", "start", "dek", "rows", "write", "audit", "done"}]
  /\ op \in [Requests -> Ops]
  /\ target \in [Requests -> SUBSET Aliases]
  /\ snap \in [Requests -> Rows \cup {Null}]
  /\ todo \in [Requests -> SUBSET Aliases]
  /\ reply \in [Requests -> Replies]
  /\ before \in [Requests -> SUBSET Nat]

\* At most one version of a secret resolves at any time, whatever creates,
\* rotates and deletes overlap (rotate marks by id the row it read two awaits
\* earlier; only the UNIQUE constraint stops a second one).
OneLiveVersion ==
  \A x, y \in secrets : x.alias = y.alias /\ x.live /\ y.live => x = y

\* The versions of a secret are 1..n without a gap or a duplicate, each one
\* names its predecessor in prev_version_id, and only the last may be live.
VersionChain ==
  \A x \in secrets :
    /\ \A y \in RowsOf(x.alias) :
         /\ y.version = x.version => y = x
         /\ y.version < x.version => ~y.live
    /\ x.version = 1 <=> x.prev = Null
    /\ x.version > 1 => \E y \in RowsOf(x.alias) :
                          y.version = x.version - 1 /\ y.writer = x.prev

\* A create or rotate that was answered 2xx is in the table under the version it
\* reported: no concurrent request overwrites it and no crash loses it.
AcknowledgedWriteKept ==
  \A r \in Requests : \A a \in target[r] :
    reply[r] = "ok" /\ op[r] \in {"create", "batch", "rotate"}
      => \E x \in RowsOf(a) : x.writer = r /\ x.version = ReportedVersion(r)

\* A read never answers with a version older than one that was committed before
\* the read arrived, a rotate never with a version that already was, and no
\* listing, also of the rotations that are due, names a version that had been
\* superseded by then.
NoStaleAnswer ==
  \A r \in Requests : \A v \in before[r] :
    reply[r] = "ok" =>
      /\ op[r] = "read" => v <= ReportedVersion(r)
      /\ op[r] = "rotate" => v < ReportedVersion(r)
      /\ op[r] \in Listings /\ snap[r] # Null => v <= snap[r].version

\* Everything a client was told, but for listings, is in the audit log; every
\* version in the table is there or its request was not answered 2xx (it is
\* running, was killed by a crash before its append, or was told of an error
\* because the append failed); and no event tells of a version that is not
\* there.
AuditMatchesTable ==
  /\ \A r \in Requests : \A a \in target[r] :
       reply[r] = "ok" /\ op[r] \notin Listings => EventOf(r, a) \in audit
  /\ \A x \in secrets :
       \/ \E e \in audit : /\ e.alias = x.alias /\ e.version = x.version
                            /\ e.request = x.writer
       \/ x.alias \in todo[x.writer] /\ reply[x.writer] \in {"none", "lost", "internal_error"}
  /\ \A e \in audit :
       e.version > 0 => \E x \in RowsOf(e.alias) : x.version = e.version

\* A batch writes all of its secrets or none, also when a concurrent create has
\* taken one of its keys after the batch was validated.
BatchAllOrNothing ==
  \A r \in Requests : op[r] = "batch" =>
    {x.alias : x \in {y \in secrets : y.writer = r}} \in {{}, target[r]}

\* The history of a secret, oldest value first: by VersionChain the versions are
\* 1..n.
HistoryOf(a) ==
  [v \in {x.version : x \in RowsOf(a)} |->
     (CHOOSE x \in RowsOf(a) : x.version = v).writer]

\* The rotations that hold a row, each with the version it has read
Rotating ==
  {<<snap[r].alias, snap[r].version, r>> :
     r \in {q \in Requests : op[q] = "rotate" /\ pc[q] \in {"dek", "write"}}}

Abstract == INSTANCE VersionedSecrets WITH
  Writers <- Requests,
  history <- [a \in Aliases |-> HistoryOf(a)],
  resolves <- [a \in Aliases |-> LiveRows(a) # {}],
  rotating <- Rotating

\* The table and its racing handlers implement the promise of VersionedSecrets:
\* every step of a handler appends one value behind the one it has read, retires
\* a secret, creates some, or changes nothing that a reader of the table can
\* tell; a deleted secret resolves again only by a rotation that had read it
\* before the delete.
ImplementsVersionedSecrets == Abstract!Spec

============================================================================
