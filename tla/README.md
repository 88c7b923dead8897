# keynv verification

keynv is a self-hosted vault for development secrets: a server (Hono over SQLite), a
CLI, an MCP server for agents, a web application, scripts that keep a deployment up to
date, and a layer that scrubs secrets out of transcripts. This directory holds TLA+
models of the parts of it where several requests, processes or crashes meet, the TLC runs
that check them on small instances, and proofs, checked by TLAPS, of the invariants of the
server, of its start and of `keynv exec` for every instance.

Conventions: the modules keep the names of the source; `PROJECT.json` names, for each
definition, the lines it stands for, and lists the hazards of the code with the
properties that would show them. Where the code does something that its comments, docs
or users would not expect, the model does it too, and the section *Where the code differs*
tells of it.

## The system

| Component | State | Operations | Talks to | Hard part |
|---|---|---|---|---|
| Secret store (`routes/secrets.ts`) | `secrets` rows: version, wrapped value, `deleted_at`, rotation policy | create, batch upsert, read, rotate, delete, rotation policy, listings | audit log, approvals, project DEK | each handler checks, awaits (encrypt, query) and writes: other requests run in between; crash between the commit and the audit row |
| Approvals (`routes/approvals.ts`, `packages/rbac`) | `approvals` rows: pending, granted, denied, expiry | raised by a read, granted or denied by a lead, expire by the clock, listed page by page | secret store, audit log | two reads raise one request, two reviewers decide it, a grant runs out while it is used |
| Sessions (`routes/auth.ts`, `auth/tokens.ts`) | refresh tokens, CLI device flows, password hashes | login, refresh, logout, start / poll / authorize a flow, change the password | audit log, JWT secret | rotation and consumption of single-use things by overlapping requests |
| Accounts (`routes/{users,org,projects,members,cli-tokens}.ts`, register, `auth/middleware.ts`) | orgs, users, org and project memberships, projects, environments, CLI tokens | their creation, change, removal and listing | audit log, every other handler (the caller's roles) | roles read at the start of a request and used at its end; check-then-write; foreign keys; soft deletes |
| Audit log (`audit/append.ts`, `core/src/audit`, `routes/audit.ts`) | append-only table, each row with the hash of its predecessor | append, verify, list | everything appends to it | the verification reads pages while others append |
| Start-up (`index.ts`, `auto-bootstrap.ts`, `kek/load.ts`, `lib/jwt-secret.ts`, `db/connection.ts`) | master key file, JWT secret file, schema version, first org and owner | one pass of `main` | the volume, the supervisor | a crash between any two steps |
| CLI client (`apps/cli/src/client`, commands, menu) | the sealed session file, its key in the keychain | load, request, refresh on 401, save, browser login | sessions | processes sharing one session without a lock; lost answers |
| `keynv init` (`commands/init.ts`, `ui/flows/init.ts`, `apps/cli/src/init`) | `.env` files, `.keynv.env`, backups, `package.json` | scan, classify, plan keys, upload, write, wrap scripts, back up | secret store | nothing is journalled: a stop or refusal anywhere, then a second run |
| `keynv exec` and MCP (`commands/exec.ts`, `exec/`, `apps/mcp/src`) | reference tokens, a local socket | issue, peek, fetch, consume; resolve, spawn, redact the output | secret store, watcher | two redemptions, two servers on one socket, output cut anywhere |
| Scrubbing and the watcher (`packages/text-surfaces`, `apps/cli/src/watcher`) | files of other tools, timers, registry of values, pid file, socket | start, stop, rewrite a file, react to a change, register a value, scrub all | tools that append to the same files, exec | rewrites overlap with each other and with appends |
| Updater (`deploy/scripts/auto-updater.sh`) | state files, worktrees, snapshots, running release | update, roll back, start, stop | docker, the data volumes | a stop between steps, a candidate that fails after migrating the data |
| Web (`apps/web`) | the sealed session cookie | pages, forms, refresh route, sign-in and out, organisation switch | sessions | tabs overlap, and every answer sets the cookie as its own request knew it |
| Redactor, crypto envelope, parser, testers, rate limits | none, or a counter | pure functions, network probes | | chunk boundaries of the stream |

Components meet in three ways: HTTP requests to the one server process; rows of one SQLite
database (better-sqlite3 is synchronous, so a statement or a `transaction` is atomic); and
files. A handler of the server is interrupted only where it awaits.

**On interleaving.** SQLite calls themselves are synchronous, but every handler also
awaits hashing (argon2), token signing, encryption, a connection test or the request body,
and the driver's results are promises. The models let another request run at every await.
The code is written for that (`routes/approvals.ts:347-349`, `387-390` speak of
concurrent inserts and of rows decided in between) and the integration tests fire eight
requests at once. A statement that the schema refuses (a unique index, a foreign key, SQL
that does not parse) ends in `app.onError`, i.e. an `internal_error` answer, and is
modelled so. So is, in `SecretStore` and `Sessions`, the audit append that fails after the
change is committed (`append.ts:24`, `27`): the change stays, there is no event, and the
answer is the error (`AuditFails`). In `Approvals` and `Accounts` it is left out: for their
tables and log it is what a crash between commit and append is, which they have. Failures
of the disk under a statement are not modelled.

### What each component must guarantee

* Secret store: one live version per key; versions form a chain; an acknowledged write is
  never silently lost; a deleted secret is not revived but by a rotation that had read it
  before the delete; a read never answers with something older than what was committed when it arrived; batches are atomic; every
  answered change is in the audit log.
* Approvals: a guarded value leaves only on a right that held when the handler looked;
  each exposure is recorded; one open request per developer and key; one decider.
* Sessions: what is revoked before a request arrives is of no use to it; a session rests
  on a password that was its user's while the login ran, on a token of his, or on a flow
  that he authorized; a password change ends the sessions it meets.
* Accounts: the tables refer to what exists; the log accounts for them; nobody changes or
  sees what he has had no right to at any moment since his request arrived.
* Audit log: one chain; verification raises no false alarm while rows are appended, and
  its "ok" means the rows it covers are intact.
* Start-up: what a process stored can be read by the next one; the server comes up.
* CLI: a change is made at most once; "done" means made, a refusal means not made, and
  "cannot reach the server" or a server error say neither; the stored session is not one
  the program has itself spent; every command ends.
* init: an alias in a mapping means the value it was made from; no secret in a committed
  file without a human's word; originals survive; a variable is always somewhere.
* exec and MCP: the agent is shown no value that stands in one line below the cap, unless
  it still was before the redactor when the child's pipes closed; a command starts with all
  its variables or not at all; a token that was answered is refused from then on, and one
  that was not answered is not used up.
* Watcher: what it recognises is scrubbed as long as its rewrites succeed; only what its
  authors concede is lost.
* Updater: no acknowledged write is lost, the way back exists, the stack comes up again.
* Web: the cookie holds a live session in the chosen organisation, a sign-out leaves
  none, and no redirect goes round for ever.

## Modules

| Module | Models | Composes |
|---|---|---|
| `VersionedSecrets` | the abstract promise of the store: per key, a version history that only grows | |
| `SecretStore` | `routes/secrets.ts`; one action per database access of a handler | refines `VersionedSecrets` (`Abstract`) |
| `SecretStoreProofs` | the shape of the table, what handlers and log promise, and the refinement: invariants and theorems | extends `SecretStore` |
| `Approvals` | `routes/approvals.ts` with the read and test of guarded secrets and `authorize()` | |
| `ApprovalsReading` | the two listings of approvals, and the approvals page and the inbox of the web application that load them page by page | extends `Approvals` |
| `ApprovalsProofs` | theorems about both | extends `ApprovalsReading` |
| `Sessions`, `SessionsProofs` | `routes/auth.ts`, `auth/tokens.ts` | |
| `Accounts`, `AccountsProofs` | the handlers on users, organisations, projects, members, CLI tokens, and `auth/middleware.ts` before each | |
| `AuditLog` | `appendAudit`, the chain, the verification walk | |
| `AuditReading` | `GET /v1/audit` and the audit pages of the web application that load it page by page | extends `AuditLog` |
| `AuditAndInitProofs` | theorems about the audit log with its readers, and about `keynv init` | extends `AuditReading`, `InitMigration` |
| `Startup`, `DeploymentProofs` | `main`, the operator's bootstrap command, and the files they leave behind | |
| `Clients`, `ClientProofs` | CLI commands, the menu and keynv-mcp over one stored session, against a server that rotates refresh tokens | |
| `VaultKeys` | the pure part of init: what a scan takes, classification, key plan | |
| `InitMigration`, `AuditAndInitProofs` | the three forms of `keynv init` over files and the vault | extends `VaultKeys` |
| `PrivilegedExec`, `AgentProofs` | `keynv exec`, the resolver of keynv-mcp and the streaming redactor | |
| `Watcher`, `AgentProofs` | `keynv watch`, `keynv scrub` and `rewriteFile`, with the registration by exec | |
| `Updater`, `DeploymentProofs` | `auto-updater.sh` with docker, the volumes and systemd as far as it uses them | |
| `WebSession`, `ClientProofs` | the cookie of `apps/web` and the requests that read and set it | |
| `*MC` | model values and symmetry sets for TLC | extend their module |

### How state and actions correspond to the code

`SecretStore`, `Approvals`, `Sessions` and `Accounts` share one shape. A request `r` of
`Requests` is one call of one handler; `pc[r]` is the await it is at, its local variables
are functions of `r` (`snap`, `found`, `grantee`, ...), and `reply[r]` or `answer[r]` is
what its client is told. `Arrive` chooses what is called and by whom. Each further action
runs from one await to the next; its guard is the handler's position and its early returns
are calls of `Answer`. Rows are known by the request that wrote them, because ids are
drawn once per request. Values, tokens and passwords are likewise known by the request
that wrote or presented them: two of them are equal exactly if the code's would be. A
crash kills every running request (`"lost"`) and keeps the tables.

* `SecretStore`: `CreateCheck`/`CreateInsert`, `BatchCheck`/`BatchInsert`, `ReadRow`,
  `RotateRead`/`RotateCommit`, `DeleteRows`, `PolicyRead`/`PolicyUpdate`, then `Audit`.
  The `UNIQUE (project, environment, key, version)` index is `Conflict`; it counts deleted
  rows, as SQLite does. `LoadDek` is the await of `loadProjectDek` and encryption.
  `DeleteProject` is the soft delete of the project under running requests. The two
  listings (`ListNames`, `ListRotations`) hold the rows they read (`"rows"`) until they
  answer with one of them (`AnswerOneOf`), so the same promise covers them as a read.
  `VersionedSecrets` splits a rotation: `Begin` reads a value that resolves, `Supersede`
  appends the next one unless another was written since. `Rotating` maps the requests
  between `RotateRead` and `RotateCommit` to the rotations that have begun; so only a
  rotation begun before a delete can bring a secret back.
* `Approvals`: `FindGrant`, `ExpireGrant`, `EnsurePending`, `RereadPending`,
  `EnsureAgain` are the steps of `findActiveGrant` and `ensurePendingApproval`;
  `UseSecret` is where the value leaves; `Grant`/`Deny` are the conditional updates. The
  clock ticks freely up to `MaxTime`. `Authorize` is the decision table of
  `packages/rbac` for the two operations at hand.
* `ApprovalsReading`: `queue[s]` is one screen: `pages`, what each answer brought, with the
  status at that time, and the cursor, a creation time. `GetApprovals` is one request of a
  listing; `OpenApprovals`, `OpenInbox` and `LoadMore` are who asks. `opened` and `cuts`
  remember what the first answer could have named and where answers ended.
* `Sessions`: a token's `proof` is the password (or browser flow) it rests on.
  `RefreshRead`/`RefreshRevoke`/`Issue` are `rotateRefreshToken`; `PollRead`/`PollConsume`,
  `AuthorizeRead`/`AuthorizeWrite` the device flow; `PasswordVerify`/`PasswordWrite`/
  `PasswordRevoke` the password change. `live[r]` remembers the tokens that were valid when
  `r` arrived, and `knowing` the logins whose password has been their user's at some moment
  since they arrived. It is noted at the arrival and when a password is written, apart from
  what `LoginVerify` compares: a login that compared nothing would break
  `SessionsConsistent`.
* `Accounts`: `ValidateCliToken`, `LoadUser`, `LoadOrgs`, `LoadMemberships` are the reads of
  the middleware, after which `Authorize` decides; then each handler has one action per
  look-up and one per write. A write that breaks a unique index or a foreign key is
  `Refused` and changes nothing; removals cascade as `db/schema.ts` says. `held[r]`
  remembers the rights the caller has had since `r` arrived; `OnlyByRight` counts those of
  the moment of the answer too, because "who am I" lists an organisation that its caller
  has made in another request after his rights were loaded.
* `AuditLog`: `AppendAudit` is one transaction. A hash is the sequence of what went into
  it, so equal hashes mean equal histories (the model's form of collision resistance).
  `EditRow` and `RemoveRow` are changes that bypass the server; a restart may bring
  another chain key. The append reads the tail and inserts in one synchronous transaction
  of the one server, so the model does not take it apart; `ChainIsLinear` is about which
  hash a row is linked to, over restarts with another key.
* `AuditReading`: `view[r]` is what one reader's page holds: the ids on its screen, the
  cursor, the filter of the next "load more". A filter is the set of events it lets
  through. `OpenAudit`, `OpenProjectAudit`, `SelectProject` and `LoadMore` are the user's
  steps; an answer appends its rows to the screen. `common` and `upTo` remember what all
  requests of the page asked for and where the table ended at the last of them.
* `Startup`: one variable per file (`keyFile`, `jwtFile`), the schema (`applied`), orgs
  and owners; memory is lost by `Crash`. A file is created empty and then written, as
  `writeFileSync` does it. `RunBootstrap` starts the operator's command, which needs that
  there is no database (`dbFile`) and takes the steps of `Main` named "command ...". One
  process runs at a time; a crash is one of the process, not of
  the disk, except for `LoseKey`. `KEYNV_JWT_SECRET` is not set.
* `Clients`: a process is a record with the steps its command still has to take (`todo`),
  taken from the command's source: `get`, `change`, `logout` are requests, `ask` and `tty`
  places where the user may end it, `save` the writing of the session. `LoadFile`,
  `GetKey`, `MakeKey`, `OpenFile`, `WriteFile` are the file accesses of `secure-store.ts`:
  a file is torn between the last two. A session is the number of the pair of tokens.
* `InitMigration`: `job` is the running command with what it read at its start; `job.todo`
  is what is left of its current step. The scan and the plan are operators (`FindEnvFiles`,
  `ClassifyEntry`, `PlanVaultKeys` of `VaultKeys`); uploads go in batches or one by one as
  the mode does. A `.env` file is a function from names to values, or `Garbled`. The plan is
  a set of entries with their keys; the order of the source's arrays, on which the numbers
  depend, is the file in which a name was first seen (`first`) and the first file of its
  directory and environment (`opened`). When there are more files than `MaxResults`,
  `FindEnvFiles` has every set the walk may find. `backups[f]` goes from backup names to
  texts: `Exists` is `existsSync`, `FirstFreePath` the stamp of the minute with the first
  free counter, and `Rename` replaces what has the name, as `renameSync` does. A run may
  begin with backups there (`OldBackups`), and the clock may say the same minute twice. A
  mapping is truncated and then written: `CutOff` is a death or a full disk in between,
  which leaves an empty `.keynv.env`. A text written in part is not modelled; the writes of
  `AGENTS.md` and `package.json` neither fail nor are they cut off.
* `PrivilegedExec`: `calls` are redemptions in progress, `runs` the invocations from their
  arguments to the end of the output. A value has two halves, so a chunk can end inside it;
  `Decoded` is `chunk.toString('utf8')` of each chunk by itself, which spoils a value of
  `Wide` (one with a character of several bytes) that is cut there. The output goes from
  the child's `pipe` (`ReadChunk`) to the chunks handed to the Transform (`queue`), through
  it to the agent (`TransformChunk`), with `buf` the line buffer, which `Flush` sends out at
  the end. `Close` is the child's `close` event: it needs the pipe to have ended and the
  child to be gone, not the Transform to be done, and clears the literals; `late` are the
  values that still were in the queue or the buffer then and that no pattern knows.
  `bound` is the server that owns the socket path. Aliases in argv are not modelled; they
  are resolved by the same loop as those of `.keynv.env`.
* `Watcher`: a path names an inode and an open file keeps its inode. `Fire` is the end of a
  debounce, `Read`, `Open`, `Write`, `Rename`, `Unlink` the awaits of `rewriteFile`, called
  by the watcher or by `keynv scrub` (`ByScrub`). `timers` holds the changes not yet
  delivered and the debouncers together: both end in the same `setTimeout`, and the length
  of the debounce is not modelled. `StartWatch`, `Watch`, `Signal`, `ExitWatch`, `StopWatch`,
  `Stopped`, `Die` are the life of the process with its pid file and socket; `Exec` and
  `Register` the value's way into the registry. `Skip` and `Throw` are the errors of stat
  and read, and of open, write, sync and rename: the rewrite ends as "skipped", and
  `failed` holds the file until a rewrite reads it again, since nothing but its next change
  starts one. When the watcher has died, another program may come to have its pid
  (`Stranger`, `reused`): `isProcessAlive` then says yes (`Refused`), a start is refused
  and a stop signals the stranger.
* `Updater`: `op.pc` is the command of the script that runs next: prepare, build, stop,
  save both volumes, start the candidate, judge it, then either the five steps of the
  rollback or the state files one by one and the pruning. `Kill` and `PowerCut` may follow
  any step; a power cut takes the containers down, and the unit starts them again.
* `WebSession`: a tab has one request under way, with the cookie as it was when it was
  sent (`Carried`); `Receive` lets its answer set the cookie. `Follow` is the redirect to
  the refresh route, `Page` and `Form` the ways in which a refusal is met: followed, caught,
  or followed from an action that calls `api()` bare. A server URL
  that the refresh route does not take (`isSafeServerUrl`) is to the browser what a server
  that is not reached is.

## Runs

Every run passes; `PROJECT.json` pairs each of its properties with a mutant that breaks it.

| Run | Bounds | Shows |
|---|---|---|
| `secret_store` | 3 requests of any kind, listings included, 2 keys and 1 of an unknown environment, 1 crash | versions form a chain, no stale or lost value, atomic batches, audit log against table, refinement of `VersionedSecrets` |
| `approvals` | 3 requests, 2 members who are developers or readers at the time, an admin (a lead has the same rights here), a gated and an open key, 1 clock step, 1 crash, 1 screen with pages of 1 | no exposure without a right or a record, one open request, one decider, the log, what the reviewers' screens show |
| `sessions` | 4 requests of every kind, 2 users, 1 clock step, crash or failed append | every session rests on what was its user's when it was presented; replays and sessions from before a password change are refused |
| `accounts` | 2 requests among 80 calls, 2 organisations, 5 users, 2 projects, 1 CLI token, 1 crash | tables against their references, the log against the tables, rights |
| `audit_walk` | 5 rows, pages of 2, 1 outside change, 1 restart, 1 walk, 1 reader | chain, no false alarm, meaning of "ok", a reader sees each entry once |
| `startup_crashes` | 3 crashes, 1 lost file, 2 migrations, the bootstrap command | readability of what was stored, liveness of the start |
| `clients` | 2 processes (one takes a command of up to two requests, the other the menu, keynv-mcp or a second command), 1 choice, 1 expiry, 1 fault, polls until a deadline of 3 | what is told is true, the stored session lives, commands end |
| `init` | 3 `.env` files in 2 directories with one name, 3 contents, 2 names that are cut to one key, backups there or not, one minute, 1 fault, 1 edit by the user, 2 runs | aliases mean their value, fail-safe, originals and variables kept |
| `exec` | 2 invocations in 5 forms, 2 servers, 1 token, 2 aliases, 2 values (one of a known pattern, one that decoding can spoil), 1 change of a secret, 1 fault; 2 writes of the command, a line buffer of 3 half values | no value passed on but a late one, complete environments, tokens neither revived nor lost |
| `watcher` | 1 file, 2 rewrites at once, 2 entries, and one of: a second of the clock, an end of the process, a scrub, an error of a file access | scrubbing and losses while rewrites overlap, over a death and a restart; the pid file |
| `updater` | 3 updates over a broken and a sound release, 2 writes, 2 faults, from a stack or from nothing | no acknowledged write lost, the way back, the stack comes up |
| `web_session` | 2 tabs, 2 organisations, 3 clicks, 2 expiries or failed calls | the cookie's session, sign-out, no endless redirect |

**Why these bounds are enough to be interesting.** Each race in the handlers is between a
check and a write of one request and the complete run of another; it takes two requests,
and one or two more to set the table up (a create before two rotations, a request before
two decisions). Three or four requests hence contain every pairwise race with a
non-trivial history; `accounts` starts from tables that are set up, so two suffice. Keys
interact only through a batch, for which two suffice. For the walk, five rows in pages of
two give a first, a middle and a last page with rows appended behind it. A walk and a
reader only read the table, so they are explored one beside the writers and not both at
once (the constraint `OneAtATime`); likewise crashes and tests, which a screen of
approvals cannot tell from reads, are left out beside an open one (`QuietScreens`); and what
a command prints passes through its own invocation alone, so it is explored with no other
invocation, change or fault beside it (`PrintsAlone`). There the command prints twice, with
or without an end of line, its chunks end anywhere, and the buffer holds an unterminated
value and a half, so both the flush at the end and the cap occur. In
`Startup`, one crash leaves a half-made state, of the command or of the server, the second
one hits its repair and the third what follows; so do the two runs of `init` with the edit
between them and the three runs of `updater`, where the second fault may fall into the
rollback of the first. The races of `Clients` and `WebSession` are between a refresh of
one process or tab and the whole request of another; the third click is what comes after
them. All bounds are CONSTANTS named `Max...` or the sizes of the sets; `MaxPairs` of
`web_session` is never reached. `CHECK_DEADLOCK FALSE` is given where requests, time,
faults and entries run out. The proofs cover all bounds.

A mutant is the code's model with a plausible slip (a dropped check, a missing conflict, a
wrong order); the mutants stand before the definitions they replace.

### Fairness

`SecretStore`, `Approvals`, `Sessions`, `Accounts`, `AuditLog`, `InitMigration` and
`PrivilegedExec` state safety only. The others assume that a program that runs goes on:

* `Startup`: `WF(Main)`. The container is restarted (`restart: unless-stopped` in
  `deploy/docker-compose.yml`) and `main` runs on, as does the bootstrap command once it
  was started; nobody has to start it. Crashes are finitely many.
* `Watcher`: one `WF(Fire \/ Rewrite)`. Timers fire, awaits of a rewrite end and
  chokidar's notifications arrive. Starting the watcher again is up to its user, so
  `Scrubbed` only speaks of behaviours in which it is up in the end.
* `Updater`: `WF(Operation)` for the script and `WF(Start)` for systemd, which starts
  `keynv.service` at boot. Updates, releases, the operator and faults are not fair.
* `Clients`: `WF(Work(p))` per process: a request is answered or fails, and a user who is
  asked answers or leaves. Nobody has to choose anything in a menu.
* `WebSession`: `WF(Progress(t))` per tab: calls are answered or fail, and a browser
  follows the redirect it is sent. The user need not click.

## Where the code differs

The models behave as the code does in the following points, and their properties are
worded to leave room for them.

**Secrets, approvals, sessions**

* A rotate of a deleted secret answers "Create it first." (`secrets.ts:530`), but the
  unique index counts deleted rows, so that create fails with an internal error.
* A rotation that read its secret before a delete commits after it (`secrets.ts:542-562`):
  the new version is live, and the deleted secret resolves again.
* An audit append that fails after the commit (`append.ts:24`, `27`) is answered as an
  internal error although the change is made, and it is in no log; `AuditMatchesTable`
  excepts it as it does a crash at this place.
* A rotate writes the next rotation date of the new version but not its interval
  (`secrets.ts:543`): the listing of secrets "that have a rotation interval configured"
  (`docs/06-api-spec.md:375`) names it for one more round, and then loses it.
* A running grant is hidden by a newer request that was granted and has expired, because
  only the newest row is looked at (`approvals.ts:326`).
* Two reads whose open request is decided meanwhile insert again without ON CONFLICT
  (`approvals.ts:391`); one of them ends in an internal error.
* `guard()` of the test endpoint (`secrets.ts:806`) refuses a developer whose grant is
  running, so the answer at line 841 is unreachable. A test sends the value to its target
  before its audit row is written (`secrets.ts:886`), so a crash in between leaves an
  access without a record; `AccessRecorded` excepts it.
* The listing of approvals is paged by creation time, strictly before the last row
  (`approvals.ts:79`): rows of the same millisecond are stepped over; `EveryRequestShown`
  excepts them. The list on the approvals page is a state that only its first page sets,
  so a request stays "pending" on the screen that has just decided it
  (`approvals-client.tsx:95`).
* The organisation's listing puts the projects of a caller who is not an admin after `IN`
  without parentheses (`approvals.ts:237-241`), which SQLite refuses; the inbox shows any
  failure as an empty queue (`inbox/page.tsx:11-17`). The summary of projects does the same
  with those of a member (`projects.ts:60-63`): whoever has one gets an internal error.
* `org_role` has no value "lead" (`db/schema.ts:35`), so a lead of a project is shown no
  buttons (`projects/[id]/approvals/page.tsx:24`), although the comment above says
  that they are hidden from users who cannot act.
* Two overlapping refreshes with one token both get a successor (`tokens.ts:71-76`), two
  overlapping polls of one authorized flow both get a session (`auth.ts:248`), and a login
  that overlaps a password change survives it (`auth.ts:324`, `466`). `ReplayRefused` and
  `ChangeEndsSessions` speak of what was valid when a request arrived.

**Accounts**

* Two overlapping registrations with one e-mail both succeed: the check is over all
  organisations, the unique index within one (`auth.ts:132-159`). Other duplicate keys
  met by a race are an internal error.
* A user who has created a secret or granted a membership cannot be removed
  (`schema.ts:109`, `166` without ON DELETE): the answer is an internal error. A removal
  may leave an organisation that the user owned without an owner.
* Two overlapping removals are both answered as done and both in the log;
  `POST members` on a row that vanished meanwhile is answered 201 and logged as a change
  of role (`members.ts:95-109`). The log may tell of two changes in the other order.
* The name of a deleted project cannot be used again (`projects.ts:141`); an
  environment can be added to a project deleted a moment ago.
* `memberships.expires_at` is stored and never enforced.

**Audit log, start-up**

* Rows written before the chain was keyed do not verify (`chain.ts:89`), although
  `app.ts:74` says that they do; `NoFalseAlarm` excepts rows under another key.
* A crash between creating and writing `master.key` (`load.ts:29`) stops every later
  start, although `auto-bootstrap.ts:4` promises "no crash-loop"; `ComesUp` excepts it.
* A missing key file is replaced on any start, not only the first (`index.ts:31`);
  `ProjectsReadable` speaks of a key that was not lost.
* A crash between the organisation and its owner (`auto-bootstrap.ts:62`) leaves one
  without the other for good: the next start finds an organisation and returns. The
  operator's command leaves the same behind (`bootstrap.ts:107-122`), and refuses from
  then on because the database exists.
* The listing of the audit log is oldest first, so the pages show the oldest entries and
  "load more" the newer ones. `event_type` of the address applies to the first page only.
  Choosing another project keeps screen and cursor (`audit-timeline.tsx:36-76`): its
  entries before the cursor are never shown. A project's page gives the timeline no
  project (`projects/[id]/audit/page.tsx:28`), so "load more" appends the entries of the
  whole organisation. `EveryEntryOnce` speaks of what all requests asked for.
* The export of the web application asks for 5000 rows (`export-action.ts:5`), the server
  allows 1000 (`routes/audit.ts:18`): it is always refused.

**Clients, exec, init**

* Two CLI processes that refresh one session: the second is told "Session expired".
  keynv-mcp refreshes in memory only and never saves, and its two API connections spend
  each other's token (`mcp/src/index.ts:20`, `server.ts:108`). A logout while another
  process saves leaves a session in the file (`login.ts:218-221`); two processes that
  migrate the legacy file may put a spent one back (`secure-store.ts:116-119`).
  `StoredSessionLives` excepts the sessions in `ended`.
* A lost request or answer is reported as "cannot reach server", a body that breaks off as
  whatever `res.text()` throws (`http.ts:184`), and an answer of 5xx, of the server after its
  commit or of a proxy, as an error (`http.ts:38-39`): the change may be made or not.
  `TellsTheTruth` lets these words stand for "perhaps"; it speaks of success and of the
  refusals (4xx).
* A redemption abandoned after five seconds may still use the token up, and two
  overlapping redemptions of one "single-use" token may both get the value
  (`resolver.ts:64-78`); `BrokerConsistent` refuses a token only to those who ask after the
  first answer (`again`). A token is redeemed before `--timeout` is validated.
* The child's `close` (`spawn.ts:200-202`) waits for the child's pipes and not for the
  Transform they are piped into: `clearSensitiveReferences` empties the array of literals
  that the Transform still uses for what is queued, so with a slow reader values can go
  out as they are, the patterns' excepted. `AgentNeverTold` excepts them (`late`).
* A chunk that ends within a character of several bytes loses it (`streaming.ts:52`): what
  goes out is not the value any more, but neither does the redactor recognise what is left
  of it.
* The streaming redactor does not see a literal that is cut by the 64 KB cap
  (`streaming.ts:64`) or spans lines; its comment concedes the latter
  (`streaming.ts:23-28`). Values are single lines in the model, and `AgentNeverTold` does
  not count a value that goes out in two pieces cut at the cap (`LastPiece`).
* `init`: two directories with one full slug share one vault key for one name although the
  values differ: step 3 takes "same local key sharing a vault key" for a merge
  (`collision.ts:233-235`), against "the vault entries must not stomp each other"
  (`collision.ts:14-15`). With `TOKEN` in `apps/api`, `apps-api` and `services/api` the first
  two are stored as `apps-api_TOKEN`, with the value of the first, and the second
  directory's alias names a value its `.env` never had. So it is with `Api` and `api`, or a
  directory called `root` and the root. `MappingsConsistent` is checked and proved where no
  two directories share a slug (`SlugsApart`).
* The interactive form of `init` flow writes a secret whose upload failed as a literal into a `.keynv.env`
  (`ui/flows/init.ts:828-829`), which a second run after a crash does for every key that
  is already uploaded; a `.env` that does not parse is called skipped but renamed.
  `FailSafe` speaks of the two forms without a human.
* `.keynv.env` is truncated and written in place (`init.ts:616`, `ui/flows/init.ts:513`):
  whoever dies in between has lost the variables of a mapping whose `.env` went in an
  earlier run. `MappedBeforeRenamed` looks at the moment of the renaming only.

**Watcher**

* The temporary name is directory, second and process (`rewrite.ts:181`): two files of
  one directory rewritten in one second can swap text, and overlapping rewrites of one file
  lose entries. `Kept` and `Scrubbed` leave out behaviours in which two rewrites shared
  a name (`shared`).
* The watcher is told of a value with a timeout of 200 ms (`rpc.ts:189-193`), after which
  the tool gets the value although the watcher does not know it.
* A rewrite by the watcher that ends with an error (`rewrite.ts:75-82`, `105-113`,
  `191-205`) is logged (`watcher.ts:139-152`) and not tried again before the file changes:
  the secret stays. `Scrubbed` leaves out files with a failed rewrite (`failed`).
* `isProcessAlive` (`state.ts:59-66`) asks whether anybody has the pid: after a crash, when
  another program has come to have it, `keynv watch start` is refused and `keynv watch stop`
  sends that program SIGTERM.
* A signal during the start leaves pid file and socket behind; `removePidfile` does not
  look whose file it is. The backup of `keynv scrub` is copied after the read, and may
  hold more than what was scrubbed.

**Updater**

* A stop after the candidate is up and before `current-sha` names it: the old release is
  started on migrated data, and the next snapshot is labelled with it. `Sound` leaves out
  such runs (`spoilt`), and a power cut in the middle of a restore.
* A candidate that fails is tried again at every timer, with downtime and one more backup
  directory each time; pruning runs after a success only. What clients wrote to the
  candidate before it was judged is lost by the rollback.
* Killed alone while the stack is stopped, the updater leaves it down, and later runs end
  with "server data volume not found"; `ComesBack` excepts it (`stranded`).
* A kill during `git worktree add` makes that release fail as dirty from then on.

**Web**

* Two tabs that refresh at once: one is sent to `/login` although the cookie lives, or a
  session is left that nobody holds. An action that overlaps a refresh writes the cookie of
  its own request back (`actions.ts:59`), and a refresh under way brings the session back
  after a sign-out. `SessionKept` leaves out behaviours in which an answer overwrote a
  cookie newer than its request's (`late`).
* The redirect that `api()` throws is swallowed by `catchApi` and by the `try` of several
  pages: forms show an error instead of going to the refresh route. "Load more" of the log
  and of the approvals (`actions.ts:93-157`) does not catch it: the page is left for it.
* A sign-in over a session, or a sign-out that does not reach the server, does not revoke
  the session it replaces (`left`).

Other differences met while reading: `docs/05:79` speaks of a device fingerprint that is
not checked on refresh; `docs/01:349` lists `DELETE /v1/auth/refresh`; `docs/06:447`
promises a `request_id`; `docs/02:229` calls the verification incremental, but it walks
from the start; all users of one web server share its limit of refreshes per address.

## Proofs

TLAPS checks, for every value of the constants that satisfies the named assumptions:

| Module | Theorems | State |
|---|---|---|
| `SecretStoreProofs` | `TypeCorrect`, `OneLive`, `Chain`, `AcknowledgedWritesStay`, `AnswersAreFresh`, `AuditAccountsForTable`, `BatchesAreAtomic`, `StoreImplementsPromise` | `[]TypeOK`, `[]OneLiveVersion`, `[]VersionChain`, `[]AcknowledgedWriteKept`, `[]NoStaleAnswer`, `[]AuditMatchesTable`, `[]BatchAllOrNothing`, and `Spec => Abstract!Spec` |
| `ApprovalsProofs` | `TypeCorrect`, `ExposureIsRightful`, `AccessesAreRecorded`, `ApprovalsAreAudited`, `DecisionsStand`, `ReadingImplementsApprovals`, `QueueIsShown` | `[]TypeOK`, `[]ExposedOnlyWithRight`, `[]AccessRecorded`, `[]AuditTellsOfApprovals`, that a decision is never changed, that the screens leave `Approvals` as it is, `[]QueueAsShown` |
| `SessionsProofs` | `SessionsAreConsistent`, `ReplaysAreRefused`, `ChangesEndSessions`, `RevocationsStand` | `[]SessionsConsistent`, `[]ReplayRefused`, `[]ChangeEndsSessions`, that nothing is unrevoked or unconsumed |
| `AccountsProofs` | `TablesStayConsistent`, `RightsAreRespected`, `AuditAccounts` | `[]TablesConsistent`, the action property `OnlyByRight`, `[]AuditAccountsForTables` |
| `AuditAndInitProofs` | `TypeCorrect`, `OneChain`, `NoAlarm`, `OkIsSound`, `ReadingImplementsAuditLog`, `EntriesShownOnce` | `[]TypeOK`, `[]LogConsistent` (the types and `ChainIsLinear`), the action properties `NoFalseAlarm` and `OkMeansIntact`, that the readers leave `AuditLog` as it is, `[]EveryEntryOnce` |
| | `MigrationIsTyped`, `AliasesMean`, `FailsSafe`, `OriginalsAreKept`, `MappedFirst`, `PlanAgrees`, `NumbersApart` | of init its types and bookkeeping, `[]MappingsConsistent` if `SlugsApart`, the action properties `FailSafe`, `OriginalsKept` and `MappedBeforeRenamed`; of `planVaultKeys` that one key has one value, if `SlugsApart`, and that no number is given twice |
| `DeploymentProofs` | `KeyIsKept`, `SecretIsKept`, `NothingIsLost` | `[]ProjectsReadable`, `[]TokensSurvive`, `[]Sound`: no acknowledged write lost by an update, and a way back |
| `AgentProofs` | `AgentIsNotTold`, `BrokerIsConsistent`, `StartsComplete`, `EntriesAreKept` | of exec and MCP `[]AgentNeverTold`, `[]BrokerConsistent`, the action property `StartsWithItsValues`; of the watcher `[]Kept`: what a rewrite may lose, and the pid file |
| `ClientProofs` | `SessionIsKept`, `UserIsToldTheTruth`, `StoredSessionIsLive` | of the browser `[]Sound`: the session kept, and none left behind by a sign-out; of the programs `[]TellsTheTruth` and `[]StoredSessionLives` |

Each rests on an inductive invariant, which TLC has checked on the instance of the run
before it was proved. The invariants of the request handlers have one shape: they say, for
every await a handler may be at, what the rows it read before are still worth, and they
use one fact about every step of anybody, how a row may change (`RowStep`).

* **SecretStore.** That at most one version is live is not inductive: whether a rotation
  may insert version *v+1* depends on the row its handler read awaits ago. `IInv` adds the
  shape of the table (`TableOK`: ids and versions unique, no gap in the numbers, all but
  the newest version deleted, each linked to its predecessor), that a request which has not
  committed wrote no row (`NotYetWritten`, which makes ids fresh), and that the row a
  request holds still is in the table, perhaps with other values in its mutable columns
  (`SnapInTable`). The unique index then is what saves a late rotation: with no gap and
  *v+1* free, the row held is the newest one.
* **SecretStore's promises.** `HInv` adds to it how each handler has come to its position
  (`Handlers`: among others, that what was committed when a request arrived still is there
  and that the row it holds is not older), that each row has its event or a request that
  owes it (`RowsAudited`) and each event its row (`EventsBacked`). The refinement maps the
  rows of a key to the sequence of their writers: the commit of a create or a batch is
  `Create`, that of a rotation `Supersede`, a soft delete `Retire`, and every other step
  leaves the histories as they are (`HistEqual`). That they are sequences at all is
  `NoGap`, and that a rotation appends to the one it read is the argument above. The
  rotations under way are those of `Rotating`: `RotatingStep` says how a step of one request
  changes them, `Mine` that the row it holds is the end of the history it read, and
  `QuietSteps` that a step which leaves the table alone begins at most one of a secret that
  resolves.
* **Approvals.** Whether a reader may be shown a value was decided awaits ago. `Rightful`
  says that whoever has come as far as the value has had the right to it, by his role or
  by a grant that ran when the handler looked, `OneDecider` that a row has the status its
  one decider was told, `OnePending` that the partial unique index holds, `Told` and
  `AccessRecorded` that the log has the events or a request owes them. The screens
  only read: `ReadingImplementsApprovals` carries all of it over, and the rest of the
  invariant for `QueueIsShown` is that a page goes on where the last one ended, that
  creation times of rows do not change, and that new rows come with the present time.
* **Sessions.** `IssuedOnAuthority` (each session rests on its user's password, earlier token
  or authorized flow) needs that the row a request has read keeps its user and its time, and
  that a consumed flow was authorized by a request which is over (`FlowsOK`). For a login it
  needs `KnowingOK`: a running login whose password is its user's now is in `knowing`, so the
  comparison of `LoginVerify` puts it there for good, whatever is changed before it answers. For replays, `RefreshOK`: a token
  that is valid now was valid when the request arrived, because invalid rows stay invalid,
  and only with such a token does a refresh pass its read. For password changes,
  `ChangeOK`: past the revocation, what was valid before is revoked for good.
* **Accounts.** `References` and `Uniques` are the foreign keys and indexes;
  `OwnersStay` that no handler removes or demotes a user with the role of an owner.
  `Positions` says what each handler's look-ups are worth when it writes: organisations
  and projects stay and nobody moves to another organisation, so a project looked up
  early still belongs to the organisation the caller was judged by (`TargetOK`); a user
  found may be gone, but his id has not been drawn again (`Known`); and the role it was
  allowed with is in `held` (`CallerOK`). That the log accounts for the tables is proved
  of the events that are told or owed (`Balanced`): a write changes a table and what is
  owed in one step, and appending the event changes neither. For members it is a count,
  whose two sides go up by one together; for it an event must name the user it is about
  (`target_user_id`), because an e-mail may come to name another user after a removal.
* **AuditLog.** `Linear` says that without outside changes each row follows from the one
  before under some key. `WalkOK` says where a walk stands: its cursor is a row whose hash
  is its tail, everything up to the cursor follows under the key, and the table it began
  with is a prefix of the table now. It is conditional on no outside change since the walk
  began, as the properties are. `ViewOK` says up to which id a reader's screen is filled
  (`Mark`): its cursor, or the end of the table at its last request once there is none.
  A page goes on right there, and what is appended later comes behind it. That a page
  leaves nothing out is an argument about counting: `Places` and `FirstPlaces` say that
  the rows in the first places are as many as the limit or all there are.
* **Startup.** `KeyOnDisk` says that while the key file has not been lost, every project's
  key is the one in the file, and the key in memory too once loaded; `SecretOnDisk` the
  same of the JWT secret; `OrgFirst` that the owner is only inserted after its org.
* **Updater.** What the volumes hold depends on where an update is, and on where the ones
  before it were cut off. `SnapshotOK` says what the snapshot of the run has at each
  command: the volumes saved so far are as the stopped stack left them, and from the trial
  of the candidate until its end the snapshot is the data of the release in force.
  `InForce` says that at all other places the volumes are, and that nothing but the
  release in force runs on them; `OnTrial` that the candidate on trial is the target.
  `InOrder` (targets are newer than what is installed, data are no newer than the target)
  is what makes a migration lossless, and `WayBackKept` follows the three state files
  through the moments at which they disagree. A cut at any command leaves one of the
  states an operation can begin with (`CutOffInv`).
* **PrivilegedExec.** `StoresOK` says that a token is in one store at most and consumed
  there exactly if it was answered, `CallsOK` that a redemption let past the look at its
  token is about a token of its own server: so taking over the socket gives no token a
  second life. A run that gathers values (`Asked`, `Reading`, `Redeeming`) has, for every
  variable done, a value that the last thing naming it had since exec was called
  (`FromTokens`, `FromAliases`), and its redemption brings another such (`Calling`). For
  the output, `Hidden` says that all the pieces in pipe, queue and buffer are `Known` to the
  redactor or late, and that what it passed on last ended a line: then nothing can be put
  together across two chunks. `DecodedChunk` says that decoding brings in no value that
  was not there, `Streamed`, `Redacted` and `Joined` what the redactor lets through. `CloseKeeps` is
  where the literals go: what is in queue and buffer then is of a pattern or late by
  definition, and the pipe is empty.
* **Watcher.** What is in a file now says nothing of what will be there when a rewrite that
  has read it renames its copy over it. `Safe` therefore says of an entry that it is in its
  file and in whatever a rewrite past its read may put in the file's place: the text it
  holds in memory, or the temporary file once that is written (`Copy`). Appending behind
  such a rewrite is what makes an entry late. That the copies stay what they were needs
  that no inode has two names (`OneName`) and, as long as no two rewrites shared a name,
  that a rewrite finds its temporary file where it left it (`OwnName`). The pid file is
  `LifeOK`: of two watchers the second finds the first.
* **WebSession.** Whether the cookie stays good is decided by answers to requests that
  carried an older one. `AnswerOK` says what such an answer sets and what its request has
  done to the pair it carried: a refresh has consumed it, a sign-out revoked it or been
  noted as failed, a switch kept it. `OwnPair` says that a pair on its way is in force and
  that no cookie and no other answer has it, so nobody can take it back before it arrives.
  Then, until an answer overwrites a newer cookie or is lost, the pair in the cookie is in
  force or the answer that replaces it is on its way (`JarKnown`), and every pair in force
  is in the cookie, on its way or noted as left (`AllHeld`).
* **Clients.** That a change is made once, and told of truly, is a fact about the shape of
  the flows: nothing follows the change, and a session is stored in the step after the one
  that brings it. `CommandFlows` proves it of every command, every choice in the menu and
  every tool (`FlowOK`), and each step leaves such a flow behind (`TailOK`, `RestOK`). Then
  `Honest` says that a process that runs has told nothing and has not made its change
  unless nothing is left to do; so a refusal, which comes while the change is still to do,
  is true, and what may have been made and is not known ends with neither word. For the stored session, `Placed` says where a session is
  on its way to the file and `OneHolder` that such a new one is in force, is not in the
  file and is in no other process: so no refresh of another process spends it before it
  is stored. `StoredLives`, with the sessions whose successors are on their way
  (`Replaced`), is then kept by the step that stores the successor.
* **keynv init.** That an alias means its value is a fact about the plan, carried through
  the uploads. `PlanAgrees` is the fact: entries of a plan with one environment and key have
  one value. Entries of one name have it because a group of several values takes a slug,
  and slugs are apart (`SlugsApart`, a hypothesis of this theorem alone); entries of several
  names because `Number` counts the names that came to the key before (`NumbersApart`).
  A count tells them apart only if coming before is a strict total order and each name has
  a first entry: `EarlierIsOrder`, `SeenIsOrder`, `PlanIsOrder` build the order from that of
  the files, and `FiniteMinimal` finds the first, by the well-founded order of finite sets.
  `MigrationInv` then says of a process that runs what its plan was made from (`PlanOK`),
  that without a human every entry that may be a secret is treated as one and is stored
  before a mapping is written (`AutoTakesAll`, `ModeOK`, `UploadOK`), and that an entry has
  its mapping or waits for it (`WriteOK`), so that the renaming begins when all have.
  `OriginalsKept` is about the name a file is renamed to: `Rename` replaces what has it, and
  of every name in `BackupNames`, the plain one or the stamped one with its count, the code
  has seen that no backup of the file has it. With
  `PlanMeans`, that the vault has what the plan's files said, it makes
  `AliasesMeanTheirValue` inductive. `SlugsApart` is needed: with the three directories
  above, TLC finds the invariant violated.

Assumptions: only the ASSUMEs of the modules, each evaluated by TLC in some run. Bounds
are natural numbers, lifetimes and the limit of the line buffer positive, and a null value
is distinct from the data it may stand in for. There is some event (`EventAssumption`),
and at least one pair of tokens may be issued in `WebSession`. In `Accounts`, ids that are drawn are
distinct (`IdAssumption`), what a call may say is what its zod schema lets through
(`CallAssumption`; `routes/users.ts:18-31`, `routes/org.ts:16-21`), and the tables begin
with what the foreign keys and unique indexes of `db/schema.ts` allow (`DataAssumption`).
In `PrivilegedExec`, a way of calling exec names variables by aliases, finitely many, and
lists tokens (`SpecAssumption`). In `Watcher`, every file has an inode of its own at first (`FileAssumption`); a new
temporary file needs a free one. In `Clients`, the random key that `generateKey` returns is
none of the keys in use (`KeyAssumption`), and processes are called with the commands and
choices of the code (`FlowAssumption`). In `VaultKeys`, the tree is finite and the order of
`localeCompare` has every directory and name (`OrderAssumption`); in `InitMigration`,
contents, edits, disks and scripts are what the file system may hold (`FilesAssumption`).

**Model-checked only:** liveness (`ComesUp`, `Scrubbed`, `ComesBack`, `CommandsEnd`,
`ComesToRest`), which the prover cannot treat under fairness. Every safety property of the
runs is proved.

## Not modelled, and why

Searches, the paging of the other listings, onboarding, health and metrics only read or
count. Rate limits are arithmetic without an await in between; their refusals are failed
calls to the clients. The pattern bank and the entropy detector are regular expressions
and numeric heuristics: the models know an entry as matched or not. Cryptography is taken
at its promise: a value opens under the key that sealed it. The connection testers are
network I/O, whose outcome is an input. The pages and dialogs of the web application, the
prompts and tables of the CLI and the shell hooks present the API or edit one line of a
file. Of the updater, the refresh of its own service files, the validation of its
configuration and the `current` link are left out; of the watcher, the removal of a
watched file, the status file, and two `keynv watch start` given at the same moment.

## Plan

The modelling is done as far as the code rewards it. What is left, in order of weight:

1. Compositions: `SecretStore` with `Approvals` and the real `AuditLog` in place of their
   set of events.
2. Rate limiting, paging and the shell hooks, as pure functions against reference
   definitions.
