------------------------------ MODULE Accounts ------------------------------
(***************************************************************************)
(* Users, organizations, projects with their environments and members, and *)
(* CLI tokens: the handlers of routes/{users,org,projects,members,         *)
(* cli-tokens}.ts and of POST /v1/auth/register, behind the authentication *)
(* of auth/middleware.ts, in apps/server/src.                              *)
(*                                                                         *)
(* A request is authenticated by three reads, then refused or allowed by   *)
(* the roles they returned (packages/rbac), then checked by one or more    *)
(* reads, and only then writes and appends its audit event: each of these  *)
(* is an action, and another request may run between any two.  The         *)
(* database is SQLite with foreign keys on: a write that breaks a unique   *)
(* index or a reference changes nothing and is answered internal_error.    *)
(*                                                                         *)
(* A row that a request inserts has the request as its id: newUserId() and *)
(* its siblings are drawn once per request.                                *)
(***************************************************************************)
EXTENDS Naturals, FiniteSets

CONSTANTS
  Requests,   \* HTTP requests, each one call of one handler
  Calls,      \* what clients ask: records as Blank below
  Null,
  Orgs0,      \* the organizations, users, ... that exist at first
  Users0,
  Owned0,
  Projects0,
  Members0,
  Tokens0,
  Authors,    \* users who have created a secret
  MaxCrashes  \* bound on crashes of the server process

VARIABLES
  orgs,       \* id -> the name of the organization, or Null
  users,      \* id -> [org, email, role], or Null
  owned,      \* org_memberships: the pairs <<user, org>>, all with role owner
  projects,   \* id -> [org, name, deleted], or Null
  envs,       \* the pairs <<project, environment name>>
  members,    \* memberships: rows [user, project, role, by]
  tokens,     \* cli_tokens: id -> [user, revoked], or Null
  audit,      \* the audit events: [by, event, user]
  crashes,
  pc,         \* request -> the next await of its handler
  call,       \* request -> what was asked
  who,        \* request -> c.var.user, as far as it has been loaded
  found,      \* request -> what its handler has looked up
  held,       \* request -> the rights its caller has had since it arrived
  answer      \* request -> [code, shown]: the answer, the rows it lists

tables == <<orgs, users, owned, projects, envs, members, tokens>>
local == <<call, who, found, held>>
vars == <<tables, audit, crashes, pc, local, answer>>

UserIds    == DOMAIN Users0 \cup Requests
OrgIds     == DOMAIN Orgs0 \cup Requests
ProjectIds == DOMAIN Projects0 \cup Requests
TokenIds   == DOMAIN Tokens0 \cup Requests

\* A call: its bearer (a user's access token, or a CLI token), the header
\* X-Keynv-Org, and the parameters its route has.
Blank == [op |-> Null, by |-> Null, org |-> Null, orgId |-> Null, user |-> Null,
          project |-> Null, token |-> Null, email |-> Null, name |-> Null, role |-> Null]

\* The rows of the tables
KnownEmails == {c.email : c \in Calls} \cup {Users0[u].email : u \in DOMAIN Users0}
KnownNames == {c.name : c \in Calls} \cup {Orgs0[o] : o \in DOMAIN Orgs0}
         \cup {Projects0[p].name : p \in DOMAIN Projects0}
Roles == {"owner", "admin", "developer", "reader"}
UserRows == [org: OrgIds, email: KnownEmails, role: Roles]
ProjectRows == [org: OrgIds, name: KnownNames, deleted: BOOLEAN]
MemberRows == [user: UserIds, project: ProjectIds, role: {"lead", "developer", "reader"}, by: UserIds]
TokenRows == [user: UserIds, revoked: BOOLEAN]

\* NULL is no row and no id, and an id is drawn for one row.
ASSUME IdAssumption ==
  /\ Null \notin UserRows /\ Null \notin ProjectRows /\ Null \notin TokenRows
  /\ Null \notin UserIds \cup OrgIds \cup ProjectIds \cup TokenIds
  /\ Requests \cap (DOMAIN Orgs0 \cup DOMAIN Users0 \cup DOMAIN Projects0 \cup DOMAIN Tokens0) = {}

\* What the schemas of the routes let through: a name is not empty, nobody is
\* made an owner, and a member's role is one of a project.
ASSUME CallAssumption ==
  \A c \in Calls :
    /\ c.op \in {"register", "org.create", "org.rename"} => c.name # Null
    /\ c.op \in {"invite", "user.role"} => c.role \in Roles \ {"owner"}
    /\ c.op \in {"member.add", "member.patch"} => c.role \in {"lead", "developer", "reader"}

\* The references and the unique indexes hold at first, and a member belongs to
\* the organization of his project.
ASSUME DataAssumption ==
  /\ \A o \in DOMAIN Orgs0 : Orgs0[o] # Null
  /\ \A u \in DOMAIN Users0 : Users0[u] \in [org: DOMAIN Orgs0, email: KnownEmails, role: Roles]
  /\ \A u, v \in DOMAIN Users0 :
       Users0[u].email = Users0[v].email /\ Users0[u].org = Users0[v].org => u = v
  /\ Owned0 \subseteq (DOMAIN Users0) \X (DOMAIN Orgs0)
  /\ \A p \in DOMAIN Projects0 : Projects0[p] \in [org: DOMAIN Orgs0, name: KnownNames, deleted: BOOLEAN]
  /\ \A p, q \in DOMAIN Projects0 :
       Projects0[p].name = Projects0[q].name /\ Projects0[p].org = Projects0[q].org => p = q
  /\ Members0 \subseteq MemberRows
  /\ \A m \in Members0 :
       /\ {m.user, m.by} \subseteq DOMAIN Users0 /\ m.project \in DOMAIN Projects0
       /\ Users0[m.user].org = Projects0[m.project].org
  /\ \A m, n \in Members0 : m.user = n.user /\ m.project = n.project => m = n
  /\ \A t \in DOMAIN Tokens0 : Tokens0[t] \in [user: DOMAIN Users0, revoked: BOOLEAN]

Extended(f, ids) == [i \in ids |-> IF i \in DOMAIN f THEN f[i] ELSE Null]

Nobody == [id |-> Null, org |-> Null, role |-> Null, orgs |-> {}, projects |-> {}]
None == [code |-> "none", shown |-> {}]

Init ==
  /\ orgs = Extended(Orgs0, OrgIds)
  /\ users = Extended(Users0, UserIds)
  /\ owned = Owned0
  /\ projects = Extended(Projects0, ProjectIds)
  /\ envs = {<<p, "dev">> : p \in DOMAIN Projects0}
  /\ members = Members0
  /\ tokens = Extended(Tokens0, TokenIds)
  /\ audit = {}
  /\ crashes = 0
  /\ pc = [r \in Requests |-> "idle"]
  /\ call = [r \in Requests |-> Blank]
  /\ who = [r \in Requests |-> Nobody]
  /\ found = [r \in Requests |-> Null]
  /\ held = [r \in Requests |-> {}]
  /\ answer = [r \in Requests |-> None]

(***************************************************************************)
(* The tables                                                              *)
(***************************************************************************)
Existing(table) == {i \in DOMAIN table : table[i] # Null}
RolesOf(u) == {[project |-> m.project, role |-> m.role] : m \in {n \in members : n.user = u}}

EmailTaken(e) == \E u \in Existing(users) : users[u].email = e
UserIn(e, o) == {u \in Existing(users) : users[u].email = e /\ users[u].org = o}
NameTaken(n, o) == \E p \in Existing(projects) : projects[p].org = o /\ projects[p].name = n
AnyProject(p, o) == p \in Existing(projects) /\ ~projects[p].deleted
ProjectInOrg(p, o) == AnyProject(p, o) /\ projects[p].org = o

\* What the tables allow a user: his role in each organization, the
\* organizations that he made, his role in each project.
RightsOf(u) ==
  IF u \notin Existing(users) THEN {}
  ELSE {<<users[u].org, users[u].role>>}
       \cup {<<p[2], "owner">> : p \in {q \in owned : q[1] = u}}
       \cup {<<m.project, m.role>> : m \in RolesOf(u)}

\* The user that a bearer stands for.
IsCliToken(b) == b \in DOMAIN Tokens0
Bearer(b) ==
  IF ~IsCliToken(b) THEN b
  ELSE IF tokens[b] = Null \/ tokens[b].revoked THEN Null ELSE tokens[b].user

(***************************************************************************)
(* Steps that every handler shares                                         *)
(***************************************************************************)
At(r, where, op) == pc[r] = where /\ call[r].op = op

Goto(r, where) ==
  /\ pc' = [pc EXCEPT ![r] = where]
  /\ UNCHANGED <<audit, crashes, local, answer>>

GotoWith(r, where, f) ==
  /\ pc' = [pc EXCEPT ![r] = where]
  /\ found' = [found EXCEPT ![r] = f]
  /\ UNCHANGED <<audit, crashes, call, who, held, answer>>

Leave(r, code, shown) ==
  /\ pc' = [pc EXCEPT ![r] = "done"]
  /\ answer' = [answer EXCEPT ![r] = [code |-> code, shown |-> shown]]
  /\ who' = [who EXCEPT ![r] = Nobody]
  /\ found' = [found EXCEPT ![r] = Null]
  /\ held' = [held EXCEPT ![r] = {}]
  /\ UNCHANGED <<crashes, call>>

Answer(r, code) == Leave(r, code, {}) /\ UNCHANGED audit
Show(r, shown)  == Leave(r, "ok", shown) /\ UNCHANGED <<tables, audit>>

\* A refusal by one of the checks, or on to the write.
Check(r, refused, code) ==
  /\ IF refused THEN Answer(r, code) ELSE Goto(r, "write")
  /\ UNCHANGED tables

\* A statement the database refuses is answered 500 by app.onError.
Refused(r) == Answer(r, "internal_error") /\ UNCHANGED tables

\* What a request tells the log.  The handlers of members name the event and
\* the user it is about; the others are told of by what was asked.
Event(r) ==
  IF call[r].op \in {"member.add", "member.patch", "member.remove"}
  THEN [by |-> r, event |-> found[r].event, user |-> found[r].user]
  ELSE [by |-> r, event |-> call[r].op, user |-> Null]

\* audit() of lib/route-utils.ts after the change, then the answer.
AppendAudit(r) ==
  /\ pc[r] = "audit"
  /\ audit' = audit \cup {Event(r)}
  /\ Leave(r, "ok", {})
  /\ UNCHANGED tables

(***************************************************************************)
(* Authentication: auth/middleware.ts                                      *)
(***************************************************************************)
Arrive(r, c) ==
  /\ pc[r] = "idle"
  /\ call' = [call EXCEPT ![r] = c]
  /\ held' = [held EXCEPT ![r] = RightsOf(Bearer(c.by))]
  /\ pc' = [pc EXCEPT ![r] = IF c.op = "register" THEN "check"
                             ELSE IF IsCliToken(c.by) THEN "token" ELSE "row"]
  /\ who' = [who EXCEPT ![r].id = c.by]
  /\ UNCHANGED <<tables, audit, crashes, found, answer>>

ValidateCliToken(r) ==
  /\ pc[r] = "token"
  /\ UNCHANGED tables
  /\ IF Bearer(who[r].id) = Null THEN Answer(r, "invalid_credentials")
     ELSE /\ who' = [who EXCEPT ![r].id = Bearer(@)]
          /\ pc' = [pc EXCEPT ![r] = "row"]
          /\ UNCHANGED <<audit, crashes, call, found, held, answer>>

\* What one read of the authentication adds to c.var.user.
Load(r, w, where) ==
  /\ who' = [who EXCEPT ![r] = w]
  /\ held' = [held EXCEPT ![r] = @ \cup RightsOf(w.id)]
  /\ pc' = [pc EXCEPT ![r] = where]
  /\ UNCHANGED <<tables, audit, crashes, call, found, answer>>

LoadUser(r) ==
  LET u == who[r].id IN
  /\ pc[r] = "row"
  /\ IF u \notin Existing(users) THEN Answer(r, "invalid_credentials") /\ UNCHANGED tables
     ELSE Load(r, [who[r] EXCEPT !.org = users[u].org, !.role = users[u].role], "orgs")

\* The active organization is the one of the header if the user belongs to
\* it, with the role he has there, or else his primary one.
ActiveOrg(w, requested) ==
  LET all == {w.org} \cup {p[2] : p \in {q \in owned : q[1] = w.id}} IN
  IF requested \in all \ {w.org}
  THEN [w EXCEPT !.orgs = all, !.org = requested, !.role = "owner"]
  ELSE [w EXCEPT !.orgs = all]

LoadOrgs(r) ==
  /\ pc[r] = "orgs"
  /\ Load(r, ActiveOrg(who[r], call[r].org), "members")

Admins == {"owner", "admin"}
OrgLevel == {"users.list", "invite", "user.role", "user.remove", "org.rename",
             "project.create", "project.delete"}
ByLead == {"env.add", "member.add", "member.patch", "member.remove"}
ByMember == {"project.get", "members.list"}

\* authorize() of packages/rbac, for the operations of this module.
Authorize(w, c) ==
  \/ c.op \notin OrgLevel \cup ByLead \cup ByMember
  \/ w.role \in Admins
  \/ /\ c.op \notin OrgLevel
     /\ \E m \in w.projects : /\ m.project = c.project
                              /\ m.role = "lead" \/ c.op \in ByMember

\* The last read of the authentication; the guard of the handler follows it
\* at once.
LoadMemberships(r) ==
  LET w == [who[r] EXCEPT !.projects = RolesOf(who[r].id)] IN
  /\ pc[r] = "members"
  /\ IF Authorize(w, call[r]) THEN Load(r, w, "check")
     ELSE Answer(r, "denied") /\ UNCHANGED tables

(***************************************************************************)
(* Lists.  What an answer shows is the ids of the rows it lists.           *)
(***************************************************************************)
Live(o) == {p \in Existing(projects) : ProjectInOrg(p, o)}
Mine(w) == {m.project : m \in w.projects}

\* GET /v1/projects and /secrets/search, which does not ask that the project
\* of a member is in the active organization; /summary for an admin and for a
\* user without projects.
ListedProjects(w, op) ==
  IF w.role \in Admins THEN Live(w.org)
  ELSE IF op = "projects.list" THEN Live(w.org) \cap Mine(w)
  ELSE {p \in Mine(w) : AnyProject(p, w.org)}

\* /summary writes the ids of a member's projects after IN without
\* parentheses, which SQLite does not parse.
Unparsable(w, op) == op = "projects.summary" /\ w.role \notin Admins /\ w.projects # {}

ListProjects(r) ==
  /\ pc[r] = "check"
  /\ call[r].op \in {"projects.list", "projects.summary", "search"}
  /\ IF Unparsable(who[r], call[r].op) THEN Refused(r)
     ELSE Show(r, ListedProjects(who[r], call[r].op))

\* GET /v1/whoami names the organizations and the projects of the caller,
\* deleted ones too.
Whoami(r) ==
  /\ At(r, "check", "whoami")
  /\ Show(r, {who[r].org} \cup {p[2] : p \in {q \in owned : q[1] = who[r].id}} \cup Mine(who[r]))

ListOrgs(r) == At(r, "check", "orgs.list") /\ Show(r, who[r].orgs)

ListUsers(r) ==
  /\ At(r, "check", "users.list")
  /\ Show(r, {u \in Existing(users) : users[u].org = who[r].org})

ListCliTokens(r) ==
  /\ At(r, "check", "tokens.list")
  /\ Show(r, {t \in Existing(tokens) : tokens[t].user = who[r].id})

\* The two lists that first look whether the project is there.
FindProject(r) ==
  /\ pc[r] = "check"
  /\ call[r].op \in ByMember
  /\ UNCHANGED tables
  /\ IF ProjectInOrg(call[r].project, who[r].org) THEN Goto(r, "list") ELSE Answer(r, "not_found")

GetProject(r) ==
  /\ At(r, "list", "project.get")
  /\ Show(r, {call[r].project} \cup {e \in envs : e[1] = call[r].project})

ListMembers(r) ==
  /\ At(r, "list", "members.list")
  /\ Show(r, {call[r].project} \cup {m.user : m \in {n \in members : n.project = call[r].project}})

(***************************************************************************)
(* Organizations and users                                                 *)
(***************************************************************************)
RegisterCheck(r) ==
  /\ At(r, "check", "register")
  /\ Check(r, EmailTaken(call[r].email), "already_exists")

\* The organization and its owner are inserted in one transaction.
Register(r) ==
  /\ At(r, "write", "register")
  /\ orgs' = [orgs EXCEPT ![r] = call[r].name]
  /\ users' = [users EXCEPT ![r] = [org |-> r, email |-> call[r].email, role |-> "owner"]]
  /\ UNCHANGED <<owned, projects, envs, members, tokens>>
  /\ Goto(r, "audit")

CreateOrg(r) ==
  /\ At(r, "check", "org.create")
  /\ IF who[r].id \notin Existing(users) THEN Refused(r)
     ELSE /\ orgs' = [orgs EXCEPT ![r] = call[r].name]
          /\ owned' = owned \cup {<<who[r].id, r>>}
          /\ UNCHANGED <<users, projects, envs, members, tokens>>
          /\ Goto(r, "audit")

RenameOrg(r) ==
  /\ At(r, "check", "org.rename")
  /\ orgs' = [orgs EXCEPT ![who[r].org] = call[r].name]
  /\ UNCHANGED <<users, owned, projects, envs, members, tokens>>
  /\ Goto(r, "audit")

\* The organization of an invitation is the active one, or the one that the
\* body names if the caller belongs to it and administers it.
TargetOrg(w, asked) == IF asked = Null THEN w.org ELSE asked
MayInviteAnywhere(w, o) == TRUE  \* mutant: the guard of the active organization is enough
MayInviteTo(w, o) == o = w.org \/ (o \in w.orgs /\ <<w.id, o>> \in owned)

InviteCheck(r) ==
  LET target == TargetOrg(who[r], call[r].orgId) IN
  /\ At(r, "check", "invite")
  /\ IF ~MayInviteTo(who[r], target) THEN Check(r, TRUE, "denied")
     ELSE Check(r, UserIn(call[r].email, target) # {}, "already_exists")

\* Mutant: without the unique index.
InviteUnchecked(r) ==
  LET target == TargetOrg(who[r], call[r].orgId) IN
  /\ At(r, "write", "invite")
  /\ users' = [users EXCEPT ![r] = [org |-> target, email |-> call[r].email, role |-> call[r].role]]
  /\ UNCHANGED <<orgs, owned, projects, envs, members, tokens>>
  /\ Goto(r, "audit")

\* After the password hash; the e-mail is unique in an organization.
Invite(r) ==
  LET target == TargetOrg(who[r], call[r].orgId) IN
  /\ At(r, "write", "invite")
  /\ IF UserIn(call[r].email, target) # {} THEN Refused(r)
     ELSE /\ users' = [users EXCEPT ![r] = [org |-> target, email |-> call[r].email, role |-> call[r].role]]
          /\ UNCHANGED <<orgs, owned, projects, envs, members, tokens>>
          /\ Goto(r, "audit")

\* What both handlers that change a user refuse.
TargetCheck(r) ==
  LET u == call[r].user IN
  /\ pc[r] = "check"
  /\ call[r].op \in {"user.role", "user.remove"}
  /\ IF u = who[r].id THEN Check(r, TRUE, "denied")
     ELSE IF u \notin Existing(users) \/ users[u].org # who[r].org THEN Check(r, TRUE, "not_found")
     ELSE Check(r, users[u].role = "owner", "denied")

\* Both statements say which user, and in which organization: none is there
\* to change when he has been removed meanwhile.
ChangeUserRole(r) ==
  LET u == call[r].user IN
  /\ At(r, "write", "user.role")
  /\ users' = IF u \in Existing(users) THEN [users EXCEPT ![u].role = call[r].role] ELSE users
  /\ UNCHANGED <<orgs, owned, projects, envs, members, tokens>>
  /\ Goto(r, "audit")

\* A user who created a secret, or granted a membership that outlives his
\* own, is still referred to; all else that is his goes with him.
StillReferred(u) == u \in Authors \/ \E m \in members : m.by = u /\ m.user # u

RemoveUser(r) ==
  LET u == call[r].user IN
  /\ At(r, "write", "user.remove")
  /\ IF StillReferred(u) THEN Refused(r)
     ELSE /\ users' = [users EXCEPT ![u] = Null]
          /\ owned' = {p \in owned : p[1] # u}
          /\ members' = {m \in members : m.user # u}
          /\ tokens' = [t \in TokenIds |-> IF t \in Existing(tokens) /\ tokens[t].user = u
                                           THEN Null ELSE tokens[t]]
          /\ UNCHANGED <<orgs, projects, envs>>
          /\ Goto(r, "audit")

(***************************************************************************)
(* Projects and environments                                               *)
(***************************************************************************)
CreateProjectCheck(r) ==
  /\ At(r, "check", "project.create")
  /\ Check(r, NameTaken(call[r].name, who[r].org), "already_exists")

\* After the key has been drawn and wrapped.  A name stays taken by a
\* project that was deleted.
CreateProject(r) ==
  /\ At(r, "write", "project.create")
  /\ IF NameTaken(call[r].name, who[r].org) THEN Refused(r)
     ELSE /\ projects' = [projects EXCEPT ![r] = [org |-> who[r].org, name |-> call[r].name, deleted |-> FALSE]]
          /\ envs' = envs \cup {<<r, "dev">>}
          /\ UNCHANGED <<orgs, users, owned, members, tokens>>
          /\ Goto(r, "audit")

\* Handlers below a project first look whether the active organization has
\* it; the body is read after that.
ProjectCheck(r) ==
  /\ pc[r] = "check"
  /\ call[r].op \in ByLead \cup {"project.delete"}
  /\ UNCHANGED tables
  /\ IF ~ProjectInOrg(call[r].project, who[r].org) THEN Answer(r, "not_found")
     ELSE Goto(r, IF call[r].op \in {"env.add", "member.add"} THEN "look" ELSE "write")

EnvironmentCheck(r) ==
  /\ At(r, "look", "env.add")
  /\ Check(r, <<call[r].project, call[r].name>> \in envs, "already_exists")

AddEnvironment(r) ==
  LET e == <<call[r].project, call[r].name>> IN
  /\ At(r, "write", "env.add")
  /\ IF e \in envs THEN Refused(r)
     ELSE /\ envs' = envs \cup {e}
          /\ UNCHANGED <<orgs, users, owned, projects, members, tokens>>
          /\ Goto(r, "audit")

DeleteProject(r) ==
  /\ At(r, "write", "project.delete")
  /\ projects' = [projects EXCEPT ![call[r].project].deleted = TRUE]
  /\ UNCHANGED <<orgs, users, owned, envs, members, tokens>>
  /\ Goto(r, "audit")

(***************************************************************************)
(* Members of a project                                                    *)
(***************************************************************************)
Membership(u, p) == {m \in members : m.user = u /\ m.project = p}
Row(r, u) == [user |-> u, project |-> call[r].project, role |-> call[r].role, by |-> who[r].id]

ChangeMembers(r, rows, event, u) ==
  /\ members' = rows
  /\ UNCHANGED <<orgs, users, owned, projects, envs, tokens>>
  /\ GotoWith(r, "audit", [event |-> event, user |-> u])

\* The user is looked up by his e-mail, in the active organization.
FindTarget(r) ==
  LET us == UserIn(call[r].email, who[r].org) IN
  /\ At(r, "look", "member.add")
  /\ UNCHANGED tables
  /\ IF us = {} THEN Answer(r, "not_found") ELSE GotoWith(r, "find", CHOOSE u \in us : TRUE)

FindMembership(r) ==
  /\ At(r, "find", "member.add")
  /\ Goto(r, IF Membership(found[r], call[r].project) = {} THEN "insert" ELSE "update")
  /\ UNCHANGED tables

\* granted_by refers to the caller, who may have been removed meanwhile.
InsertMember(r) ==
  LET u == found[r] IN
  /\ At(r, "insert", "member.add")
  /\ IF Membership(u, call[r].project) # {} \/ {u, who[r].id} \cap Existing(users) # {u, who[r].id}
     THEN Refused(r)
     ELSE ChangeMembers(r, members \cup {Row(r, u)}, "member.added", u)

\* An update of no row is not noticed by POST.
UpdateMember(r) ==
  LET rows == Membership(found[r], call[r].project) IN
  /\ At(r, "update", "member.add")
  /\ IF rows # {} /\ who[r].id \notin Existing(users) THEN Refused(r)
     ELSE ChangeMembers(r, (members \ rows) \cup {Row(r, m.user) : m \in rows}, "member.role_changed", found[r])

\* PATCH and DELETE look at the rows that their statement changed.
PatchMember(r) ==
  LET rows == Membership(call[r].user, call[r].project) IN
  /\ At(r, "write", "member.patch")
  /\ IF rows = {} THEN Check(r, TRUE, "not_found")
     ELSE IF who[r].id \notin Existing(users) THEN Refused(r)
     ELSE ChangeMembers(r, (members \ rows) \cup {Row(r, m.user) : m \in rows}, "member.role_changed", call[r].user)

RemoveMember(r) ==
  LET rows == Membership(call[r].user, call[r].project) IN
  /\ At(r, "write", "member.remove")
  /\ IF rows = {} THEN Check(r, TRUE, "not_found")
     ELSE ChangeMembers(r, members \ rows, "member.removed", call[r].user)

(***************************************************************************)
(* CLI tokens                                                              *)
(***************************************************************************)
IssueCliToken(r) ==
  /\ At(r, "check", "token.create")
  /\ IF who[r].id \notin Existing(users) THEN Refused(r)
     ELSE /\ tokens' = [tokens EXCEPT ![r] = [user |-> who[r].id, revoked |-> FALSE]]
          /\ UNCHANGED <<orgs, users, owned, projects, envs, members>>
          /\ Goto(r, "audit")

OwnToken(r) == call[r].token \in Existing(tokens) /\ tokens[call[r].token].user = who[r].id

RevokeCheck(r) ==
  /\ At(r, "check", "token.revoke")
  /\ Check(r, ~OwnToken(r), "not_found")

\* Mutant: the statement does not ask that the token is not revoked.
RevokeCliTokenAgain(r) ==
  /\ At(r, "write", "token.revoke")
  /\ IF ~OwnToken(r) THEN Check(r, TRUE, "not_found")
     ELSE /\ tokens' = [tokens EXCEPT ![call[r].token].revoked = TRUE]
          /\ UNCHANGED <<orgs, users, owned, projects, envs, members>>
          /\ Goto(r, "audit")

\* The statement changes a token that is not revoked, and tells whether it
\* did.
RevokeCliToken(r) ==
  /\ At(r, "write", "token.revoke")
  /\ IF ~OwnToken(r) \/ tokens[call[r].token].revoked THEN Check(r, TRUE, "not_found")
     ELSE /\ tokens' = [tokens EXCEPT ![call[r].token].revoked = TRUE]
          /\ UNCHANGED <<orgs, users, owned, projects, envs, members>>
          /\ Goto(r, "audit")

(***************************************************************************)
(* The process dies: what was committed stays, the requests are lost.      *)
(***************************************************************************)
Crash ==
  /\ crashes < MaxCrashes
  /\ crashes' = crashes + 1
  /\ LET cut == {r \in Requests : pc[r] \notin {"idle", "done"}} IN
     /\ pc' = [r \in Requests |-> IF r \in cut THEN "lost" ELSE pc[r]]
     /\ who' = [r \in Requests |-> Nobody]
     /\ found' = [r \in Requests |-> Null]
     /\ held' = [r \in Requests |-> {}]
  /\ UNCHANGED <<tables, audit, call, answer>>

Handle(r) ==
  \/ \E c \in Calls : Arrive(r, c)
  \/ ValidateCliToken(r) \/ LoadUser(r) \/ LoadOrgs(r) \/ LoadMemberships(r)
  \/ ListProjects(r) \/ Whoami(r) \/ ListOrgs(r) \/ ListUsers(r) \/ ListCliTokens(r)
  \/ FindProject(r) \/ GetProject(r) \/ ListMembers(r)
  \/ RegisterCheck(r) \/ Register(r) \/ CreateOrg(r) \/ RenameOrg(r)
  \/ InviteCheck(r) \/ Invite(r)
  \/ TargetCheck(r) \/ ChangeUserRole(r) \/ RemoveUser(r)
  \/ CreateProjectCheck(r) \/ CreateProject(r) \/ ProjectCheck(r)
  \/ EnvironmentCheck(r) \/ AddEnvironment(r) \/ DeleteProject(r)
  \/ FindTarget(r) \/ FindMembership(r) \/ InsertMember(r) \/ UpdateMember(r)
  \/ PatchMember(r) \/ RemoveMember(r)
  \/ IssueCliToken(r) \/ RevokeCheck(r) \/ RevokeCliToken(r)
  \/ AppendAudit(r)

Next == (\E r \in Requests : Handle(r)) \/ Crash

Spec == Init /\ [][Next]_vars

(***************************************************************************)
(* Properties                                                              *)
(***************************************************************************)
TypeOK ==
  /\ DOMAIN orgs = OrgIds
  /\ \A u \in Existing(users) : users[u].org \in Existing(orgs) /\ users[u].role \in Roles
  /\ owned \subseteq Existing(users) \X Existing(orgs)
  /\ \A p \in Existing(projects) : projects[p].org \in Existing(orgs) /\ projects[p].deleted \in BOOLEAN
  /\ {e[1] : e \in envs} \subseteq Existing(projects)
  /\ \A m \in members : /\ {m.user, m.by} \subseteq Existing(users)
                        /\ m.project \in Existing(projects)
                        /\ m.role \in {"lead", "developer", "reader"}
  /\ \A t \in Existing(tokens) : tokens[t].user \in Existing(users)
  /\ \A e \in audit : e.by \in Requests
  /\ \A r \in Requests : pc[r] \in {"idle", "token", "row", "orgs", "members", "check", "look", "find",
                                    "list", "insert", "update", "write", "audit", "done", "lost"}

\* The tables are consistent whatever overlaps: references exist (TypeOK),
\* an e-mail names one user of an organization and a name one project of it,
\* a user is at most once a member of a project and only of a project of his
\* own organization, and the owner of an organization stays its owner (the
\* handlers of routes/users.ts neither remove nor demote him).
TablesConsistent ==
  /\ TypeOK
  /\ \A u, v \in Existing(users) :
       users[u].email = users[v].email /\ users[u].org = users[v].org => u = v
  /\ \A p, q \in Existing(projects) :
       projects[p].name = projects[q].name /\ projects[p].org = projects[q].org => p = q
  /\ \A m, n \in members : m.user = n.user /\ m.project = n.project => m = n
  /\ \A m \in members : users[m.user].org = projects[m.project].org
  /\ \A u \in DOMAIN Users0 : Users0[u].role = "owner" => users[u] # Null /\ users[u].role = "owner"

\* The audit log accounts for the tables.  Once nothing is in flight and
\* nothing was cut short, what exists is what existed or is told to have
\* been made, less what is told to have been removed: users, members,
\* projects, environments and CLI tokens, where each revocation and each
\* removal of a member is told once although requests for it overlap.
Settled == crashes = 0 /\ \A r \in Requests : pc[r] \in {"idle", "done"}
Told(event) == {e \in audit : e.event = event}
TellersOf(event) == {e.by : e \in Told(event)}

Revoked0 == {t \in DOMAIN Tokens0 : Tokens0[t].revoked}

AuditAccountsForTables ==
  Settled =>
    /\ Existing(users) =
         (DOMAIN Users0 \cup TellersOf("register") \cup TellersOf("invite"))
         \ {call[r].user : r \in TellersOf("user.remove")}
    /\ Existing(orgs) = DOMAIN Orgs0 \cup TellersOf("register") \cup TellersOf("org.create")
    /\ Existing(projects) = DOMAIN Projects0 \cup TellersOf("project.create")
    /\ {p \in Existing(projects) : projects[p].deleted} =
         {p \in DOMAIN Projects0 : Projects0[p].deleted}
         \cup {call[r].project : r \in TellersOf("project.delete")}
    /\ envs = {<<p, "dev">> : p \in Existing(projects)}
              \cup {<<call[r].project, call[r].name>> : r \in TellersOf("env.add")}
    /\ \A u \in Existing(users), p \in Existing(projects) :
         LET About(e) == e.user = u /\ call[e.by].project = p IN
         Cardinality(Membership(u, p)) + Cardinality({e \in Told("member.removed") : About(e)}) =
         Cardinality({m \in Members0 : m.user = u /\ m.project = p})
         + Cardinality({e \in Told("member.added") : About(e)})
    /\ \A t \in Existing(tokens) :
         Cardinality({e \in Told("token.revoke") : call[e.by].token = t}) =
         IF tokens[t].revoked /\ t \notin Revoked0 THEN 1 ELSE 0

\* Nothing changes and nothing is shown without a right: a request changes rows
\* of an organization only if its caller has been owner or admin there at some
\* moment since it arrived (or is when it answers), or lead of the project whose
\* environments or members it changes; it changes no CLI token but the caller's
\* own; and what it lists is his own or of an organization or a project of his.
\* So a user who has been removed, or demoted, or whose CLI token was revoked,
\* gets nothing from a request that arrives later.
Changed(table) == {i \in DOMAIN table : table[i] # table'[i]}
Rights(r) == held[r] \cup RightsOf(who[r].id)
Administers(r, o) == {<<o, "owner">>, <<o, "admin">>} \cap Rights(r) # {}
Leads(r, p) == <<p, "lead">> \in Rights(r) \/ Administers(r, projects[p].org)
Scopes(r) == {s[1] : s \in Rights(r)}
MaySee(r, x) ==
  \/ x \in Scopes(r)
  \/ x \in Existing(projects) /\ Administers(r, projects[x].org)
  \/ x \in Existing(users) /\ (users[x].org \in Scopes(r) \/ \E m \in RolesOf(x) : m.project \in Scopes(r))
  \/ x \in Existing(tokens) /\ tokens[x].user = who[r].id
  \/ x \in envs /\ (x[1] \in Scopes(r) \/ Administers(r, projects[x[1]].org))

RightfulStep(r) ==
  LET gone == {u \in Existing(users) : users'[u] = Null}
      mine(t) == tokens[t] # Null /\ (tokens[t].user \in gone \/ tokens[t].user = who[r].id) IN
  /\ \A o \in Changed(orgs) \cap Existing(orgs) : Administers(r, o)
  /\ \A u \in Changed(users) : LET row == IF users[u] = Null THEN users'[u] ELSE users[u] IN
                               Administers(r, row.org) \/ orgs[row.org] = Null
  /\ \A p \in Changed(projects) : LET row == IF projects[p] = Null THEN projects'[p] ELSE projects[p] IN
                                  Administers(r, row.org)
  /\ \A e \in envs' \ envs : projects[e[1]] = Null \/ Leads(r, e[1])
  /\ \A m \in (members' \ members) \cup (members \ members') : m.user \in gone \/ Leads(r, m.project)
  /\ \A t \in Changed(tokens) \cap Existing(tokens) : mine(t)
  /\ \A x \in answer'[r].shown : MaySee(r, x)

OnlyByRight == [][\A r \in Requests : pc'[r] \notin {pc[r], "lost"} => RightfulStep(r)]_vars
=============================================================================
