--------------------------- MODULE AccountsProofs ---------------------------
(***************************************************************************)
(* Theorems about Accounts for any requests, calls and initial tables that *)
(* meet its assumptions.                                                   *)
(*                                                                         *)
(* A handler decides on what it has read and writes awaits later, so the   *)
(* invariant says what its reads are still worth when it writes            *)
(* (Positions): organizations and projects are never removed and neither   *)
(* they nor users ever move to another organization, an id that has been   *)
(* removed is never drawn again, and the role with which the caller was    *)
(* allowed to go on is among the rights he has had since his request       *)
(* arrived (`held`).                                                       *)
(*                                                                         *)
(* That the audit log accounts for the tables is proved of Log, the events *)
(* that are told or owed: a write changes a table and what is owed in one  *)
(* step, and the step that pays an event changes neither (Balanced).       *)
(***************************************************************************)
EXTENDS Accounts, FiniteSetTheorems, TLAPS

MemberRoles == {"lead", "developer", "reader"}

\* What a call may name as its bearer, and so a request as its caller
Anyone == {c.by : c \in Calls} \cup UserIds \cup {Null}

Callers == [id: Anyone, org: OrgIds \cup {Null}, role: Roles \cup {Null}, orgs: SUBSET OrgIds,
            projects: SUBSET [project: ProjectIds, role: MemberRoles]]

RightsSet == (OrgIds \cup ProjectIds) \X (Roles \cup MemberRoles)

Types ==
  /\ orgs \in [OrgIds -> KnownNames \cup {Null}]
  /\ users \in [UserIds -> UserRows \cup {Null}]
  /\ owned \subseteq UserIds \X OrgIds
  /\ projects \in [ProjectIds -> ProjectRows \cup {Null}]
  /\ envs \subseteq ProjectIds \X (KnownNames \cup {"dev"})
  /\ members \subseteq MemberRows
  /\ tokens \in [TokenIds -> TokenRows \cup {Null}]

Labels == {"idle", "token", "row", "orgs", "members", "check", "look", "find", "list",
           "insert", "update", "write", "audit", "done", "lost"}

Locals ==
  /\ pc \in [Requests -> Labels]
  /\ call \in [Requests -> Calls \cup {Blank}]
  /\ who \in [Requests -> Callers]
  /\ held \in [Requests -> SUBSET RightsSet]
  /\ DOMAIN found = Requests /\ found = [r \in Requests |-> found[r]]
  /\ DOMAIN answer = Requests /\ answer = [r \in Requests |-> answer[r]]

\* Rows refer to rows, and the requests that have not written own no id.
References ==
  /\ \A u \in UserIds : users[u] # Null => orgs[users[u].org] # Null
  /\ \A x \in owned : users[x[1]] # Null /\ orgs[x[2]] # Null
  /\ \A p \in ProjectIds : projects[p] # Null => orgs[projects[p].org] # Null
  /\ \A e \in envs : projects[e[1]] # Null
  /\ \A m \in members : /\ users[m.user] # Null /\ users[m.by] # Null /\ projects[m.project] # Null
                        /\ users[m.user].org = projects[m.project].org
  /\ \A t \in TokenIds : tokens[t] # Null => users[tokens[t].user] # Null

Uniques ==
  /\ \A u, v \in UserIds :
       users[u] # Null /\ users[v] # Null /\ users[u].email = users[v].email
         /\ users[u].org = users[v].org => u = v
  /\ \A p, q \in ProjectIds :
       projects[p] # Null /\ projects[q] # Null /\ projects[p].name = projects[q].name
         /\ projects[p].org = projects[q].org => p = q
  /\ \A m, n \in members : m.user = n.user /\ m.project = n.project => m = n

OwnersStay ==
  \A u \in DOMAIN Users0 : Users0[u].role = "owner" => users[u] # Null /\ users[u].role = "owner"

\* The id of a request has been drawn once it owes its audit event.
Written == {"audit", "done", "lost"}

Fresh(r) ==
  pc[r] \notin Written =>
    orgs[r] = Null /\ users[r] = Null /\ projects[r] = Null /\ tokens[r] = Null

\* A user who was there: he still is, or his id is spent.
Known(u) == u \in UserIds /\ (u \in Requests => pc[u] \in Written)

InOrg(u, o) == Known(u) /\ (users[u] # Null => users[u].org = o)

HasProject(p, o) == p \in ProjectIds /\ projects[p] # Null /\ projects[p].org = o

Writing == {"check", "look", "find", "list", "insert", "update", "write"}

\* What a request has read of its caller, and the rights he has had
CallerOK(r) ==
  LET w == who[r] IN
  /\ pc[r] # "idle" => call[r] \in Calls
  /\ pc[r] \in {"token", "row", "orgs", "members"} => call[r].op # "register"
  /\ pc[r] \in {"orgs", "members"} \cup Writing /\ call[r].op # "register" =>
       /\ w.org \in OrgIds /\ orgs[w.org] # Null
       /\ w.role \in Roles /\ <<w.org, w.role>> \in held[r]
  /\ pc[r] \in {"members"} \cup Writing /\ call[r].op # "register" =>
       \A o \in w.orgs : /\ orgs[o] # Null /\ \E role \in Roles : <<o, role>> \in held[r]
                         /\ <<w.id, o>> \in owned => <<o, "owner">> \in held[r]
  /\ pc[r] \in Writing /\ call[r].op # "register" =>
       /\ Authorize(w, call[r])
       /\ \A m \in w.projects : <<m.project, m.role>> \in held[r]

\* What it has read of the rows it is about to change
TargetOK(r) ==
  LET w == who[r]
      c == call[r] IN
  /\ pc[r] = "list" => c.op \in ByMember
  /\ pc[r] = "look" => c.op \in {"env.add", "member.add"}
  /\ pc[r] \in {"find", "insert", "update"} => c.op = "member.add" /\ InOrg(found[r], w.org)
  /\ \/ pc[r] \in {"list", "look", "find", "insert", "update"}
     \/ pc[r] = "write" /\ c.op \in ByLead \cup {"project.delete"}
     => HasProject(c.project, w.org)
  /\ pc[r] = "write" /\ c.op \in {"user.role", "user.remove"} =>
       /\ InOrg(c.user, w.org)
       /\ c.user \in DOMAIN Users0 => Users0[c.user].role # "owner"
  /\ pc[r] = "write" /\ c.op = "invite" =>
       LET o == TargetOrg(w, c.orgId) IN
       /\ o \in OrgIds /\ orgs[o] # Null
       /\ o = w.org \/ <<o, "owner">> \in held[r]

Unanswered(r) == pc[r] # "done" => answer[r] = None

Positions ==
  \A r \in Requests : Fresh(r) /\ CallerOK(r) /\ TargetOK(r) /\ Unanswered(r)

\* The audit events name requests.
Named == \A e \in audit : e.by \in Requests

IInv == Types /\ Locals /\ References /\ Uniques /\ OwnersStay /\ Positions /\ Named

----------------------------------------------------------------------------
(* What the steps that handlers share do to their local variables *)

\* A step of r leaves the local variables of the others alone.
Frame(r) ==
  \A q \in Requests \ {r} :
    /\ pc'[q] = pc[q] /\ call'[q] = call[q] /\ who'[q] = who[q]
    /\ found'[q] = found[q] /\ held'[q] = held[q] /\ answer'[q] = answer[q]

\* r has returned and lists these rows.
Left(r, shown) ==
  /\ pc'[r] = "done" /\ call'[r] = call[r] /\ answer'[r].shown = shown

\* r goes on with what it knows, or knows of a row now, or of its caller.
Went(r, where) ==
  /\ pc'[r] = where /\ call'[r] = call[r] /\ who'[r] = who[r] /\ held'[r] = held[r]
  /\ answer'[r] = answer[r]

Learnt(r, w, where) ==
  /\ pc'[r] = where /\ call'[r] = call[r] /\ who'[r] = w /\ answer'[r] = answer[r]

\* A handler that returns
LEMMA Leaves ==
  ASSUME Locals, NEW r \in Requests, NEW code, NEW shown, Leave(r, code, shown)
  PROVE  Locals' /\ Frame(r) /\ Left(r, shown)
<1>1. Nobody \in Callers
  BY DEF Nobody, Callers, Anyone
<1>2. Locals'
  BY <1>1 DEF Leave, Locals, Labels
<1>3. Frame(r)
  BY DEF Leave, Locals, Frame
<1>4. Left(r, shown)
  BY DEF Leave, Locals, Left
<1> QED
  BY <1>2, <1>3, <1>4

\* A handler that goes on
LEMMA Goes ==
  ASSUME Locals, NEW r \in Requests, NEW where \in Labels, Goto(r, where)
  PROVE  Locals' /\ Frame(r) /\ Went(r, where) /\ found'[r] = found[r]
<1>1. Locals'
  BY DEF Goto, Locals, local
<1>2. Frame(r)
  BY DEF Goto, Locals, Frame, local
<1>3. Went(r, where) /\ found'[r] = found[r]
  BY DEF Goto, Locals, Went, local
<1> QED
  BY <1>1, <1>2, <1>3

\* A handler that goes on with what it has found
LEMMA GoesWith ==
  ASSUME Locals, NEW r \in Requests, NEW where \in Labels, NEW f, GotoWith(r, where, f)
  PROVE  Locals' /\ Frame(r) /\ Went(r, where) /\ found'[r] = f
<1>1. Locals'
  BY DEF GotoWith, Locals
<1>2. Frame(r)
  BY DEF GotoWith, Locals, Frame
<1>3. Went(r, where) /\ found'[r] = f
  BY DEF GotoWith, Locals, Went
<1> QED
  BY <1>1, <1>2, <1>3

\* The rights that the tables give are rights in organizations and projects.
LEMMA RightsTyped ==
  ASSUME Types, NEW u PROVE RightsOf(u) \subseteq RightsSet
<1>1. CASE u \in Existing(users)
  <2>1. u \in UserIds /\ users[u] \in UserRows
    BY <1>1 DEF Types, Existing
  <2>2. <<users[u].org, users[u].role>> \in RightsSet
    BY <2>1 DEF UserRows, RightsSet
  <2>3. \A p \in owned : <<p[2], "owner">> \in RightsSet
    BY DEF Types, RightsSet, Roles
  <2>4. \A m \in RolesOf(u) : <<m.project, m.role>> \in RightsSet
    BY DEF Types, RolesOf, MemberRows, RightsSet, MemberRoles
  <2> QED
    BY <2>2, <2>3, <2>4 DEF RightsOf
<1>2. CASE u \notin Existing(users)
  BY <1>2 DEF RightsOf
<1> QED
  BY <1>1, <1>2

\* An authentication that has read something of its caller
LEMMA Loads ==
  ASSUME Types, Locals, NEW r \in Requests, NEW where \in Labels, NEW w \in Callers,
         Load(r, w, where)
  PROVE  /\ Locals' /\ Frame(r) /\ Learnt(r, w, where) /\ UNCHANGED tables
         /\ held'[r] = held[r] \cup RightsOf(w.id)
<1>1. RightsOf(w.id) \subseteq RightsSet
  BY RightsTyped
<1>2. held'[r] = held[r] \cup RightsOf(w.id)
  BY DEF Load, Locals
<1>3. Locals'
  <2>1. held' \in [Requests -> SUBSET RightsSet]
    BY <1>1 DEF Load, Locals
  <2> QED
    BY <2>1 DEF Load, Locals
<1>4. Frame(r)
  BY DEF Load, Locals, Frame
<1>5. Learnt(r, w, where)
  BY DEF Load, Locals, Learnt
<1>6. UNCHANGED tables
  BY DEF Load
<1> QED
  BY <1>2, <1>3, <1>4, <1>5, <1>6

----------------------------------------------------------------------------
(* Steps that leave the tables alone *)

\* What a step of r owes the invariant and the property
Fine(r) ==
  /\ Locals' /\ Frame(r)
  /\ Fresh(r)' /\ CallerOK(r)' /\ TargetOK(r)' /\ Unanswered(r)'
  /\ RightfulStep(r)

\* Where nothing changes, only what is shown needs a right.
LEMMA NothingChanged ==
  ASSUME NEW r \in Requests, UNCHANGED tables, \A x \in answer'[r].shown : MaySee(r, x)
  PROVE  RightfulStep(r)
<1>1. /\ Changed(orgs) = {} /\ Changed(users) = {} /\ Changed(projects) = {}
      /\ Changed(tokens) = {}
  BY DEF Changed, tables
<1>2. envs' \ envs = {} /\ members' \ members = {} /\ members \ members' = {}
  BY DEF tables
<1> QED
  BY <1>1, <1>2 DEF RightfulStep

\* A refusal, or a list that the caller may see
LEMMA FineLeft ==
  ASSUME IInv, NEW r \in Requests, pc[r] # "idle", UNCHANGED tables,
         NEW code, NEW shown, Leave(r, code, shown), \A x \in shown : MaySee(r, x)
  PROVE  Fine(r)
<1>1. Locals' /\ Frame(r) /\ Left(r, shown)
  BY Leaves DEF IInv
<1>2. RightfulStep(r)
  BY <1>1, NothingChanged DEF Left
<1>3. Fresh(r)' /\ CallerOK(r)' /\ TargetOK(r)' /\ Unanswered(r)'
  BY <1>1 DEF IInv, Positions, Fresh, Written, CallerOK, TargetOK, Unanswered, Left, Writing
<1> QED
  BY <1>1, <1>2, <1>3 DEF Fine

\* A refusal
LEMMA FineRefusal ==
  ASSUME IInv, NEW r \in Requests, pc[r] # "idle", UNCHANGED tables,
         NEW code, Answer(r, code)
  PROVE  Fine(r)
  BY FineLeft DEF Answer

\* A check that has passed: the handler's next write finds what it must.
LEMMA FineWent ==
  ASSUME IInv, NEW r \in Requests, pc[r] \in Writing, UNCHANGED tables,
         NEW where \in Writing, Locals', Frame(r), Went(r, where), TargetOK(r)'
  PROVE  Fine(r)
<1>1. answer[r] = None /\ pc[r] # "idle"
  BY DEF IInv, Positions, Unanswered, Writing
<1>2. RightfulStep(r)
  BY <1>1, NothingChanged DEF Went, None
<1>3. Fresh(r)'
  BY DEF IInv, Positions, Fresh, Written, Writing, Went, tables
<1>4. Unanswered(r)'
  BY <1>1 DEF Unanswered, Went
<1>5. CallerOK(r)'
  BY <1>1 DEF IInv, Positions, CallerOK, Writing, Went, tables, Authorize
<1> QED
  BY <1>2, <1>3, <1>4, <1>5 DEF Fine

\* Check: refused, or on to the write.
LEMMA FineCheck ==
  ASSUME IInv, NEW r \in Requests, pc[r] \in Writing, UNCHANGED tables,
         NEW refused, NEW code, Check(r, refused, code),
         ~refused /\ Goto(r, "write") => TargetOK(r)'
  PROVE  Fine(r)
<1>1. pc[r] # "idle"
  BY DEF Writing
<1>2. CASE refused
  BY <1>1, <1>2, FineRefusal DEF Check
<1>3. CASE ~refused
  <2>1. Goto(r, "write") /\ "write" \in Labels /\ "write" \in Writing
    BY <1>3 DEF Check, Labels, Writing
  <2>2. Locals' /\ Frame(r) /\ Went(r, "write")
    BY <2>1, Goes DEF IInv
  <2> QED
    BY <1>3, <2>1, <2>2, FineWent
<1> QED
  BY <1>2, <1>3

----------------------------------------------------------------------------
(* What the caller of a handler may do *)

\* A caller whose role in the active organization is owner or admin
LEMMA CallerAdministers ==
  ASSUME IInv, NEW r \in Requests, pc[r] \in Writing, call[r].op # "register",
         who[r].role \in Admins
  PROVE  Administers(r, who[r].org)
<1>1. <<who[r].org, who[r].role>> \in held[r]
  BY DEF IInv, Positions, CallerOK
<1> QED
  BY <1>1 DEF Administers, Rights, Admins

\* The handlers that only an owner or an admin of the organization reaches
LEMMA OrgLevelAdministers ==
  ASSUME IInv, NEW r \in Requests, pc[r] \in Writing, call[r].op \in OrgLevel
  PROVE  Administers(r, who[r].org)
<1>1. call[r].op # "register"
  BY DEF OrgLevel
<1>2. who[r].role \in Admins
  BY <1>1 DEF IInv, Positions, CallerOK, Authorize
<1> QED
  BY <1>1, <1>2, CallerAdministers

\* The handlers that a lead of the project reaches too
LEMMA ByLeadLeads ==
  ASSUME IInv, NEW r \in Requests, pc[r] \in Writing, call[r].op \in ByLead,
         HasProject(call[r].project, who[r].org)
  PROVE  Leads(r, call[r].project)
<1>1. call[r].op # "register"
  BY DEF ByLead
<1>2. CASE who[r].role \in Admins
  BY <1>1, <1>2, CallerAdministers DEF Leads, HasProject
<1>3. CASE who[r].role \notin Admins
  <2>1. Authorize(who[r], call[r]) /\ \A m \in who[r].projects : <<m.project, m.role>> \in held[r]
    BY <1>1 DEF IInv, Positions, CallerOK
  <2>2. call[r].op \notin ByMember
    BY DEF ByLead, ByMember
  <2>3. PICK m \in who[r].projects : m.project = call[r].project /\ m.role = "lead"
    BY <1>3, <2>1, <2>2 DEF Authorize
  <2> QED
    BY <2>1, <2>3 DEF Leads, Rights
<1> QED
  BY <1>2, <1>3

\* The handlers that every member of the project reaches
LEMMA ByMemberSees ==
  ASSUME IInv, NEW r \in Requests, pc[r] \in Writing, call[r].op \in ByMember
  PROVE  call[r].project \in Scopes(r) \/ Administers(r, who[r].org)
<1>1. call[r].op # "register"
  BY DEF ByMember
<1>2. CASE who[r].role \in Admins
  BY <1>1, <1>2, CallerAdministers
<1>3. CASE who[r].role \notin Admins
  <2>1. Authorize(who[r], call[r]) /\ \A m \in who[r].projects : <<m.project, m.role>> \in held[r]
    BY <1>1 DEF IInv, Positions, CallerOK
  <2>2. PICK m \in who[r].projects : m.project = call[r].project
    BY <1>3, <2>1 DEF Authorize
  <2>3. <<m.project, m.role>>[1] = call[r].project /\ <<m.project, m.role>> \in Rights(r)
    BY <2>1, <2>2 DEF Rights
  <2> QED
    BY <2>3 DEF Scopes
<1> QED
  BY <1>2, <1>3

\* The active organization, the caller's other ones and his projects are in
\* the scope of his rights.
LEMMA CallerScopes ==
  ASSUME IInv, NEW r \in Requests, pc[r] \in Writing, call[r].op # "register"
  PROVE  {who[r].org} \cup who[r].orgs \cup Mine(who[r]) \subseteq Scopes(r)
<1>1. /\ <<who[r].org, who[r].role>> \in held[r]
      /\ \A o \in who[r].orgs : \E role \in Roles : <<o, role>> \in held[r]
      /\ \A m \in who[r].projects : <<m.project, m.role>> \in held[r]
  <2>1. pc[r] \in {"members"} \cup Writing /\ pc[r] \in {"orgs", "members"} \cup Writing
    OBVIOUS
  <2> QED
    BY <2>1 DEF IInv, Positions, CallerOK
<1>2. \A a, b : <<a, b>> \in held[r] => a \in Scopes(r)
  <2>1. \A a, b : <<a, b>>[1] = a
    OBVIOUS
  <2> QED
    BY <2>1 DEF Scopes, Rights
<1> QED
  BY <1>1, <1>2 DEF Mine

----------------------------------------------------------------------------
(* Lists *)

\* An owner or admin is shown the projects of his organization, others their own.
LEMMA ListProjectsFine ==
  ASSUME IInv, NEW r \in Requests, ListProjects(r) PROVE Fine(r)
<1>1. /\ pc[r] \in Writing /\ pc[r] # "idle" /\ call[r].op # "register"
      /\ UNCHANGED tables
      /\ \/ Leave(r, "internal_error", {})
         \/ Leave(r, "ok", ListedProjects(who[r], call[r].op))
  BY DEF ListProjects, Writing, Show, Refused, Answer
<1>2. Mine(who[r]) \subseteq Scopes(r)
  BY <1>1, CallerScopes
<1>3. ASSUME NEW x \in ListedProjects(who[r], call[r].op) PROVE MaySee(r, x)
  <2>1. CASE who[r].role \in Admins
    BY <1>1, <1>3, <2>1, CallerAdministers DEF ListedProjects, Live, ProjectInOrg, MaySee
  <2>2. CASE who[r].role \notin Admins
    BY <1>2, <1>3, <2>2 DEF ListedProjects, MaySee
  <2> QED
    BY <2>1, <2>2
<1>4. CASE Leave(r, "internal_error", {})
  BY <1>1, <1>4, FineLeft
<1>5. CASE Leave(r, "ok", ListedProjects(who[r], call[r].op))
  BY <1>1, <1>3, <1>5, FineLeft
<1> QED
  BY <1>1, <1>4, <1>5

\* The caller is shown his own organizations and projects, those included that
\* he has made since his rights were last loaded.
LEMMA WhoamiFine ==
  ASSUME IInv, NEW r \in Requests, Whoami(r) PROVE Fine(r)
<1> DEFINE mine == {p[2] : p \in {q \in owned : q[1] = who[r].id}}
<1>1. /\ pc[r] \in Writing /\ pc[r] # "idle" /\ call[r].op # "register"
      /\ Leave(r, "ok", {who[r].org} \cup mine \cup Mine(who[r])) /\ UNCHANGED tables
  BY DEF Whoami, At, Writing, Show
<1>2. {who[r].org} \cup Mine(who[r]) \subseteq Scopes(r)
  BY <1>1, CallerScopes
<1>3. mine \subseteq Scopes(r)
  <2>1. SUFFICES ASSUME NEW q \in owned, q[1] = who[r].id PROVE q[2] \in Scopes(r)
    OBVIOUS
  <2>2. who[r].id \in Existing(users)
    BY <2>1 DEF IInv, References, Types, Existing
  <2>3. <<q[2], "owner">> \in Rights(r)
    BY <2>1, <2>2 DEF Rights, RightsOf
  <2>4. <<q[2], "owner">>[1] = q[2]
    OBVIOUS
  <2> QED
    BY <2>3, <2>4 DEF Scopes
<1>4. \A x \in {who[r].org} \cup mine \cup Mine(who[r]) : MaySee(r, x)
  BY <1>2, <1>3 DEF MaySee
<1> QED
  BY <1>1, <1>4, FineLeft

\* The organizations that the authentication has found him in
LEMMA ListOrgsFine ==
  ASSUME IInv, NEW r \in Requests, ListOrgs(r) PROVE Fine(r)
<1>1. /\ pc[r] \in Writing /\ pc[r] # "idle" /\ call[r].op # "register"
      /\ Leave(r, "ok", who[r].orgs) /\ UNCHANGED tables
  BY DEF ListOrgs, At, Writing, Show
<1>2. \A x \in who[r].orgs : MaySee(r, x)
  BY <1>1, CallerScopes DEF MaySee
<1> QED
  BY <1>1, <1>2, FineLeft

\* Only owners and admins of the organization reach this list.
LEMMA ListUsersFine ==
  ASSUME IInv, NEW r \in Requests, ListUsers(r) PROVE Fine(r)
<1> DEFINE shown == {u \in Existing(users) : users[u].org = who[r].org}
<1>1. /\ pc[r] \in Writing /\ pc[r] # "idle" /\ call[r].op # "register"
      /\ Leave(r, "ok", shown) /\ UNCHANGED tables
  BY DEF ListUsers, At, Writing, Show
<1>2. \A x \in shown : MaySee(r, x)
  BY <1>1, CallerScopes DEF MaySee
<1> QED
  BY <1>1, <1>2, FineLeft

\* The statement selects the tokens of the caller.
LEMMA ListCliTokensFine ==
  ASSUME IInv, NEW r \in Requests, ListCliTokens(r) PROVE Fine(r)
<1> DEFINE shown == {t \in Existing(tokens) : tokens[t].user = who[r].id}
<1>1. pc[r] # "idle" /\ Leave(r, "ok", shown) /\ UNCHANGED tables
  BY DEF ListCliTokens, At, Show
<1>2. \A x \in shown : MaySee(r, x)
  BY DEF MaySee
<1> QED
  BY <1>1, <1>2, FineLeft

\* The list that follows is of a project of the active organization.
LEMMA FindProjectFine ==
  ASSUME IInv, NEW r \in Requests, FindProject(r) PROVE Fine(r)
<1>1. pc[r] \in Writing /\ pc[r] # "idle" /\ UNCHANGED tables
  BY DEF FindProject, Writing
<1>2. CASE ProjectInOrg(call[r].project, who[r].org)
  <2>1. Goto(r, "list") /\ "list" \in Labels /\ "list" \in Writing
    BY <1>2 DEF FindProject, Labels, Writing
  <2>2. Locals' /\ Frame(r) /\ Went(r, "list")
    BY <2>1, Goes DEF IInv
  <2>3. HasProject(call[r].project, who[r].org)
    BY <1>2 DEF ProjectInOrg, AnyProject, Existing, HasProject, IInv, Types
  <2>4. TargetOK(r)'
    BY <1>1, <2>2, <2>3 DEF TargetOK, Went, HasProject, tables, FindProject
  <2> QED
    BY <1>1, <2>1, <2>2, <2>4, FineWent
<1>3. CASE ~ProjectInOrg(call[r].project, who[r].org)
  BY <1>1, <1>3, FineRefusal DEF FindProject
<1> QED
  BY <1>2, <1>3

\* The project of a list that goes on is one of the active organization.
LEMMA ListsProject ==
  ASSUME IInv, NEW r \in Requests, pc[r] = "list"
  PROVE  /\ HasProject(call[r].project, who[r].org)
         /\ call[r].project \in Scopes(r) \/ Administers(r, who[r].org)
         /\ who[r].org \in Scopes(r)
<1>1. pc[r] \in Writing /\ call[r].op \in ByMember /\ HasProject(call[r].project, who[r].org)
  BY DEF IInv, Positions, TargetOK, Writing
<1>2. call[r].op # "register"
  BY <1>1 DEF ByMember
<1> QED
  BY <1>1, <1>2, ByMemberSees, CallerScopes

\* The project and its environments
LEMMA GetProjectFine ==
  ASSUME IInv, NEW r \in Requests, GetProject(r) PROVE Fine(r)
<1> DEFINE p == call[r].project
           shown == {p} \cup {e \in envs : e[1] = p}
<1>1. pc[r] = "list" /\ Leave(r, "ok", shown) /\ UNCHANGED tables
  BY DEF GetProject, At, Show
<1>2. p \in Existing(projects) /\ projects[p].org = who[r].org
  BY <1>1, ListsProject DEF HasProject, Existing, IInv, Types
<1>3. p \in Scopes(r) \/ Administers(r, projects[p].org)
  BY <1>1, <1>2, ListsProject
<1>4. MaySee(r, p)
  BY <1>2, <1>3 DEF MaySee
<1>5. \A e \in envs : e[1] = p => MaySee(r, e)
  BY <1>3 DEF MaySee
<1>6. \A x \in shown : MaySee(r, x)
  BY <1>4, <1>5
<1> QED
  BY <1>1, <1>6, FineLeft

\* The members of a project are users of its organization.
LEMMA ListMembersFine ==
  ASSUME IInv, NEW r \in Requests, ListMembers(r) PROVE Fine(r)
<1> DEFINE p == call[r].project
           shown == {p} \cup {m.user : m \in {n \in members : n.project = p}}
<1>1. pc[r] = "list" /\ Leave(r, "ok", shown) /\ UNCHANGED tables
  BY DEF ListMembers, At, Show
<1>2. p \in Existing(projects) /\ projects[p].org = who[r].org
  BY <1>1, ListsProject DEF HasProject, Existing, IInv, Types
<1>3. MaySee(r, p)
  BY <1>1, <1>2, ListsProject DEF MaySee
<1>4. ASSUME NEW m \in members, m.project = p PROVE MaySee(r, m.user)
  <2>1. m.user \in Existing(users) /\ users[m.user].org = who[r].org
    BY <1>2, <1>4 DEF IInv, References, Types, MemberRows, Existing
  <2>2. who[r].org \in Scopes(r)
    BY <1>1, ListsProject
  <2> QED
    BY <2>1, <2>2 DEF MaySee
<1>5. \A x \in shown : MaySee(r, x)
  BY <1>3, <1>4
<1> QED
  BY <1>1, <1>5, FineLeft

----------------------------------------------------------------------------
(* Authentication *)

\* A request that arrives has read nothing yet.
LEMMA ArriveFine ==
  ASSUME IInv, NEW r \in Requests, NEW c \in Calls, Arrive(r, c) PROVE Fine(r)
<1> DEFINE where == IF c.op = "register" THEN "check" ELSE IF IsCliToken(c.by) THEN "token" ELSE "row"
<1>1. RightsOf(Bearer(c.by)) \subseteq RightsSet
  BY RightsTyped DEF IInv
<1>2. [who[r] EXCEPT !.id = c.by] \in Callers
  BY DEF IInv, Locals, Callers, Anyone
<1>3. where \in Labels /\ where \in {"check", "token", "row"}
  BY DEF Labels
<1>4. Locals'
  <2>1. pc' \in [Requests -> Labels] /\ call' \in [Requests -> Calls \cup {Blank}]
    BY <1>3 DEF Arrive, IInv, Locals
  <2>2. who' \in [Requests -> Callers]
    BY <1>2 DEF Arrive, IInv, Locals
  <2>3. held' \in [Requests -> SUBSET RightsSet]
    BY <1>1 DEF Arrive, IInv, Locals
  <2> QED
    BY <2>1, <2>2, <2>3 DEF Arrive, IInv, Locals
<1>5. Frame(r)
  BY DEF Arrive, IInv, Locals, Frame
<1>6. pc'[r] = where /\ call'[r] = c /\ answer'[r] = None /\ pc[r] = "idle"
  BY DEF Arrive, IInv, Locals, Positions, Unanswered
<1>7. Fresh(r)' /\ Unanswered(r)'
  BY <1>3, <1>6 DEF Arrive, IInv, Positions, Fresh, Written, Unanswered, tables
<1>8. CallerOK(r)' /\ TargetOK(r)'
  BY <1>3, <1>6 DEF CallerOK, TargetOK, Writing
<1>9. RightfulStep(r)
  BY <1>6, NothingChanged DEF Arrive, None
<1> QED
  BY <1>4, <1>5, <1>7, <1>8, <1>9 DEF Fine

\* A CLI token leads to its user or to a refusal.
LEMMA ValidateCliTokenFine ==
  ASSUME IInv, NEW r \in Requests, ValidateCliToken(r) PROVE Fine(r)
<1>1. pc[r] = "token" /\ UNCHANGED tables
  BY DEF ValidateCliToken
<1>2. CASE Bearer(who[r].id) = Null
  BY <1>1, <1>2, FineRefusal DEF ValidateCliToken
<1>3. CASE Bearer(who[r].id) # Null
  <2>1. Bearer(who[r].id) \in Anyone
    BY DEF Bearer, IsCliToken, IInv, Types, Locals, TokenRows, Anyone, Callers, TokenIds
  <2>2. [who[r] EXCEPT !.id = Bearer(who[r].id)] \in Callers
    BY <2>1 DEF IInv, Locals, Callers
  <2>3. Locals'
    BY <1>3, <2>2 DEF ValidateCliToken, IInv, Locals, Labels
  <2>4. Frame(r)
    BY <1>3 DEF ValidateCliToken, IInv, Locals, Frame
  <2>5. pc'[r] = "row" /\ call'[r] = call[r] /\ answer'[r] = None
    BY <1>1, <1>3 DEF ValidateCliToken, IInv, Locals, Positions, Unanswered
  <2>6. Fresh(r)' /\ Unanswered(r)'
    BY <1>1, <2>5 DEF IInv, Positions, Fresh, Written, Unanswered, tables
  <2>7. CallerOK(r)' /\ TargetOK(r)'
    BY <1>1, <2>5 DEF IInv, Positions, CallerOK, TargetOK, Writing
  <2>8. RightfulStep(r)
    BY <1>1, <2>5, NothingChanged DEF None
  <2> QED
    BY <2>3, <2>4, <2>6, <2>7, <2>8 DEF Fine
<1> QED
  BY <1>2, <1>3

\* What remains to be shown of a read of the authentication
LEMMA FineLoad ==
  ASSUME IInv, NEW r \in Requests, pc[r] \in {"row", "orgs", "members"},
         NEW where \in {"orgs", "members", "check"}, NEW w \in Callers, Load(r, w, where),
         CallerOK(r)'
  PROVE  Fine(r)
<1>1. Locals' /\ Frame(r) /\ Learnt(r, w, where) /\ UNCHANGED tables
  BY Loads DEF IInv, Labels
<1>2. answer[r] = None
  BY DEF IInv, Positions, Unanswered
<1>3. Fresh(r)' /\ Unanswered(r)' /\ TargetOK(r)'
  BY <1>1, <1>2 DEF IInv, Positions, Fresh, Written, Unanswered, TargetOK, Learnt, tables
<1>4. RightfulStep(r)
  BY <1>1, <1>2, NothingChanged DEF Learnt, None
<1> QED
  BY <1>1, <1>3, <1>4 DEF Fine

\* The primary organization and the role there are a right as they are read.
LEMMA LoadUserFine ==
  ASSUME IInv, NEW r \in Requests, LoadUser(r) PROVE Fine(r)
<1> DEFINE u == who[r].id
           w == [who[r] EXCEPT !.org = users[u].org, !.role = users[u].role]
<1>1. pc[r] = "row"
  BY DEF LoadUser
<1>2. CASE u \notin Existing(users)
  BY <1>1, <1>2, FineRefusal DEF LoadUser
<1>3. CASE u \in Existing(users)
  <2>1. u \in UserIds /\ users[u] \in UserRows /\ users[u] # Null
    BY <1>3 DEF IInv, Types, Existing
  <2>2. who[r] \in Callers
    BY DEF IInv, Locals
  <2>3. w \in Callers
    BY <2>1, <2>2 DEF Callers, UserRows
  <2>4. w.id = u /\ w.org = users[u].org /\ w.role = users[u].role
    BY <2>2 DEF Callers
  <2>5. Load(r, w, "orgs")
    BY <1>3 DEF LoadUser
  <2> HIDE DEF w
  <2>6. Learnt(r, w, "orgs") /\ held'[r] = held[r] \cup RightsOf(u) /\ UNCHANGED tables
    BY <2>3, <2>4, <2>5, Loads DEF IInv, Labels
  <2>7. <<w.org, w.role>> \in held'[r]
    BY <1>3, <2>4, <2>6 DEF RightsOf
  <2>8. w.org \in OrgIds /\ w.role \in Roles /\ orgs[w.org] # Null
    BY <2>1, <2>4 DEF IInv, References, UserRows
  <2>9. CallerOK(r)'
    BY <1>1, <2>6, <2>7, <2>8 DEF IInv, Positions, CallerOK, Learnt, Writing, tables
  <2> QED
    BY <1>1, <2>3, <2>5, <2>9, FineLoad
<1> QED
  BY <1>2, <1>3

\* The rights of a user in the organizations that he owns
LEMMA OwnerRights ==
  ASSUME IInv, NEW x \in owned
  PROVE  <<x[2], "owner">> \in RightsOf(x[1]) /\ x[2] \in OrgIds /\ orgs[x[2]] # Null
<1>1. x[1] \in Existing(users) /\ x[2] \in OrgIds /\ orgs[x[2]] # Null
  BY DEF IInv, References, Types, Existing
<1> QED
  BY <1>1 DEF RightsOf

\* So is the role of an owner in the other organizations, whichever is active.
LEMMA LoadOrgsFine ==
  ASSUME IInv, NEW r \in Requests, LoadOrgs(r) PROVE Fine(r)
<1> DEFINE v == who[r]
           w == ActiveOrg(v, call[r].org)
           all == {v.org} \cup {p[2] : p \in {q \in owned : q[1] = v.id}}
<1>1. pc[r] = "orgs" /\ Load(r, w, "members")
  BY DEF LoadOrgs
<1>2. v \in Callers /\ call[r].op # "register"
  BY <1>1 DEF IInv, Locals, Positions, CallerOK
<1>3. v.org \in OrgIds /\ orgs[v.org] # Null /\ v.role \in Roles /\ <<v.org, v.role>> \in held[r]
  BY <1>1, <1>2 DEF IInv, Positions, CallerOK
<1>4. \A q \in owned : q[1] = v.id =>
        <<q[2], "owner">> \in RightsOf(v.id) /\ q[2] \in OrgIds /\ orgs[q[2]] # Null
  BY OwnerRights
<1>5. all \subseteq OrgIds
  BY <1>3, <1>4
<1>6. /\ w.id = v.id /\ w.orgs = all /\ w.projects = v.projects
      /\ \/ w.org = v.org /\ w.role = v.role
         \/ w.org \in all \ {v.org} /\ w.role = "owner"
  BY <1>2 DEF ActiveOrg, Callers
<1>7. w \in Callers
  BY <1>2, <1>5 DEF ActiveOrg, Callers, Roles
<1>8. Learnt(r, w, "members") /\ held'[r] = held[r] \cup RightsOf(v.id) /\ UNCHANGED tables
  <2> HIDE DEF w
  <2> QED
    BY <1>1, <1>6, <1>7, Loads DEF IInv, Labels
<1>9. \A o \in all : /\ orgs[o] # Null /\ \E role \in Roles : <<o, role>> \in held'[r]
                     /\ <<v.id, o>> \in owned => <<o, "owner">> \in held'[r]
  <2>1. SUFFICES ASSUME NEW o \in all
                 PROVE  /\ orgs[o] # Null /\ \E role \in Roles : <<o, role>> \in held'[r]
                        /\ <<v.id, o>> \in owned => <<o, "owner">> \in held'[r]
    OBVIOUS
  <2>2. "owner" \in Roles
    BY DEF Roles
  <2>3. orgs[o] # Null /\ \E role \in Roles : <<o, role>> \in held'[r]
    BY <1>3, <1>4, <1>8, <2>2
  <2>4. ASSUME <<v.id, o>> \in owned PROVE <<o, "owner">> \in held'[r]
    <3>1. <<v.id, o>>[1] = v.id /\ <<v.id, o>>[2] = o
      OBVIOUS
    <3> QED
      BY <1>4, <1>8, <2>4, <3>1
  <2> QED
    BY <2>3, <2>4
<1>10. w.org \in OrgIds /\ orgs[w.org] # Null /\ w.role \in Roles /\ <<w.org, w.role>> \in held'[r]
  <2>1. CASE w.org = v.org /\ w.role = v.role
    BY <1>3, <1>8, <2>1
  <2>2. CASE w.org \in all \ {v.org} /\ w.role = "owner"
    <3>1. PICK q \in owned : q[1] = v.id /\ q[2] = w.org
      BY <2>2
    <3> QED
      BY <1>4, <1>8, <2>2, <3>1 DEF Roles
  <2> QED
    BY <1>6, <2>1, <2>2
<1>11. CallerOK(r)'
  <2>1. w.orgs = all /\ w.id = v.id
    BY <1>6
  <2> HIDE DEF w, all
  <2> QED
    BY <1>1, <1>8, <1>9, <1>10, <2>1 DEF IInv, Positions, CallerOK, Learnt, Writing, tables
<1> QED
  <2> HIDE DEF w
  <2> QED
    BY <1>1, <1>7, <1>11, FineLoad

\* And so are the memberships, whereupon the guard decides on all three.
LEMMA LoadMembershipsFine ==
  ASSUME IInv, NEW r \in Requests, LoadMemberships(r) PROVE Fine(r)
<1> DEFINE v == who[r]
           w == [v EXCEPT !.projects = RolesOf(v.id)]
<1>1. pc[r] = "members"
  BY DEF LoadMemberships
<1>2. CASE ~Authorize(w, call[r])
  BY <1>1, <1>2, FineRefusal DEF LoadMemberships
<1>3. CASE Authorize(w, call[r])
  <2>1. v \in Callers /\ call[r].op # "register"
    BY <1>1 DEF IInv, Locals, Positions, CallerOK
  <2>2. RolesOf(v.id) \subseteq [project: ProjectIds, role: MemberRoles]
    BY DEF RolesOf, IInv, Types, MemberRows, MemberRoles
  <2>3. w \in Callers /\ w.id = v.id /\ w.org = v.org /\ w.role = v.role /\ w.orgs = v.orgs
        /\ w.projects = RolesOf(v.id)
    BY <2>1, <2>2 DEF Callers
  <2>4. Load(r, w, "check")
    BY <1>3 DEF LoadMemberships
  <2> HIDE DEF w
  <2>5. Learnt(r, w, "check") /\ held'[r] = held[r] \cup RightsOf(v.id) /\ UNCHANGED tables
    BY <2>3, <2>4, Loads DEF IInv, Labels
  <2>6. \A m \in RolesOf(v.id) : <<m.project, m.role>> \in RightsOf(v.id)
    <3>1. SUFFICES ASSUME NEW m \in RolesOf(v.id)
                   PROVE  <<m.project, m.role>> \in RightsOf(v.id)
      OBVIOUS
    <3>2. PICK n \in members : n.user = v.id
      BY <3>1 DEF RolesOf
    <3>3. v.id \in Existing(users)
      BY <3>2 DEF IInv, Types, References, MemberRows, Existing
    <3> QED
      BY <3>1, <3>3 DEF RightsOf
  <2>7. /\ w.org \in OrgIds /\ orgs[w.org] # Null
        /\ w.role \in Roles /\ <<w.org, w.role>> \in held[r]
        /\ \A o \in w.orgs : /\ orgs[o] # Null /\ \E role \in Roles : <<o, role>> \in held[r]
                             /\ <<w.id, o>> \in owned => <<o, "owner">> \in held[r]
    BY <1>1, <2>1, <2>3 DEF IInv, Positions, CallerOK
  <2>8. CallerOK(r)'
    <3>1. \A m \in w.projects : <<m.project, m.role>> \in held'[r]
      BY <2>3, <2>5, <2>6
    <3>2. call'[r] = call[r] /\ who'[r] = w /\ pc'[r] = "check" /\ call[r] \in Calls
      BY <1>1, <2>5 DEF Learnt, IInv, Positions, CallerOK
    <3>3. Authorize(who'[r], call'[r])
      BY <1>3, <3>2 DEF w
    <3>4. \A o \in w.orgs : /\ orgs'[o] # Null /\ \E role \in Roles : <<o, role>> \in held'[r]
                            /\ <<w.id, o>> \in owned' => <<o, "owner">> \in held'[r]
      BY <2>5, <2>7 DEF tables
    <3>5. w.org \in OrgIds /\ orgs'[w.org] # Null /\ w.role \in Roles /\ <<w.org, w.role>> \in held'[r]
      BY <2>5, <2>7 DEF tables
    <3> QED
      BY <3>1, <3>2, <3>3, <3>4, <3>5 DEF CallerOK, Writing
  <2> QED
    BY <1>1, <2>3, <2>4, <2>8, FineLoad
<1> QED
  BY <1>2, <1>3

----------------------------------------------------------------------------
(* Checks, and the audit event *)

\* A user who is there is known, and stays so.
LEMMA ExistingIsKnown ==
  ASSUME IInv, NEW u \in Existing(users) PROVE Known(u)
<1>1. u \in UserIds /\ users[u] # Null
  BY DEF IInv, Types, Existing
<1> QED
  BY <1>1 DEF IInv, Positions, Fresh, Known

\* His id stays spent in a step of another request.
LEMMA KnownStays ==
  ASSUME NEW r \in Requests, Frame(r), pc[r] \in Written => pc'[r] \in Written,
         NEW u, Known(u)
  PROVE  u \in UserIds /\ (u \in Requests => pc'[u] \in Written)
  BY DEF Known, Frame

\* Nothing is remembered of an e-mail that is free.
LEMMA RegisterCheckFine ==
  ASSUME IInv, NEW r \in Requests, RegisterCheck(r) PROVE Fine(r)
<1>1. /\ pc[r] \in Writing /\ UNCHANGED tables /\ call[r].op = "register"
      /\ Check(r, EmailTaken(call[r].email), "already_exists")
  BY DEF RegisterCheck, At, Writing, Check
<1>2. ASSUME Goto(r, "write") PROVE TargetOK(r)'
  <2>1. Went(r, "write")
    BY <1>2, Goes DEF IInv, Labels
  <2> QED
    BY <1>1, <2>1 DEF TargetOK, Went, ByLead
<1> QED
  BY <1>1, <1>2, FineCheck

\* The organization of the invitation is the active one, or one of the caller.
LEMMA InviteCheckFine ==
  ASSUME IInv, NEW r \in Requests, InviteCheck(r) PROVE Fine(r)
<1> DEFINE o == TargetOrg(who[r], call[r].orgId)
           refused == ~MayInviteTo(who[r], o) \/ UserIn(call[r].email, o) # {}
<1>1. pc[r] \in Writing /\ UNCHANGED tables /\ call[r].op = "invite" /\ pc[r] # "idle"
  BY DEF InviteCheck, At, Writing, Check
<1>2. CASE ~MayInviteTo(who[r], o)
  BY <1>1, <1>2, FineRefusal DEF InviteCheck, Check
<1>3. CASE MayInviteTo(who[r], o)
  <2>1. ASSUME Goto(r, "write") PROVE TargetOK(r)'
    <3>1. Went(r, "write")
      BY <2>1, Goes DEF IInv, Labels
    <3>2. /\ who[r].org \in OrgIds /\ orgs[who[r].org] # Null /\ who[r].orgs \subseteq OrgIds
          /\ \A x \in who[r].orgs : /\ orgs[x] # Null
                                    /\ <<who[r].id, x>> \in owned => <<x, "owner">> \in held[r]
      BY <1>1 DEF IInv, Positions, CallerOK, Locals, Callers
    <3>3. o \in OrgIds /\ orgs[o] # Null /\ (o = who[r].org \/ <<o, "owner">> \in held[r])
      BY <1>3, <3>2 DEF MayInviteTo
    <3> QED
      BY <1>1, <3>1, <3>3 DEF TargetOK, Went, ByLead, tables
  <2>2. Check(r, UserIn(call[r].email, o) # {}, "already_exists")
    BY <1>3 DEF InviteCheck
  <2> QED
    BY <1>1, <2>1, <2>2, FineCheck
<1> QED
  BY <1>2, <1>3

\* The user is of the active organization and no owner of it.
LEMMA TargetCheckFine ==
  ASSUME IInv, NEW r \in Requests, TargetCheck(r) PROVE Fine(r)
<1> DEFINE u == call[r].user
<1>1. /\ pc[r] \in Writing /\ UNCHANGED tables /\ call[r].op \in {"user.role", "user.remove"}
      /\ pc[r] # "idle" /\ pc[r] \notin Written
  BY DEF TargetCheck, Writing, Written, Check
<1>2. CASE u = who[r].id
  BY <1>1, <1>2, FineRefusal DEF TargetCheck, Check
<1>3. CASE u # who[r].id /\ (u \notin Existing(users) \/ users[u].org # who[r].org)
  BY <1>1, <1>3, FineRefusal DEF TargetCheck, Check
<1>4. CASE u # who[r].id /\ u \in Existing(users) /\ users[u].org = who[r].org
  <2>1. Check(r, users[u].role = "owner", "denied")
    BY <1>4 DEF TargetCheck
  <2>2. ASSUME users[u].role # "owner", Goto(r, "write") PROVE TargetOK(r)'
    <3>1. Went(r, "write") /\ Frame(r)
      BY <2>2, Goes DEF IInv, Labels
    <3>2. u \in UserIds /\ (u \in Requests => pc'[u] \in Written)
      BY <1>1, <1>4, <3>1, ExistingIsKnown, KnownStays
    <3>3. u \in DOMAIN Users0 => Users0[u].role # "owner"
      BY <2>2 DEF IInv, OwnersStay
    <3>4. call'[r] = call[r] /\ who'[r] = who[r] /\ pc'[r] = "write"
      BY <3>1 DEF Went
    <3>5. users'[u] # Null => users'[u].org = who[r].org
      BY <1>1, <1>4 DEF tables
    <3> QED
      BY <1>1, <3>2, <3>3, <3>4, <3>5 DEF TargetOK, ByLead, InOrg, Known
  <2> QED
    BY <1>1, <2>1, <2>2, FineCheck
<1> QED
  BY <1>2, <1>3, <1>4

\* Nothing is remembered of a name that is free.
LEMMA CreateProjectCheckFine ==
  ASSUME IInv, NEW r \in Requests, CreateProjectCheck(r) PROVE Fine(r)
<1>1. /\ pc[r] \in Writing /\ UNCHANGED tables /\ call[r].op = "project.create"
      /\ Check(r, NameTaken(call[r].name, who[r].org), "already_exists")
  BY DEF CreateProjectCheck, At, Writing, Check
<1>2. ASSUME Goto(r, "write") PROVE TargetOK(r)'
  <2>1. Went(r, "write")
    BY <1>2, Goes DEF IInv, Labels
  <2> QED
    BY <1>1, <2>1 DEF TargetOK, Went, ByLead
<1> QED
  BY <1>1, <1>2, FineCheck

\* The project is one of the active organization.
LEMMA ProjectCheckFine ==
  ASSUME IInv, NEW r \in Requests, ProjectCheck(r) PROVE Fine(r)
<1> DEFINE where == IF call[r].op \in {"env.add", "member.add"} THEN "look" ELSE "write"
<1>1. /\ pc[r] \in Writing /\ pc[r] # "idle" /\ UNCHANGED tables
      /\ call[r].op \in ByLead \cup {"project.delete"}
  BY DEF ProjectCheck, Writing
<1>2. CASE ~ProjectInOrg(call[r].project, who[r].org)
  BY <1>1, <1>2, FineRefusal DEF ProjectCheck
<1>3. CASE ProjectInOrg(call[r].project, who[r].org)
  <2>1. Goto(r, where) /\ where \in Labels /\ where \in Writing
    BY <1>3 DEF ProjectCheck, Labels, Writing
  <2>2. Locals' /\ Frame(r) /\ Went(r, where)
    BY <2>1, Goes DEF IInv
  <2>3. HasProject(call[r].project, who[r].org)
    BY <1>3 DEF ProjectInOrg, AnyProject, Existing, HasProject, IInv, Types
  <2>4. TargetOK(r)'
    BY <1>1, <2>2, <2>3 DEF TargetOK, Went, HasProject, tables, ByLead
  <2> QED
    BY <1>1, <2>1, <2>2, <2>4, FineWent
<1> QED
  BY <1>2, <1>3

\* It still is after the second look.
LEMMA EnvironmentCheckFine ==
  ASSUME IInv, NEW r \in Requests, EnvironmentCheck(r) PROVE Fine(r)
<1>1. /\ pc[r] \in Writing /\ UNCHANGED tables /\ call[r].op = "env.add" /\ pc[r] = "look"
      /\ Check(r, <<call[r].project, call[r].name>> \in envs, "already_exists")
  BY DEF EnvironmentCheck, At, Writing, Check
<1>2. ASSUME Goto(r, "write") PROVE TargetOK(r)'
  <2>1. Went(r, "write")
    BY <1>2, Goes DEF IInv, Labels
  <2>2. HasProject(call[r].project, who[r].org)
    BY <1>1 DEF IInv, Positions, TargetOK
  <2> QED
    BY <1>1, <2>1, <2>2 DEF TargetOK, Went, HasProject, tables
<1> QED
  BY <1>1, <1>2, FineCheck

\* The user with the e-mail is one of the active organization.
LEMMA FindTargetFine ==
  ASSUME IInv, NEW r \in Requests, FindTarget(r) PROVE Fine(r)
<1> DEFINE us == UserIn(call[r].email, who[r].org)
           u == CHOOSE x \in us : TRUE
<1>1. /\ pc[r] \in Writing /\ UNCHANGED tables /\ call[r].op = "member.add" /\ pc[r] = "look"
      /\ pc[r] \notin Written /\ pc[r] # "idle"
  BY DEF FindTarget, At, Writing, Written
<1>2. CASE us = {}
  BY <1>1, <1>2, FineRefusal DEF FindTarget
<1>3. CASE us # {}
  <2>1. u \in Existing(users) /\ users[u].org = who[r].org
    <3>1. u \in us
      BY <1>3
    <3> QED
      BY <3>1 DEF UserIn
  <2>2. GotoWith(r, "find", u) /\ "find" \in Labels /\ "find" \in Writing
    BY <1>3 DEF FindTarget, Labels, Writing
  <2> HIDE DEF u
  <2>3. Locals' /\ Frame(r) /\ Went(r, "find") /\ found'[r] = u
    BY <2>2, GoesWith DEF IInv
  <2>4. u \in UserIds /\ (u \in Requests => pc'[u] \in Written)
    BY <1>1, <2>1, <2>3, ExistingIsKnown, KnownStays
  <2>5. HasProject(call[r].project, who[r].org)
    BY <1>1 DEF IInv, Positions, TargetOK
  <2>6. call'[r] = call[r] /\ who'[r] = who[r] /\ pc'[r] = "find"
    BY <2>3 DEF Went
  <2>7. users'[u] # Null => users'[u].org = who[r].org
    BY <1>1, <2>1 DEF tables
  <2>8. TargetOK(r)'
    BY <1>1, <2>3, <2>4, <2>5, <2>6, <2>7 DEF TargetOK, HasProject, tables, InOrg, Known
  <2> QED
    BY <1>1, <2>2, <2>3, <2>8, FineWent
<1> QED
  BY <1>2, <1>3

\* He still is when his membership has been looked up.
LEMMA FindMembershipFine ==
  ASSUME IInv, NEW r \in Requests, FindMembership(r) PROVE Fine(r)
<1> DEFINE where == IF Membership(found[r], call[r].project) = {} THEN "insert" ELSE "update"
<1>1. /\ pc[r] \in Writing /\ UNCHANGED tables /\ call[r].op = "member.add" /\ pc[r] = "find"
      /\ pc[r] \notin Written /\ pc[r] # "idle"
  BY DEF FindMembership, At, Writing, Written
<1>2. Goto(r, where) /\ where \in Labels /\ where \in Writing /\ where \in {"insert", "update"}
  BY DEF FindMembership, Labels, Writing
<1> HIDE DEF where
<1>3. Locals' /\ Frame(r) /\ Went(r, where) /\ found'[r] = found[r]
  BY <1>2, Goes DEF IInv
<1>4. HasProject(call[r].project, who[r].org) /\ InOrg(found[r], who[r].org)
  BY <1>1 DEF IInv, Positions, TargetOK
<1>5. found[r] \in UserIds /\ (found[r] \in Requests => pc'[found[r]] \in Written)
  BY <1>1, <1>3, <1>4, KnownStays DEF InOrg
<1>6. TargetOK(r)'
  BY <1>1, <1>2, <1>3, <1>4, <1>5 DEF TargetOK, HasProject, tables, InOrg, Known, Went
<1> QED
  BY <1>1, <1>2, <1>3, <1>6, FineWent

\* Nothing is remembered of a token; the statement looks again.
LEMMA RevokeCheckFine ==
  ASSUME IInv, NEW r \in Requests, RevokeCheck(r) PROVE Fine(r)
<1>1. /\ pc[r] \in Writing /\ UNCHANGED tables /\ call[r].op = "token.revoke"
      /\ Check(r, ~OwnToken(r), "not_found")
  BY DEF RevokeCheck, At, Writing, Check
<1>2. ASSUME Goto(r, "write") PROVE TargetOK(r)'
  <2>1. Went(r, "write")
    BY <1>2, Goes DEF IInv, Labels
  <2> QED
    BY <1>1, <2>1 DEF TargetOK, Went, ByLead
<1> QED
  BY <1>1, <1>2, FineCheck

\* The answer of a handler that has written lists nothing.
LEMMA AppendAuditFine ==
  ASSUME IInv, NEW r \in Requests, AppendAudit(r) PROVE Fine(r)
  BY FineLeft DEF AppendAudit

----------------------------------------------------------------------------
(* Writes *)

\* The part of the invariant that is about the tables alone
Tables == Types /\ References /\ Uniques /\ OwnersStay

\* How the tables go on: organizations and projects stay, nobody and nothing
\* moves to another organization, and a row that was not there is the row of
\* the request that writes it.
Evolves(r) ==
  LET New(i) == i = r /\ pc[r] \notin Written IN
  /\ \A o \in OrgIds : (orgs[o] # Null => orgs'[o] # Null) /\ (orgs[o] = Null /\ orgs'[o] # Null => New(o))
  /\ \A u \in UserIds : /\ users[u] # Null /\ users'[u] # Null => users'[u].org = users[u].org
                        /\ users[u] = Null /\ users'[u] # Null => New(u)
  /\ \A p \in ProjectIds : /\ projects[p] # Null => projects'[p] # Null /\ projects'[p].org = projects[p].org
                           /\ projects[p] = Null /\ projects'[p] # Null => New(p)
  /\ \A t \in TokenIds : tokens[t] = Null /\ tokens'[t] # Null => New(t)
  /\ \A x \in owned' : x \in owned \/ orgs[x[2]] = Null

Kept(r) == Fine(r) /\ Tables' /\ Evolves(r)

\* A step that leaves the tables alone
LEMMA ReadsKeep ==
  ASSUME IInv, NEW r \in Requests, UNCHANGED tables, Fine(r) PROVE Kept(r)
<1>1. Tables'
  BY DEF IInv, Tables, Types, References, Uniques, OwnersStay, tables
<1>2. Evolves(r)
  BY DEF Evolves, tables
<1> QED
  BY <1>1, <1>2 DEF Kept

\* A refusal, with the tables
LEMMA RefusalKeeps ==
  ASSUME IInv, NEW r \in Requests, pc[r] # "idle", UNCHANGED tables,
         NEW code, Answer(r, code)
  PROVE  Kept(r)
  BY FineRefusal, ReadsKeep

\* What a request knows when it writes: its id is unused, and its call is one
\* that its route lets through.
LEMMA Writer ==
  ASSUME IInv, NEW r \in Requests, pc[r] \in Writing
  PROVE  /\ r \in OrgIds \cap UserIds \cap ProjectIds \cap TokenIds /\ r \notin DOMAIN Users0
         /\ orgs[r] = Null /\ users[r] = Null /\ projects[r] = Null /\ tokens[r] = Null
         /\ call[r] \in Calls /\ call[r].email \in KnownEmails /\ call[r].name \in KnownNames
         /\ pc[r] # "idle" /\ pc[r] \notin Written
<1>1. pc[r] \notin Written /\ pc[r] # "idle"
  BY DEF Writing, Written
<1>2. r \in OrgIds \cap UserIds \cap ProjectIds \cap TokenIds /\ r \notin DOMAIN Users0
  BY IdAssumption DEF OrgIds, UserIds, ProjectIds, TokenIds
<1>3. orgs[r] = Null /\ users[r] = Null /\ projects[r] = Null /\ tokens[r] = Null /\ call[r] \in Calls
  BY <1>1 DEF IInv, Positions, Fresh, CallerOK
<1> QED
  BY <1>1, <1>2, <1>3 DEF KnownEmails, KnownNames

\* A write, with whatever it remembers for its audit event
LEMMA Writes ==
  ASSUME IInv, NEW r \in Requests, pc[r] \in Writing,
         NEW f, Goto(r, "audit") \/ GotoWith(r, "audit", f), RightfulStep(r)
  PROVE  Fine(r)
<1>1. Locals' /\ Frame(r) /\ Went(r, "audit")
  BY Goes, GoesWith DEF IInv, Labels
<1>2. call[r] \in Calls /\ answer[r] = None
  BY Writer DEF IInv, Positions, Unanswered, Writing
<1>3. Fresh(r)' /\ CallerOK(r)' /\ TargetOK(r)' /\ Unanswered(r)'
  BY <1>1, <1>2 DEF Fresh, Written, CallerOK, TargetOK, Unanswered, Went, Writing
<1> QED
  BY <1>1, <1>3 DEF Fine

\* A write has shown nothing yet.
LEMMA WritesShowNothing ==
  ASSUME IInv, NEW r \in Requests, pc[r] \in Writing,
         NEW f, Goto(r, "audit") \/ GotoWith(r, "audit", f)
  PROVE  answer'[r].shown = {}
<1>1. answer[r] = None /\ answer' = answer
  BY DEF IInv, Positions, Unanswered, Writing, Goto, GotoWith
<1> QED
  BY <1>1 DEF None

----------------------------------------------------------------------------
(* Organizations and users *)

\* A new organization with its owner: both rows have the id of the request.
LEMMA RegisterKeeps ==
  ASSUME IInv, NEW r \in Requests, Register(r) PROVE Kept(r)
<1> DEFINE row == [org |-> r, email |-> call[r].email, role |-> "owner"]
<1>1. pc[r] \in Writing /\ Goto(r, "audit") /\ call[r].op = "register"
  BY DEF Register, At, Writing
<1>2. /\ r \in OrgIds \cap UserIds /\ r \notin DOMAIN Users0 /\ orgs[r] = Null /\ users[r] = Null
      /\ call[r] \in Calls /\ call[r].email \in KnownEmails /\ call[r].name \in KnownNames
      /\ pc[r] \notin Written
  BY <1>1, Writer
<1>3. call[r].name # Null
  BY <1>1, <1>2, CallAssumption
<1>4. row \in UserRows /\ row # Null
  BY <1>2, IdAssumption DEF UserRows, Roles
<1>5. orgs' = [orgs EXCEPT ![r] = call[r].name] /\ users' = [users EXCEPT ![r] = row]
      /\ UNCHANGED <<owned, projects, envs, members, tokens>>
  BY DEF Register
<1>6. row.org = r
  OBVIOUS
<1> HIDE DEF row
<1>7. /\ \A o \in OrgIds : orgs'[o] = IF o = r THEN call[r].name ELSE orgs[o]
      /\ \A u \in UserIds : users'[u] = IF u = r THEN row ELSE users[u]
  BY <1>5 DEF IInv, Types
<1>8. Types'
  BY <1>2, <1>4, <1>5 DEF IInv, Types
<1>9. References'
  <2>1. \A o \in OrgIds : orgs[o] # Null => orgs'[o] # Null
    BY <1>2, <1>7
  <2>2. \A u \in UserIds : users[u] # Null => users'[u] # Null /\ users'[u] = users[u]
    BY <1>2, <1>7
  <2>3. \A u \in UserIds : users'[u] # Null => orgs'[users'[u].org] # Null
    BY <1>2, <1>3, <1>6, <1>7, <2>1 DEF IInv, References, Types, UserRows
  <2> QED
    BY <1>5, <2>1, <2>2, <2>3 DEF IInv, References, Types, ProjectRows, MemberRows, TokenRows
<1>10. Uniques'
  <2>1. \A u \in UserIds : users[u] # Null => users[u].org # r
    BY <1>2 DEF IInv, References
  <2> QED
    BY <1>5, <1>6, <1>7, <2>1 DEF IInv, Uniques
<1>11. OwnersStay'
  BY <1>2, <1>7 DEF IInv, OwnersStay, UserIds
<1>12. Evolves(r)
  BY <1>2, <1>5, <1>7 DEF Evolves, Written
<1>13. RightfulStep(r)
  <2>1. Changed(orgs) \cap Existing(orgs) = {}
    BY <1>2, <1>7 DEF Changed, Existing, IInv, Types
  <2>2. \A u \in Changed(users) : u = r
    BY <1>7 DEF Changed, IInv, Types
  <2>3. Changed(projects) = {} /\ Changed(tokens) = {} /\ envs' \ envs = {}
        /\ members' \ members = {} /\ members \ members' = {}
    BY <1>5 DEF Changed
  <2>4. answer'[r].shown = {}
    BY <1>1, WritesShowNothing
  <2> QED
    BY <1>2, <1>6, <1>7, <2>1, <2>2, <2>3, <2>4 DEF RightfulStep
<1> QED
  BY <1>1, <1>8, <1>9, <1>10, <1>11, <1>12, <1>13, Writes DEF Kept, Tables

\* A new organization for a caller who still exists
LEMMA CreateOrgKeeps ==
  ASSUME IInv, NEW r \in Requests, CreateOrg(r) PROVE Kept(r)
<1>1. pc[r] \in Writing /\ pc[r] # "idle" /\ call[r].op = "org.create"
  BY DEF CreateOrg, At, Writing
<1>2. CASE who[r].id \notin Existing(users)
  BY <1>1, <1>2, RefusalKeeps DEF CreateOrg, Refused
<1>3. CASE who[r].id \in Existing(users)
  <2> DEFINE u == who[r].id
  <2>1. /\ orgs' = [orgs EXCEPT ![r] = call[r].name] /\ owned' = owned \cup {<<u, r>>}
        /\ UNCHANGED <<users, projects, envs, members, tokens>> /\ Goto(r, "audit")
    BY <1>3 DEF CreateOrg
  <2>2. /\ r \in OrgIds /\ orgs[r] = Null /\ call[r] \in Calls /\ call[r].name \in KnownNames
        /\ pc[r] \notin Written
    BY <1>1, Writer
  <2>3. call[r].name # Null
    BY <1>1, <2>2, CallAssumption
  <2>4. \A o \in OrgIds : orgs'[o] = IF o = r THEN call[r].name ELSE orgs[o]
    BY <2>1 DEF IInv, Types
  <2>5. u \in UserIds /\ users[u] # Null
    BY <1>3 DEF IInv, Types, Existing
  <2>6. Types'
    BY <2>1, <2>2, <2>5 DEF IInv, Types
  <2>7. \A o \in OrgIds : orgs[o] # Null => orgs'[o] # Null
    BY <2>2, <2>4
  <2>8. \A x \in owned' : users'[x[1]] # Null /\ orgs'[x[2]] # Null
    BY <2>1, <2>2, <2>3, <2>4, <2>5, <2>7 DEF IInv, References, Types
  <2>9. References'
    BY <2>1, <2>7, <2>8 DEF IInv, References, Types, UserRows, ProjectRows
  <2>10. Uniques' /\ OwnersStay'
    BY <2>1 DEF IInv, Uniques, OwnersStay
  <2>11. Evolves(r)
    BY <2>1, <2>2, <2>4, <2>7 DEF Evolves
  <2>12. RightfulStep(r)
    <3>1. Changed(orgs) \cap Existing(orgs) = {}
      BY <2>2, <2>4 DEF Changed, Existing, IInv, Types
    <3>2. Changed(users) = {} /\ Changed(projects) = {} /\ Changed(tokens) = {} /\ envs' \ envs = {}
          /\ members' \ members = {} /\ members \ members' = {}
      BY <2>1 DEF Changed
    <3>3. answer'[r].shown = {}
      BY <1>1, <2>1, WritesShowNothing
    <3> QED
      BY <3>1, <3>2, <3>3 DEF RightfulStep
  <2> QED
    BY <1>1, <2>1, <2>6, <2>9, <2>10, <2>11, <2>12, Writes DEF Kept, Tables
<1> QED
  BY <1>2, <1>3

\* Only owners and admins rename the active organization.
LEMMA RenameOrgKeeps ==
  ASSUME IInv, NEW r \in Requests, RenameOrg(r) PROVE Kept(r)
<1> DEFINE o == who[r].org
<1>1. pc[r] \in Writing /\ call[r].op = "org.rename" /\ Goto(r, "audit")
      /\ orgs' = [orgs EXCEPT ![o] = call[r].name]
      /\ UNCHANGED <<users, owned, projects, envs, members, tokens>>
  BY DEF RenameOrg, At, Writing
<1>2. call[r] \in Calls /\ call[r].name \in KnownNames
  BY <1>1, Writer
<1>3. call[r].name # Null
  BY <1>1, <1>2, CallAssumption
<1>4. o \in OrgIds /\ orgs[o] # Null /\ Administers(r, o)
  BY <1>1, OrgLevelAdministers DEF OrgLevel, IInv, Positions, CallerOK
<1>5. \A x \in OrgIds : orgs'[x] = IF x = o THEN call[r].name ELSE orgs[x]
  BY <1>1 DEF IInv, Types
<1>6. Types'
  BY <1>1, <1>2, <1>4 DEF IInv, Types
<1>7. \A x \in OrgIds : orgs[x] # Null <=> orgs'[x] # Null
  BY <1>3, <1>4, <1>5
<1>8. References'
  BY <1>1, <1>7 DEF IInv, References, Types, UserRows, ProjectRows
<1>9. Uniques' /\ OwnersStay'
  BY <1>1 DEF IInv, Uniques, OwnersStay
<1>10. Evolves(r)
  BY <1>1, <1>7 DEF Evolves
<1>11. RightfulStep(r)
  <2>1. \A x \in Changed(orgs) : x = o
    BY <1>5 DEF Changed, IInv, Types
  <2>2. Changed(users) = {} /\ Changed(projects) = {} /\ Changed(tokens) = {} /\ envs' \ envs = {}
        /\ members' \ members = {} /\ members \ members' = {}
    BY <1>1 DEF Changed
  <2>3. answer'[r].shown = {}
    BY <1>1, WritesShowNothing
  <2> QED
    BY <1>4, <2>1, <2>2, <2>3 DEF RightfulStep
<1> QED
  BY <1>1, <1>6, <1>8, <1>9, <1>10, <1>11, Writes DEF Kept, Tables

\* The new user is the only one with his e-mail in the organization.
LEMMA InviteKeeps ==
  ASSUME IInv, NEW r \in Requests, Invite(r) PROVE Kept(r)
<1> DEFINE o == TargetOrg(who[r], call[r].orgId)
           row == [org |-> o, email |-> call[r].email, role |-> call[r].role]
<1>1. pc[r] \in Writing /\ pc[r] # "idle" /\ pc[r] = "write" /\ call[r].op = "invite"
  BY DEF Invite, At, Writing
<1>2. CASE UserIn(call[r].email, o) # {}
  BY <1>1, <1>2, RefusalKeeps DEF Invite, Refused
<1>3. CASE UserIn(call[r].email, o) = {}
  <2>1. /\ users' = [users EXCEPT ![r] = row] /\ Goto(r, "audit")
        /\ UNCHANGED <<orgs, owned, projects, envs, members, tokens>>
    BY <1>3 DEF Invite
  <2>2. /\ r \in UserIds /\ r \notin DOMAIN Users0 /\ users[r] = Null
        /\ call[r] \in Calls /\ call[r].email \in KnownEmails /\ pc[r] \notin Written
    BY <1>1, Writer
  <2>3. o \in OrgIds /\ orgs[o] # Null /\ (o = who[r].org \/ <<o, "owner">> \in held[r])
    BY <1>1 DEF IInv, Positions, TargetOK
  <2>4. Administers(r, o)
    BY <1>1, <2>3, OrgLevelAdministers DEF OrgLevel, Administers, Rights
  <2>5. row \in UserRows /\ row # Null
    BY <1>1, <2>2, <2>3, CallAssumption, IdAssumption DEF UserRows
  <2>6. row.org = o /\ row.email = call[r].email
    OBVIOUS
  <2> HIDE DEF row, o
  <2>7. \A u \in UserIds : users'[u] = IF u = r THEN row ELSE users[u]
    BY <2>1 DEF IInv, Types
  <2>8. Types'
    BY <2>1, <2>2, <2>5 DEF IInv, Types
  <2>9. \A u \in UserIds : users[u] # Null => users'[u] # Null /\ users'[u] = users[u]
    BY <2>2, <2>7
  <2>10. References'
    <3>1. \A u \in UserIds : users'[u] # Null => orgs'[users'[u].org] # Null
      BY <2>1, <2>3, <2>6, <2>7 DEF IInv, References
    <3> QED
      BY <2>1, <2>9, <3>1 DEF IInv, References, Types, MemberRows, TokenRows
  <2>11. Uniques'
    <3>1. \A u \in UserIds : users[u] # Null => users[u].email # row.email \/ users[u].org # row.org
      BY <1>3, <2>6 DEF UserIn, Existing, IInv, Types
    <3> QED
      BY <2>1, <2>7, <3>1 DEF IInv, Uniques
  <2>12. OwnersStay'
    BY <2>2, <2>7 DEF IInv, OwnersStay, UserIds
  <2>13. Evolves(r)
    BY <2>1, <2>2, <2>7 DEF Evolves
  <2>14. RightfulStep(r)
    <3>1. \A u \in Changed(users) : u = r
      BY <2>7 DEF Changed, IInv, Types
    <3>2. Changed(orgs) = {} /\ Changed(projects) = {} /\ Changed(tokens) = {} /\ envs' \ envs = {}
          /\ members' \ members = {} /\ members \ members' = {}
      BY <2>1 DEF Changed
    <3>3. answer'[r].shown = {}
      BY <1>1, <2>1, WritesShowNothing
    <3> QED
      BY <2>2, <2>4, <2>6, <2>7, <3>1, <3>2, <3>3 DEF RightfulStep
  <2> QED
    BY <1>1, <2>1, <2>8, <2>10, <2>11, <2>12, <2>13, <2>14, Writes DEF Kept, Tables
<1> QED
  BY <1>2, <1>3

\* The user whom the two handlers that change a user have found to be of the
\* active organization, and not an owner
LEMMA TargetOfChange ==
  ASSUME IInv, NEW r \in Requests, pc[r] = "write", call[r].op \in {"user.role", "user.remove"}
  PROVE  /\ call[r].user \in UserIds
         /\ users[call[r].user] # Null => users[call[r].user].org = who[r].org
         /\ call[r].user \in DOMAIN Users0 => Users0[call[r].user].role # "owner"
         /\ Administers(r, who[r].org)
<1>1. pc[r] \in Writing /\ call[r].op \in OrgLevel
  BY DEF Writing, OrgLevel
<1> QED
  BY <1>1, OrgLevelAdministers DEF IInv, Positions, TargetOK, InOrg, Known

\* The user may have been removed since the check, and then stays so.
LEMMA ChangeUserRoleKeeps ==
  ASSUME IInv, NEW r \in Requests, ChangeUserRole(r) PROVE Kept(r)
<1> DEFINE u == call[r].user
           row == [users[u] EXCEPT !.role = call[r].role]
<1>1. pc[r] \in Writing /\ pc[r] = "write" /\ call[r].op = "user.role" /\ Goto(r, "audit")
      /\ UNCHANGED <<orgs, owned, projects, envs, members, tokens>>
  BY DEF ChangeUserRole, At, Writing
<1>2. /\ u \in UserIds
      /\ users[u] # Null => users[u].org = who[r].org
      /\ u \in DOMAIN Users0 => Users0[u].role # "owner"
      /\ Administers(r, who[r].org)
  BY <1>1, TargetOfChange
<1>3. u \in Existing(users) <=> users[u] # Null
  BY <1>2 DEF Existing, IInv, Types
<1>4. \A v \in UserIds : users'[v] = IF v = u /\ users[u] # Null THEN row ELSE users[v]
  BY <1>3 DEF ChangeUserRole, IInv, Types
<1>5. users[u] # Null => /\ row \in UserRows /\ row # Null /\ row.org = users[u].org
                         /\ row.email = users[u].email
  <2>1. call[r].role \in Roles
    BY <1>1, Writer, CallAssumption
  <2> QED
    BY <1>2, <2>1, IdAssumption DEF IInv, Types, UserRows
<1> HIDE DEF row
<1>6. users' \in [UserIds -> UserRows \cup {Null}]
  <2>1. users' = [v \in UserIds |-> users'[v]]
    BY DEF ChangeUserRole, IInv, Types
  <2>2. \A v \in UserIds : users'[v] \in UserRows \cup {Null}
    BY <1>4, <1>5 DEF IInv, Types
  <2> QED
    BY <2>1, <2>2
<1>7. Types'
  BY <1>1, <1>6 DEF IInv, Types
<1>8. \A v \in UserIds : /\ users[v] # Null <=> users'[v] # Null
                         /\ users[v] # Null => /\ users'[v].org = users[v].org
                                               /\ users'[v].email = users[v].email
  BY <1>2, <1>4, <1>5
<1>9. References'
  BY <1>1, <1>8 DEF IInv, References, Types, MemberRows, TokenRows
<1>10. Uniques'
  BY <1>1, <1>8 DEF IInv, Uniques
<1>11. OwnersStay'
  BY <1>2, <1>4 DEF IInv, OwnersStay, UserIds
<1>12. Evolves(r)
  BY <1>1, <1>8 DEF Evolves
<1>13. RightfulStep(r)
  <2>1. \A v \in Changed(users) : v = u /\ users[v] # Null
    BY <1>4 DEF Changed, IInv, Types
  <2>2. Changed(orgs) = {} /\ Changed(projects) = {} /\ Changed(tokens) = {} /\ envs' \ envs = {}
        /\ members' \ members = {} /\ members \ members' = {}
    BY <1>1 DEF Changed
  <2>3. answer'[r].shown = {}
    BY <1>1, WritesShowNothing
  <2> QED
    BY <1>2, <2>1, <2>2, <2>3 DEF RightfulStep
<1> QED
  BY <1>1, <1>7, <1>9, <1>10, <1>11, <1>12, <1>13, Writes DEF Kept, Tables

\* Nothing that stays refers to the user.
LEMMA RemoveUserKeeps ==
  ASSUME IInv, NEW r \in Requests, RemoveUser(r) PROVE Kept(r)
<1> DEFINE u == call[r].user
<1>1. pc[r] \in Writing /\ pc[r] # "idle" /\ pc[r] = "write" /\ call[r].op = "user.remove"
  BY DEF RemoveUser, At, Writing
<1>2. CASE StillReferred(u)
  BY <1>1, <1>2, RefusalKeeps DEF RemoveUser, Refused
<1>3. CASE ~StillReferred(u)
  <2>1. /\ users' = [users EXCEPT ![u] = Null] /\ owned' = {p \in owned : p[1] # u}
        /\ members' = {m \in members : m.user # u}
        /\ tokens' = [t \in TokenIds |-> IF t \in Existing(tokens) /\ tokens[t].user = u
                                         THEN Null ELSE tokens[t]]
        /\ UNCHANGED <<orgs, projects, envs>> /\ Goto(r, "audit")
    BY <1>3 DEF RemoveUser
  <2>2. /\ u \in UserIds
        /\ users[u] # Null => users[u].org = who[r].org
        /\ u \in DOMAIN Users0 => Users0[u].role # "owner"
        /\ Administers(r, who[r].org)
    BY <1>1, TargetOfChange
  <2>3. \A v \in UserIds : users'[v] = IF v = u THEN Null ELSE users[v]
    BY <2>1 DEF IInv, Types
  <2>4. \A t \in TokenIds : tokens'[t] = IF tokens[t] # Null /\ tokens[t].user = u THEN Null ELSE tokens[t]
    BY <2>1 DEF IInv, Types, Existing
  <2>5. Types'
    BY <2>1, <2>2 DEF IInv, Types
  <2>6. \A m \in members : m.by = u => m.user = u
    BY <1>3 DEF StillReferred
  <2>7. References'
    <3>1. \A m \in members' : m \in members /\ m.user # u /\ m.by # u
      BY <2>1, <2>6
    <3>2. \A m \in members' : /\ users'[m.user] # Null /\ users'[m.by] # Null /\ projects'[m.project] # Null
                              /\ users'[m.user].org = projects'[m.project].org
      BY <2>1, <2>3, <3>1 DEF IInv, References, Types, MemberRows
    <3>3. \A t \in TokenIds : tokens'[t] # Null => users'[tokens'[t].user] # Null
      BY <2>3, <2>4 DEF IInv, References, Types, TokenRows
    <3>4. \A x \in owned' : users'[x[1]] # Null /\ orgs'[x[2]] # Null
      BY <2>1, <2>3 DEF IInv, References, Types
    <3> QED
      BY <2>1, <2>3, <3>2, <3>3, <3>4 DEF IInv, References
  <2>8. Uniques'
    BY <2>1, <2>3 DEF IInv, Uniques
  <2>9. OwnersStay'
    BY <2>2, <2>3 DEF IInv, OwnersStay, UserIds
  <2>10. Evolves(r)
    BY <2>1, <2>3, <2>4 DEF Evolves
  <2>11. RightfulStep(r)
    <3> DEFINE gone == {v \in Existing(users) : users'[v] = Null}
    <3>1. users[u] # Null => u \in gone
      BY <2>2, <2>3 DEF Existing, IInv, Types
    <3>2. \A v \in Changed(users) : v = u /\ users[v] # Null
      BY <2>2, <2>3 DEF Changed, IInv, Types
    <3>3. Changed(orgs) = {} /\ Changed(projects) = {} /\ envs' \ envs = {} /\ members' \ members = {}
      BY <2>1 DEF Changed
    <3>4. \A m \in members \ members' : m.user \in gone
      BY <2>1, <3>1 DEF IInv, References
    <3>5. \A t \in Changed(tokens) : tokens[t] # Null /\ tokens[t].user \in gone
      BY <2>4, <3>1 DEF Changed, IInv, Types, References
    <3>6. answer'[r].shown = {}
      BY <1>1, <2>1, WritesShowNothing
    <3> QED
      BY <2>2, <3>2, <3>3, <3>4, <3>5, <3>6 DEF RightfulStep
  <2> QED
    BY <1>1, <2>1, <2>5, <2>7, <2>8, <2>9, <2>10, <2>11, Writes DEF Kept, Tables
<1> QED
  BY <1>2, <1>3

----------------------------------------------------------------------------
(* Projects and environments *)

\* The new project is the only one with its name in the organization.
LEMMA CreateProjectKeeps ==
  ASSUME IInv, NEW r \in Requests, CreateProject(r) PROVE Kept(r)
<1> DEFINE o == who[r].org
           row == [org |-> o, name |-> call[r].name, deleted |-> FALSE]
<1>1. pc[r] \in Writing /\ pc[r] # "idle" /\ call[r].op = "project.create"
  BY DEF CreateProject, At, Writing
<1>2. CASE NameTaken(call[r].name, o)
  BY <1>1, <1>2, RefusalKeeps DEF CreateProject, Refused
<1>3. CASE ~NameTaken(call[r].name, o)
  <2>1. /\ projects' = [projects EXCEPT ![r] = row] /\ envs' = envs \cup {<<r, "dev">>}
        /\ UNCHANGED <<orgs, users, owned, members, tokens>> /\ Goto(r, "audit")
    BY <1>3 DEF CreateProject
  <2>2. r \in ProjectIds /\ projects[r] = Null /\ call[r].name \in KnownNames /\ pc[r] \notin Written
    BY <1>1, Writer
  <2>3. o \in OrgIds /\ orgs[o] # Null /\ Administers(r, o)
    BY <1>1, OrgLevelAdministers DEF OrgLevel, IInv, Positions, CallerOK
  <2>4. row \in ProjectRows /\ row # Null
    <3>1. row \in ProjectRows
      BY <2>2, <2>3, FALSE \in BOOLEAN DEF ProjectRows
    <3> QED
      BY <3>1, IdAssumption
  <2>5. row.org = o /\ row.name = call[r].name
    OBVIOUS
  <2> HIDE DEF row
  <2>6. \A p \in ProjectIds : projects'[p] = IF p = r THEN row ELSE projects[p]
    BY <2>1 DEF IInv, Types
  <2>7. Types'
    BY <2>1, <2>2, <2>4 DEF IInv, Types
  <2>8. \A p \in ProjectIds : projects[p] # Null => projects'[p] # Null /\ projects'[p] = projects[p]
    BY <2>2, <2>6
  <2>9. References'
    <3>1. \A p \in ProjectIds : projects'[p] # Null => orgs'[projects'[p].org] # Null
      BY <2>1, <2>3, <2>5, <2>6 DEF IInv, References
    <3>2. \A e \in envs' : projects'[e[1]] # Null
      BY <2>1, <2>2, <2>4, <2>6, <2>8 DEF IInv, References, Types
    <3>3. \A m \in members' : /\ users'[m.user] # Null /\ users'[m.by] # Null /\ projects'[m.project] # Null
                              /\ users'[m.user].org = projects'[m.project].org
      BY <2>1, <2>8 DEF IInv, References, Types, MemberRows
    <3> QED
      BY <2>1, <3>1, <3>2, <3>3 DEF IInv, References
  <2>10. Uniques'
    <3>1. \A p \in ProjectIds : projects[p] # Null =>
            projects[p].name # row.name \/ projects[p].org # row.org
      BY <1>3, <2>5 DEF NameTaken, Existing, IInv, Types
    <3> QED
      BY <2>1, <2>6, <3>1 DEF IInv, Uniques
  <2>11. OwnersStay'
    BY <2>1 DEF IInv, OwnersStay
  <2>12. Evolves(r)
    BY <2>1, <2>2, <2>6, <2>8 DEF Evolves
  <2>13. RightfulStep(r)
    <3>1. \A p \in Changed(projects) : p = r
      BY <2>6 DEF Changed, IInv, Types
    <3>2. Changed(orgs) = {} /\ Changed(users) = {} /\ Changed(tokens) = {}
          /\ members' \ members = {} /\ members \ members' = {}
      BY <2>1 DEF Changed
    <3>3. \A e \in envs' \ envs : projects[e[1]] = Null
      BY <2>1, <2>2
    <3>4. answer'[r].shown = {}
      BY <1>1, <2>1, WritesShowNothing
    <3> QED
      BY <2>2, <2>3, <2>5, <2>6, <3>1, <3>2, <3>3, <3>4 DEF RightfulStep
  <2> QED
    BY <1>1, <2>1, <2>7, <2>9, <2>10, <2>11, <2>12, <2>13, Writes DEF Kept, Tables
<1> QED
  BY <1>2, <1>3

\* A new environment of a project that the caller leads
LEMMA AddEnvironmentKeeps ==
  ASSUME IInv, NEW r \in Requests, AddEnvironment(r) PROVE Kept(r)
<1> DEFINE p == call[r].project
           e == <<p, call[r].name>>
<1>1. /\ pc[r] \in Writing /\ pc[r] # "idle" /\ pc[r] = "write" /\ call[r].op = "env.add"
      /\ call[r].op \in ByLead
  BY DEF AddEnvironment, At, Writing, ByLead
<1>2. CASE e \in envs
  BY <1>1, <1>2, RefusalKeeps DEF AddEnvironment, Refused
<1>3. CASE e \notin envs
  <2>1. /\ envs' = envs \cup {e} /\ Goto(r, "audit")
        /\ UNCHANGED <<orgs, users, owned, projects, members, tokens>>
    BY <1>3 DEF AddEnvironment
  <2>2. HasProject(p, who[r].org)
    BY <1>1 DEF IInv, Positions, TargetOK
  <2>3. p \in ProjectIds /\ projects[p] # Null /\ Leads(r, p)
    BY <1>1, <2>2, ByLeadLeads DEF HasProject
  <2>4. call[r].name \in KnownNames
    BY <1>1, Writer
  <2>5. Types'
    BY <2>1, <2>3, <2>4 DEF IInv, Types
  <2>6. References'
    BY <2>1, <2>3 DEF IInv, References
  <2>7. Uniques' /\ OwnersStay'
    BY <2>1 DEF IInv, Uniques, OwnersStay
  <2>8. Evolves(r)
    BY <2>1 DEF Evolves
  <2>9. RightfulStep(r)
    <3>1. /\ Changed(orgs) = {} /\ Changed(users) = {} /\ Changed(projects) = {}
          /\ Changed(tokens) = {} /\ members' \ members = {} /\ members \ members' = {}
      BY <2>1 DEF Changed
    <3>2. \A x \in envs' \ envs : x[1] = p
      BY <2>1
    <3>3. answer'[r].shown = {}
      BY <1>1, <2>1, WritesShowNothing
    <3> QED
      BY <2>3, <3>1, <3>2, <3>3 DEF RightfulStep
  <2> QED
    BY <1>1, <2>1, <2>5, <2>6, <2>7, <2>8, <2>9, Writes DEF Kept, Tables
<1> QED
  BY <1>2, <1>3

\* The row of a deleted project stays, and so do its name and organization.
LEMMA DeleteProjectKeeps ==
  ASSUME IInv, NEW r \in Requests, DeleteProject(r) PROVE Kept(r)
<1> DEFINE p == call[r].project
           row == [projects[p] EXCEPT !.deleted = TRUE]
<1>1. /\ pc[r] \in Writing /\ pc[r] = "write" /\ call[r].op = "project.delete" /\ Goto(r, "audit")
      /\ projects' = [projects EXCEPT ![p].deleted = TRUE]
      /\ UNCHANGED <<orgs, users, owned, envs, members, tokens>>
  BY DEF DeleteProject, At, Writing
<1>2. p \in ProjectIds /\ projects[p] # Null /\ projects[p].org = who[r].org
  BY <1>1 DEF IInv, Positions, TargetOK, HasProject
<1>3. Administers(r, who[r].org)
  BY <1>1, OrgLevelAdministers DEF OrgLevel
<1>4. \A x \in ProjectIds : projects'[x] = IF x = p THEN row ELSE projects[x]
  BY <1>1 DEF IInv, Types
<1>5. row \in ProjectRows /\ row # Null /\ row.org = projects[p].org /\ row.name = projects[p].name
  BY <1>2, IdAssumption DEF IInv, Types, ProjectRows
<1> HIDE DEF row
<1>6. Types'
  <2>1. projects' = [x \in ProjectIds |-> projects'[x]]
    BY <1>1 DEF IInv, Types
  <2>2. \A x \in ProjectIds : projects'[x] \in ProjectRows \cup {Null}
    BY <1>4, <1>5 DEF IInv, Types
  <2>3. projects' \in [ProjectIds -> ProjectRows \cup {Null}]
    BY <2>1, <2>2
  <2> QED
    BY <1>1, <2>3 DEF IInv, Types
<1>7. \A x \in ProjectIds : /\ projects[x] # Null <=> projects'[x] # Null
                            /\ projects[x] # Null => /\ projects'[x].org = projects[x].org
                                                     /\ projects'[x].name = projects[x].name
  BY <1>2, <1>4, <1>5
<1>8. References'
  BY <1>1, <1>7 DEF IInv, References, Types, MemberRows
<1>9. Uniques'
  BY <1>1, <1>7 DEF IInv, Uniques
<1>10. OwnersStay'
  BY <1>1 DEF IInv, OwnersStay
<1>11. Evolves(r)
  BY <1>1, <1>7 DEF Evolves
<1>12. RightfulStep(r)
  <2>1. \A x \in Changed(projects) : x = p
    BY <1>4 DEF Changed, IInv, Types
  <2>2. Changed(orgs) = {} /\ Changed(users) = {} /\ Changed(tokens) = {} /\ envs' \ envs = {}
        /\ members' \ members = {} /\ members \ members' = {}
    BY <1>1 DEF Changed
  <2>3. answer'[r].shown = {}
    BY <1>1, WritesShowNothing
  <2> QED
    BY <1>2, <1>3, <2>1, <2>2, <2>3 DEF RightfulStep
<1> QED
  BY <1>1, <1>6, <1>8, <1>9, <1>10, <1>11, <1>12, Writes DEF Kept, Tables

----------------------------------------------------------------------------
(* Members *)

\* A handler that changes the members of a project leads it.
LEMMA MembersWriter ==
  ASSUME IInv, NEW r \in Requests, pc[r] \in {"insert", "update", "write"},
         call[r].op \in {"member.add", "member.patch", "member.remove"}
  PROVE  /\ pc[r] \in Writing /\ pc[r] # "idle"
         /\ HasProject(call[r].project, who[r].org) /\ Leads(r, call[r].project)
<1>1. pc[r] \in Writing /\ pc[r] # "idle" /\ call[r].op \in ByLead
  BY DEF Writing, ByLead
<1>2. HasProject(call[r].project, who[r].org)
  BY <1>1 DEF IInv, Positions, TargetOK
<1> QED
  BY <1>1, <1>2, ByLeadLeads

\* Rows of one project, changed by a handler that leads it, one a user
LEMMA MembersKeep ==
  ASSUME IInv, NEW r \in Requests, pc[r] \in {"insert", "update", "write"},
         call[r].op \in {"member.add", "member.patch", "member.remove"},
         NEW rows, NEW event, NEW u, ChangeMembers(r, rows, event, u),
         \A m \in rows : m \in members \/
           /\ m \in MemberRows /\ m.project = call[r].project
           /\ users[m.user] # Null /\ users[m.by] # Null /\ users[m.user].org = who[r].org
           /\ \A n \in rows : n.user = m.user /\ n.project = m.project => n = m,
         \A m \in members \ rows : m.project = call[r].project
  PROVE  Kept(r)
<1>1. pc[r] \in Writing /\ HasProject(call[r].project, who[r].org) /\ Leads(r, call[r].project)
  BY MembersWriter
<1>2. members' = rows /\ UNCHANGED <<orgs, users, owned, projects, envs, tokens>>
      /\ GotoWith(r, "audit", [event |-> event, user |-> u])
  BY DEF ChangeMembers
<1>3. Types'
  BY <1>2 DEF IInv, Types
<1>4. References'
  <2>1. \A m \in rows : /\ users[m.user] # Null /\ users[m.by] # Null /\ projects[m.project] # Null
                        /\ users[m.user].org = projects[m.project].org
    BY <1>1 DEF IInv, References, HasProject
  <2> QED
    BY <1>2, <2>1 DEF IInv, References
<1>5. Uniques'
  <2>1. \A m, n \in rows : m.user = n.user /\ m.project = n.project => m = n
    BY DEF IInv, Uniques
  <2> QED
    BY <1>2, <2>1 DEF IInv, Uniques
<1>6. OwnersStay' /\ Evolves(r)
  BY <1>2 DEF IInv, OwnersStay, Evolves
<1>7. RightfulStep(r)
  <2>1. Changed(orgs) = {} /\ Changed(users) = {} /\ Changed(projects) = {} /\ Changed(tokens) = {}
        /\ envs' \ envs = {}
    BY <1>2 DEF Changed
  <2>2. \A m \in (members' \ members) \cup (members \ members') : Leads(r, m.project)
    BY <1>1, <1>2
  <2>3. answer'[r].shown = {}
    BY <1>1, <1>2, WritesShowNothing
  <2> QED
    BY <2>1, <2>2, <2>3 DEF RightfulStep
<1> QED
  BY <1>1, <1>2, <1>3, <1>4, <1>5, <1>6, <1>7, Writes DEF Kept, Tables

\* The row of a user of the active organization
LEMMA RowFits ==
  ASSUME IInv, NEW r \in Requests, pc[r] \in {"insert", "update", "write"},
         call[r].op \in {"member.add", "member.patch"}, who[r].id \in Existing(users),
         NEW u \in UserIds, users[u] # Null, users[u].org = who[r].org
  PROVE  /\ Row(r, u) \in MemberRows /\ Row(r, u).project = call[r].project /\ Row(r, u).user = u
         /\ users[Row(r, u).user] # Null /\ users[Row(r, u).by] # Null
         /\ users[Row(r, u).user].org = who[r].org
<1>1. call[r].project \in ProjectIds
  BY MembersWriter DEF HasProject
<1>2. pc[r] \in Writing
  BY DEF Writing
<1>3. call[r].role \in {"lead", "developer", "reader"}
  BY <1>2, Writer, CallAssumption
<1>4. who[r].id \in UserIds /\ users[who[r].id] # Null
  BY DEF Existing, IInv, Types
<1> QED
  BY <1>1, <1>3, <1>4 DEF Row, MemberRows

\* The first membership of a user who still exists, by a caller who does
LEMMA InsertMemberKeeps ==
  ASSUME IInv, NEW r \in Requests, InsertMember(r) PROVE Kept(r)
<1> DEFINE u == found[r]
           p == call[r].project
           refused == Membership(u, p) # {} \/ {u, who[r].id} \cap Existing(users) # {u, who[r].id}
<1>1. pc[r] = "insert" /\ call[r].op = "member.add" /\ pc[r] # "idle"
  BY DEF InsertMember, At
<1>2. CASE refused
  BY <1>1, <1>2, RefusalKeeps DEF InsertMember, Refused
<1>3. CASE ~refused
  <2>1. Membership(u, p) = {} /\ u \in Existing(users) /\ who[r].id \in Existing(users)
    BY <1>3
  <2>2. ChangeMembers(r, members \cup {Row(r, u)}, "member.added", u)
    BY <1>3 DEF InsertMember
  <2>3. u \in UserIds /\ users[u] # Null /\ users[u].org = who[r].org
    BY <1>1, <2>1 DEF IInv, Positions, TargetOK, InOrg, Existing, Types
  <2>4. /\ Row(r, u) \in MemberRows /\ Row(r, u).project = p /\ Row(r, u).user = u
        /\ users[Row(r, u).user] # Null /\ users[Row(r, u).by] # Null
        /\ users[Row(r, u).user].org = who[r].org
    BY <1>1, <2>1, <2>3, RowFits
  <2>5. \A n \in members : ~(n.user = u /\ n.project = p)
    BY <2>1 DEF Membership
  <2> DEFINE rows == members \cup {Row(r, u)}
  <2>6. \A m \in rows : m \in members \/
          /\ m \in MemberRows /\ m.project = p
          /\ users[m.user] # Null /\ users[m.by] # Null /\ users[m.user].org = who[r].org
          /\ \A n \in rows : n.user = m.user /\ n.project = m.project => n = m
    BY <2>4, <2>5
  <2>7. members \ rows = {}
    OBVIOUS
  <2> QED
    BY <1>1, <2>2, <2>6, <2>7, MembersKeep
<1> QED
  BY <1>2, <1>3

\* The rows of one user in the project, with what the call says of him
LEMMA UpdateKeeps ==
  ASSUME IInv, NEW r \in Requests, pc[r] \in {"update", "write"},
         call[r].op \in {"member.add", "member.patch"},
         NEW u, Membership(u, call[r].project) = {} \/ who[r].id \in Existing(users),
         ChangeMembers(r, (members \ Membership(u, call[r].project))
                            \cup {Row(r, m.user) : m \in Membership(u, call[r].project)},
                       "member.role_changed", u)
  PROVE  Kept(r)
<1> DEFINE p == call[r].project
           old == Membership(u, p)
           new == {Row(r, m.user) : m \in old}
           rows == (members \ old) \cup new
<1>1. HasProject(p, who[r].org)
  BY MembersWriter
<1>2. ASSUME NEW m \in old
      PROVE  /\ m.user = u /\ who[r].id \in Existing(users)
             /\ u \in UserIds /\ users[u] # Null /\ users[u].org = who[r].org
  BY <1>1 DEF Membership, HasProject, IInv, Types, References, MemberRows
<1>3. \A m \in new : /\ m = Row(r, u) /\ who[r].id \in Existing(users)
                     /\ u \in UserIds /\ users[u] # Null /\ users[u].org = who[r].org
  BY <1>2
<1>4. ASSUME NEW m \in new
      PROVE  /\ m \in MemberRows /\ m.project = p /\ m.user = u
             /\ users[m.user] # Null /\ users[m.by] # Null
             /\ users[m.user].org = who[r].org
  BY <1>3, RowFits
<1>5. \A m \in new, n \in rows : n.user = m.user /\ n.project = m.project => n = m
  <2>1. \A n \in members \ old : ~(n.user = u /\ n.project = p)
    BY DEF Membership
  <2> QED
    BY <1>3, <1>4, <2>1
<1>6. \A m \in rows : m \in members \/
        /\ m \in MemberRows /\ m.project = p
        /\ users[m.user] # Null /\ users[m.by] # Null /\ users[m.user].org = who[r].org
        /\ \A n \in rows : n.user = m.user /\ n.project = m.project => n = m
  BY <1>4, <1>5
<1>7. \A m \in members \ rows : m.project = p
  BY DEF Membership
<1> QED
  <2> HIDE DEF new
  <2> QED
    BY <1>6, <1>7, MembersKeep DEF new

\* POST members on a user who is a member
LEMMA UpdateMemberKeeps ==
  ASSUME IInv, NEW r \in Requests, UpdateMember(r) PROVE Kept(r)
<1> DEFINE rows == Membership(found[r], call[r].project)
<1>1. pc[r] = "update" /\ call[r].op = "member.add" /\ pc[r] # "idle"
  BY DEF UpdateMember, At
<1>2. CASE rows # {} /\ who[r].id \notin Existing(users)
  BY <1>1, <1>2, RefusalKeeps DEF UpdateMember, Refused
<1>3. CASE rows = {} \/ who[r].id \in Existing(users)
  BY <1>1, <1>3, UpdateKeeps DEF UpdateMember
<1> QED
  BY <1>2, <1>3

\* PATCH members
LEMMA PatchMemberKeeps ==
  ASSUME IInv, NEW r \in Requests, PatchMember(r) PROVE Kept(r)
<1> DEFINE rows == Membership(call[r].user, call[r].project)
<1>1. pc[r] = "write" /\ call[r].op = "member.patch" /\ pc[r] # "idle"
  BY DEF PatchMember, At
<1>2. CASE rows = {}
  BY <1>1, <1>2, RefusalKeeps DEF PatchMember, Check
<1>3. CASE rows # {} /\ who[r].id \notin Existing(users)
  BY <1>1, <1>3, RefusalKeeps DEF PatchMember, Refused
<1>4. CASE rows # {} /\ who[r].id \in Existing(users)
  BY <1>1, <1>4, UpdateKeeps DEF PatchMember
<1> QED
  BY <1>2, <1>3, <1>4

\* DELETE members
LEMMA RemoveMemberKeeps ==
  ASSUME IInv, NEW r \in Requests, RemoveMember(r) PROVE Kept(r)
<1> DEFINE old == Membership(call[r].user, call[r].project)
           rows == members \ old
<1>1. pc[r] = "write" /\ call[r].op = "member.remove" /\ pc[r] # "idle"
  BY DEF RemoveMember, At
<1>2. CASE old = {}
  BY <1>1, <1>2, RefusalKeeps DEF RemoveMember, Check
<1>3. CASE old # {}
  <2>1. ChangeMembers(r, rows, "member.removed", call[r].user)
    BY <1>3 DEF RemoveMember
  <2>2. \A m \in members \ rows : m.project = call[r].project
    BY DEF Membership
  <2>3. \A m \in rows : m \in members
    OBVIOUS
  <2> QED
    BY <1>1, <2>1, <2>2, <2>3, MembersKeep
<1> QED
  BY <1>2, <1>3

----------------------------------------------------------------------------
(* CLI tokens *)

\* A token for a caller who still exists
LEMMA IssueCliTokenKeeps ==
  ASSUME IInv, NEW r \in Requests, IssueCliToken(r) PROVE Kept(r)
<1> DEFINE u == who[r].id
           row == [user |-> u, revoked |-> FALSE]
<1>1. pc[r] \in Writing /\ pc[r] # "idle"
  BY DEF IssueCliToken, At, Writing
<1>2. CASE u \notin Existing(users)
  BY <1>1, <1>2, RefusalKeeps DEF IssueCliToken, Refused
<1>3. CASE u \in Existing(users)
  <2>1. /\ tokens' = [tokens EXCEPT ![r] = row] /\ Goto(r, "audit")
        /\ UNCHANGED <<orgs, users, owned, projects, envs, members>>
    BY <1>3 DEF IssueCliToken
  <2>2. r \in TokenIds /\ tokens[r] = Null /\ pc[r] \notin Written
    BY <1>1, Writer
  <2>3. u \in UserIds /\ users[u] # Null
    BY <1>3 DEF Existing, IInv, Types
  <2>4. row \in TokenRows /\ row.user = u
    BY <2>3, FALSE \in BOOLEAN DEF TokenRows
  <2> HIDE DEF row
  <2>5. \A t \in TokenIds : tokens'[t] = IF t = r THEN row ELSE tokens[t]
    BY <2>1 DEF IInv, Types
  <2>6. Types'
    BY <2>1, <2>2, <2>4 DEF IInv, Types
  <2>7. References'
    BY <2>1, <2>3, <2>4, <2>5 DEF IInv, References
  <2>8. Uniques' /\ OwnersStay'
    BY <2>1 DEF IInv, Uniques, OwnersStay
  <2>9. Evolves(r)
    BY <2>1, <2>2, <2>5 DEF Evolves
  <2>10. RightfulStep(r)
    <3>1. Changed(tokens) \cap Existing(tokens) = {}
      BY <2>2, <2>5 DEF Changed, Existing, IInv, Types
    <3>2. Changed(orgs) = {} /\ Changed(users) = {} /\ Changed(projects) = {} /\ envs' \ envs = {}
          /\ members' \ members = {} /\ members \ members' = {}
      BY <2>1 DEF Changed
    <3>3. answer'[r].shown = {}
      BY <1>1, <2>1, WritesShowNothing
    <3> QED
      BY <3>1, <3>2, <3>3 DEF RightfulStep
  <2> QED
    BY <1>1, <2>1, <2>6, <2>7, <2>8, <2>9, <2>10, Writes DEF Kept, Tables
<1> QED
  BY <1>2, <1>3

\* A token of the caller, revoked
LEMMA RevokeCliTokenKeeps ==
  ASSUME IInv, NEW r \in Requests, RevokeCliToken(r) PROVE Kept(r)
<1> DEFINE t == call[r].token
           row == [tokens[t] EXCEPT !.revoked = TRUE]
           refused == ~OwnToken(r) \/ tokens[t].revoked
<1>1. pc[r] \in Writing /\ pc[r] # "idle"
  BY DEF RevokeCliToken, At, Writing
<1>2. CASE refused
  BY <1>1, <1>2, RefusalKeeps DEF RevokeCliToken, Check
<1>3. CASE ~refused
  <2>1. /\ tokens' = [tokens EXCEPT ![t].revoked = TRUE] /\ Goto(r, "audit")
        /\ UNCHANGED <<orgs, users, owned, projects, envs, members>>
    BY <1>3 DEF RevokeCliToken
  <2>2. t \in TokenIds /\ tokens[t] # Null /\ tokens[t].user = who[r].id /\ tokens[t] \in TokenRows
    BY <1>3 DEF OwnToken, Existing, IInv, Types
  <2>3. row \in TokenRows /\ row.user = tokens[t].user
    BY <2>2, TRUE \in BOOLEAN DEF TokenRows
  <2>4. \A x \in TokenIds : tokens'[x] = IF x = t THEN row ELSE tokens[x]
    BY <2>1 DEF IInv, Types
  <2> HIDE DEF row
  <2>5. Types'
    <3>1. tokens' = [x \in TokenIds |-> tokens'[x]]
      BY <2>1 DEF IInv, Types
    <3>2. \A x \in TokenIds : tokens'[x] \in TokenRows \cup {Null}
      BY <2>3, <2>4 DEF IInv, Types
    <3>3. tokens' \in [TokenIds -> TokenRows \cup {Null}]
      BY <3>1, <3>2
    <3> QED
      BY <2>1, <3>3 DEF IInv, Types
  <2>6. References'
    BY <2>1, <2>2, <2>3, <2>4 DEF IInv, References
  <2>7. Uniques' /\ OwnersStay'
    BY <2>1 DEF IInv, Uniques, OwnersStay
  <2>8. Evolves(r)
    BY <2>1, <2>2, <2>4 DEF Evolves
  <2>9. RightfulStep(r)
    <3>1. \A x \in Changed(tokens) : x = t
      BY <2>4 DEF Changed, IInv, Types
    <3>2. Changed(orgs) = {} /\ Changed(users) = {} /\ Changed(projects) = {} /\ envs' \ envs = {}
          /\ members' \ members = {} /\ members \ members' = {}
      BY <2>1 DEF Changed
    <3>3. answer'[r].shown = {}
      BY <1>1, <2>1, WritesShowNothing
    <3> QED
      BY <2>2, <3>1, <3>2, <3>3 DEF RightfulStep
  <2> QED
    BY <1>1, <2>1, <2>5, <2>6, <2>7, <2>8, <2>9, Writes DEF Kept, Tables
<1> QED
  BY <1>2, <1>3

----------------------------------------------------------------------------
(* Every step *)

Reads(r) ==
  \/ \E c \in Calls : Arrive(r, c)
  \/ ValidateCliToken(r) \/ LoadUser(r) \/ LoadOrgs(r) \/ LoadMemberships(r)
  \/ ListProjects(r) \/ Whoami(r) \/ ListOrgs(r) \/ ListUsers(r) \/ ListCliTokens(r)
  \/ FindProject(r) \/ GetProject(r) \/ ListMembers(r)
  \/ RegisterCheck(r) \/ InviteCheck(r) \/ TargetCheck(r) \/ CreateProjectCheck(r)
  \/ ProjectCheck(r) \/ EnvironmentCheck(r) \/ FindTarget(r) \/ FindMembership(r)
  \/ RevokeCheck(r) \/ AppendAudit(r)

\* No step of the first kind changes a table.
LEMMA ReadsChangeNothing ==
  ASSUME NEW r \in Requests, Reads(r) PROVE UNCHANGED tables
<1>1. CASE \E c \in Calls : Arrive(r, c)
  BY <1>1 DEF Arrive
<1>2. CASE ValidateCliToken(r) \/ LoadUser(r) \/ LoadOrgs(r) \/ LoadMemberships(r)
  BY <1>2 DEF ValidateCliToken, LoadUser, LoadOrgs, LoadMemberships, Load
<1>3. CASE \/ ListProjects(r) \/ Whoami(r) \/ ListOrgs(r) \/ ListUsers(r) \/ ListCliTokens(r)
           \/ GetProject(r) \/ ListMembers(r)
  BY <1>3 DEF ListProjects, Whoami, ListOrgs, ListUsers, ListCliTokens, GetProject, ListMembers,
              Show, Refused
<1>4. CASE \/ FindProject(r) \/ ProjectCheck(r) \/ FindTarget(r) \/ FindMembership(r)
           \/ AppendAudit(r)
  BY <1>4 DEF FindProject, ProjectCheck, FindTarget, FindMembership, AppendAudit
<1>5. CASE \/ RegisterCheck(r) \/ InviteCheck(r) \/ TargetCheck(r) \/ CreateProjectCheck(r)
           \/ EnvironmentCheck(r) \/ RevokeCheck(r)
  BY <1>5 DEF RegisterCheck, InviteCheck, TargetCheck, CreateProjectCheck, EnvironmentCheck,
              RevokeCheck, Check
<1> QED
  BY <1>1, <1>2, <1>3, <1>4, <1>5 DEF Reads

\* Every step of the first kind is fine.
LEMMA ReadsFine ==
  ASSUME IInv, NEW r \in Requests, Reads(r) PROVE Fine(r)
<1>1. CASE \E c \in Calls : Arrive(r, c)
  BY <1>1, ArriveFine
<1>2. CASE ValidateCliToken(r) \/ LoadUser(r) \/ LoadOrgs(r) \/ LoadMemberships(r)
  BY <1>2, ValidateCliTokenFine, LoadUserFine, LoadOrgsFine, LoadMembershipsFine
<1>3. CASE \/ ListProjects(r) \/ Whoami(r) \/ ListOrgs(r) \/ ListUsers(r) \/ ListCliTokens(r)
           \/ FindProject(r) \/ GetProject(r) \/ ListMembers(r)
  BY <1>3, ListProjectsFine, WhoamiFine, ListOrgsFine, ListUsersFine, ListCliTokensFine,
     FindProjectFine, GetProjectFine, ListMembersFine
<1>4. CASE \/ RegisterCheck(r) \/ InviteCheck(r) \/ TargetCheck(r) \/ CreateProjectCheck(r)
           \/ ProjectCheck(r) \/ EnvironmentCheck(r) \/ FindTarget(r) \/ FindMembership(r)
           \/ RevokeCheck(r) \/ AppendAudit(r)
  BY <1>4, RegisterCheckFine, InviteCheckFine, TargetCheckFine, CreateProjectCheckFine,
     ProjectCheckFine, EnvironmentCheckFine, FindTargetFine, FindMembershipFine,
     RevokeCheckFine, AppendAuditFine
<1> QED
  BY <1>1, <1>2, <1>3, <1>4 DEF Reads

\* Every step of a handler keeps the tables and the request in order.
LEMMA HandleKeeps ==
  ASSUME IInv, NEW r \in Requests, Handle(r) PROVE Kept(r)
<1>1. CASE Reads(r)
  BY <1>1, ReadsChangeNothing, ReadsFine, ReadsKeep
<1>2. CASE \/ Register(r) \/ CreateOrg(r) \/ RenameOrg(r) \/ Invite(r)
           \/ ChangeUserRole(r) \/ RemoveUser(r)
  BY <1>2, RegisterKeeps, CreateOrgKeeps, RenameOrgKeeps, InviteKeeps, ChangeUserRoleKeeps,
     RemoveUserKeeps
<1>3. CASE CreateProject(r) \/ AddEnvironment(r) \/ DeleteProject(r)
  BY <1>3, CreateProjectKeeps, AddEnvironmentKeeps, DeleteProjectKeeps
<1>4. CASE InsertMember(r) \/ UpdateMember(r) \/ PatchMember(r) \/ RemoveMember(r)
  BY <1>4, InsertMemberKeeps, UpdateMemberKeeps, PatchMemberKeeps, RemoveMemberKeeps
<1>5. CASE IssueCliToken(r) \/ RevokeCliToken(r)
  BY <1>5, IssueCliTokenKeeps, RevokeCliTokenKeeps
<1> QED
  BY <1>1, <1>2, <1>3, <1>4, <1>5 DEF Handle, Reads

\* A request that has drawn its id has nothing left to do but its audit event.
LEMMA SpentStays ==
  ASSUME IInv, NEW r \in Requests, Handle(r), pc[r] \in Written
  PROVE  pc'[r] \in Written
<1>1. AppendAudit(r)
  BY DEF Handle, Written, At, Arrive, ValidateCliToken, LoadUser, LoadOrgs, LoadMemberships,
         ListProjects, Whoami, ListOrgs, ListUsers, ListCliTokens, FindProject, GetProject,
         ListMembers, RegisterCheck, Register, CreateOrg, RenameOrg, InviteCheck, Invite,
         TargetCheck, ChangeUserRole, RemoveUser, CreateProjectCheck, CreateProject,
         ProjectCheck, EnvironmentCheck, AddEnvironment, DeleteProject, FindTarget,
         FindMembership, InsertMember, UpdateMember, PatchMember, RemoveMember,
         IssueCliToken, RevokeCheck, RevokeCliToken
<1> QED
  BY <1>1 DEF AppendAudit, Leave, IInv, Locals, Written

\* An event is of the request that appends it.
LEMMA EventsNamed ==
  ASSUME IInv, NEW r \in Requests, Handle(r)
  PROVE  Named'
<1>1. \A e \in audit : e.by \in Requests
  BY DEF IInv, Named
<1>2. CASE AppendAudit(r)
  BY <1>1, <1>2 DEF AppendAudit, Named, Event
<1>3. CASE audit' = audit
  BY <1>1, <1>3 DEF Named
<1>4. \/ \E c \in Calls : Arrive(r, c)
      \/ ValidateCliToken(r) \/ LoadUser(r) \/ LoadOrgs(r) \/ LoadMemberships(r)
      => audit' = audit
  BY DEF Arrive, ValidateCliToken, LoadUser, LoadOrgs, LoadMemberships, Load, Answer
<1>5. \/ ListProjects(r) \/ Whoami(r) \/ ListOrgs(r) \/ ListUsers(r) \/ ListCliTokens(r)
      \/ FindProject(r) \/ GetProject(r) \/ ListMembers(r)
      => audit' = audit
  BY DEF ListProjects, Whoami, ListOrgs, ListUsers, ListCliTokens, FindProject, GetProject,
         ListMembers, Show, Refused, Answer, Goto
<1>6. \/ RegisterCheck(r) \/ InviteCheck(r) \/ TargetCheck(r) \/ CreateProjectCheck(r)
      \/ ProjectCheck(r) \/ EnvironmentCheck(r) \/ FindTarget(r) \/ FindMembership(r)
      \/ RevokeCheck(r)
      => audit' = audit
  BY DEF RegisterCheck, InviteCheck, TargetCheck, CreateProjectCheck, ProjectCheck,
         EnvironmentCheck, FindTarget, FindMembership, RevokeCheck, Check, Answer, Goto, GotoWith
<1>7. \/ Register(r) \/ CreateOrg(r) \/ RenameOrg(r) \/ Invite(r)
      \/ ChangeUserRole(r) \/ RemoveUser(r)
      \/ CreateProject(r) \/ AddEnvironment(r) \/ DeleteProject(r)
      => audit' = audit
  BY DEF Register, CreateOrg, RenameOrg, Invite, ChangeUserRole, RemoveUser, CreateProject,
         AddEnvironment, DeleteProject, Refused, Answer, Goto
<1>8. \/ InsertMember(r) \/ UpdateMember(r) \/ PatchMember(r) \/ RemoveMember(r)
      \/ IssueCliToken(r) \/ RevokeCliToken(r)
      => audit' = audit
  BY DEF InsertMember, UpdateMember, PatchMember, RemoveMember, IssueCliToken, RevokeCliToken,
         ChangeMembers, Refused, Check, Answer, Goto, GotoWith
<1> QED
  BY <1>2, <1>3, <1>4, <1>5, <1>6, <1>7, <1>8 DEF Handle

\* What another request has read stays worth as much: it is about rows that
\* stay where they are, or about rights that it has had.
LEMMA OthersStay ==
  ASSUME IInv, NEW r \in Requests, Kept(r), pc[r] \in Written => pc'[r] \in Written,
         NEW q \in Requests \ {r}
  PROVE  Fresh(q)' /\ CallerOK(q)' /\ TargetOK(q)' /\ Unanswered(q)'
<1>1. /\ pc'[q] = pc[q] /\ call'[q] = call[q] /\ who'[q] = who[q]
      /\ found'[q] = found[q] /\ held'[q] = held[q] /\ answer'[q] = answer[q]
  BY DEF Kept, Fine, Frame
<1>2. Evolves(r) /\ Fresh(q) /\ CallerOK(q) /\ TargetOK(q) /\ Unanswered(q)
  BY DEF Kept, IInv, Positions
<1>3. q \in OrgIds \cap UserIds \cap ProjectIds \cap TokenIds
  BY DEF OrgIds, UserIds, ProjectIds, TokenIds
<1>4. Fresh(q)'
  BY <1>1, <1>2, <1>3 DEF Fresh, Evolves
<1>5. Unanswered(q)'
  BY <1>1, <1>2 DEF Unanswered
<1>6. who[q].orgs \subseteq OrgIds
  BY DEF IInv, Locals, Callers
<1>7. \A o \in who[q].orgs : orgs[o] # Null /\ <<who[q].id, o>> \in owned' => <<who[q].id, o>> \in owned
  <2>1. ASSUME NEW o \in who[q].orgs, orgs[o] # Null, <<who[q].id, o>> \in owned'
        PROVE  <<who[q].id, o>> \in owned
    <3>1. <<who[q].id, o>>[2] = o
      OBVIOUS
    <3> QED
      BY <1>2, <2>1, <3>1 DEF Evolves
  <2> QED
    BY <2>1
<1>8. CallerOK(q)'
  <2>1. \A o \in OrgIds : orgs[o] # Null => orgs'[o] # Null
    BY <1>2 DEF Evolves
  <2>2. Authorize(who'[q], call'[q]) <=> Authorize(who[q], call[q])
    BY <1>1
  <2> QED
    BY <1>1, <1>2, <1>6, <1>7, <2>1, <2>2 DEF CallerOK, Writing, Authorize
<1>9. \A u, o : InOrg(u, o) =>
        /\ u \in UserIds /\ (u \in Requests => pc'[u] \in Written)
        /\ users'[u] # Null => users'[u].org = o
  <2>1. SUFFICES ASSUME NEW u, NEW o, InOrg(u, o)
                 PROVE  /\ u \in UserIds /\ (u \in Requests => pc'[u] \in Written)
                        /\ users'[u] # Null => users'[u].org = o
    OBVIOUS
  <2>2. Known(u) /\ (users[u] # Null => users[u].org = o)
    BY <2>1 DEF InOrg
  <2> QED
    BY <1>2, <2>2, KnownStays DEF Kept, Fine, Evolves, Known
<1>10. \A p, o : HasProject(p, o) => p \in ProjectIds /\ projects'[p] # Null /\ projects'[p].org = o
  BY <1>2 DEF Evolves, HasProject
<1>11. \A o \in OrgIds : orgs[o] # Null => orgs'[o] # Null
  BY <1>2 DEF Evolves
<1>12. TargetOK(q)'
  <2> DEFINE w == who[q]
             c == call[q]
  <2>1. ASSUME pc[q] \in {"find", "insert", "update"}
        PROVE  /\ found[q] \in UserIds /\ (found[q] \in Requests => pc'[found[q]] \in Written)
               /\ users'[found[q]] # Null => users'[found[q]].org = w.org
    BY <1>2, <1>9, <2>1 DEF TargetOK
  <2>2. ASSUME \/ pc[q] \in {"list", "look", "find", "insert", "update"}
               \/ pc[q] = "write" /\ c.op \in ByLead \cup {"project.delete"}
        PROVE  c.project \in ProjectIds /\ projects'[c.project] # Null /\ projects'[c.project].org = w.org
    BY <1>2, <1>10, <2>2 DEF TargetOK
  <2>3. ASSUME pc[q] = "write", c.op \in {"user.role", "user.remove"}
        PROVE  /\ c.user \in UserIds /\ (c.user \in Requests => pc'[c.user] \in Written)
               /\ users'[c.user] # Null => users'[c.user].org = w.org
    BY <1>2, <1>9, <2>3 DEF TargetOK
  <2>4. ASSUME pc[q] = "write", c.op = "invite"
        PROVE  orgs'[TargetOrg(w, c.orgId)] # Null
    BY <1>2, <1>11, <2>4 DEF TargetOK
  <2> QED
    BY <1>1, <1>2, <2>1, <2>2, <2>3, <2>4 DEF TargetOK, InOrg, Known, HasProject, TargetOrg
<1> QED
  BY <1>4, <1>5, <1>8, <1>12

----------------------------------------------------------------------------
(* The invariant *)

\* The initial tables satisfy the invariant by the assumptions on them.
LEMMA InitIInv == Init => IInv
<1> SUFFICES ASSUME Init PROVE IInv
  OBVIOUS
<1>1. /\ \A o \in OrgIds : orgs[o] = IF o \in DOMAIN Orgs0 THEN Orgs0[o] ELSE Null
      /\ \A u \in UserIds : users[u] = IF u \in DOMAIN Users0 THEN Users0[u] ELSE Null
      /\ \A p \in ProjectIds : projects[p] = IF p \in DOMAIN Projects0 THEN Projects0[p] ELSE Null
      /\ \A t \in TokenIds : tokens[t] = IF t \in DOMAIN Tokens0 THEN Tokens0[t] ELSE Null
  BY DEF Init, Extended
<1>2. /\ DOMAIN Orgs0 \subseteq OrgIds /\ DOMAIN Users0 \subseteq UserIds
      /\ DOMAIN Projects0 \subseteq ProjectIds /\ DOMAIN Tokens0 \subseteq TokenIds
  BY DEF OrgIds, UserIds, ProjectIds, TokenIds
<1>3. /\ \A o \in DOMAIN Orgs0 : Orgs0[o] \in KnownNames
      /\ \A u \in DOMAIN Users0 : Users0[u] \in UserRows /\ Users0[u] # Null
      /\ \A t \in DOMAIN Tokens0 : Tokens0[t] \in TokenRows /\ Tokens0[t] # Null
  <2>1. \A o \in DOMAIN Orgs0 : Orgs0[o] \in KnownNames
    BY DEF KnownNames
  <2>2. \A u \in DOMAIN Users0 : Users0[u] \in UserRows
    BY <1>2, DataAssumption DEF UserRows
  <2>3. \A t \in DOMAIN Tokens0 : Tokens0[t] \in TokenRows
    BY <1>2, DataAssumption DEF TokenRows
  <2> QED
    BY <2>1, <2>2, <2>3, IdAssumption
<1>4. \A p \in DOMAIN Projects0 : Projects0[p] \in ProjectRows /\ Projects0[p] # Null
  <2>1. \A p \in DOMAIN Projects0 : Projects0[p] \in ProjectRows
    BY <1>2, DataAssumption DEF ProjectRows
  <2> QED
    BY <2>1, IdAssumption
<1>5. Types
  <2>1. orgs = [o \in OrgIds |-> orgs[o]] /\ users = [u \in UserIds |-> users[u]]
        /\ projects = [p \in ProjectIds |-> projects[p]] /\ tokens = [t \in TokenIds |-> tokens[t]]
    BY DEF Init, Extended
  <2>2. /\ \A o \in OrgIds : orgs[o] \in KnownNames \cup {Null}
        /\ \A u \in UserIds : users[u] \in UserRows \cup {Null}
        /\ \A t \in TokenIds : tokens[t] \in TokenRows \cup {Null}
    BY <1>1, <1>3
  <2>3. \A p \in ProjectIds : projects[p] \in ProjectRows \cup {Null}
    BY <1>1, <1>4
  <2>4. orgs \in [OrgIds -> KnownNames \cup {Null}] /\ users \in [UserIds -> UserRows \cup {Null}]
        /\ projects \in [ProjectIds -> ProjectRows \cup {Null}]
        /\ tokens \in [TokenIds -> TokenRows \cup {Null}]
    BY <2>1, <2>2, <2>3
  <2>5. owned \subseteq UserIds \X OrgIds
    BY <1>2, DataAssumption DEF Init
  <2>6. envs \subseteq ProjectIds \X (KnownNames \cup {"dev"})
    BY <1>2 DEF Init
  <2>7. members \subseteq MemberRows
    BY DataAssumption DEF Init
  <2> QED
    BY <2>4, <2>5, <2>6, <2>7 DEF Types
<1>6. Locals
  <2>1. Nobody \in Callers
    BY DEF Nobody, Callers, Anyone
  <2> QED
    BY <2>1 DEF Init, Locals, Labels
<1>7. References
  <2>1. \A u \in UserIds : users[u] # Null => orgs[users[u].org] # Null
    BY <1>1, <1>2, DataAssumption
  <2>2. \A x \in owned : users[x[1]] # Null /\ orgs[x[2]] # Null
    BY <1>1, <1>2, <1>3, DataAssumption DEF Init
  <2>3. \A p \in ProjectIds : projects[p] # Null => orgs[projects[p].org] # Null
    BY <1>1, <1>2, DataAssumption
  <2>4. \A e \in envs : projects[e[1]] # Null
    BY <1>1, <1>2, <1>4 DEF Init
  <2>5. \A m \in members : /\ users[m.user] # Null /\ users[m.by] # Null /\ projects[m.project] # Null
                           /\ users[m.user].org = projects[m.project].org
    BY <1>1, <1>2, <1>3, <1>4, DataAssumption DEF Init
  <2>6. \A t \in TokenIds : tokens[t] # Null => users[tokens[t].user] # Null
    BY <1>1, <1>2, <1>3, DataAssumption
  <2> QED
    BY <2>1, <2>2, <2>3, <2>4, <2>5, <2>6 DEF References
<1>8. Uniques
  <2>1. \A u, v \in UserIds :
          users[u] # Null /\ users[v] # Null /\ users[u].email = users[v].email
            /\ users[u].org = users[v].org => u = v
    BY <1>1, DataAssumption
  <2>2. \A p, q \in ProjectIds :
          projects[p] # Null /\ projects[q] # Null /\ projects[p].name = projects[q].name
            /\ projects[p].org = projects[q].org => p = q
    BY <1>1, DataAssumption
  <2> QED
    BY <2>1, <2>2, DataAssumption DEF Init, Uniques
<1>9. OwnersStay
  BY <1>1, <1>2, <1>3 DEF OwnersStay
<1>10. Positions
  <2>1. \A r \in Requests : pc[r] = "idle" /\ answer[r] = None
    BY DEF Init
  <2>2. \A r \in Requests : Fresh(r)
    BY <1>1, IdAssumption DEF Fresh, OrgIds, UserIds, ProjectIds, TokenIds
  <2> QED
    BY <2>1, <2>2 DEF Positions, CallerOK, TargetOK, Unanswered, Writing
<1>11. Named
  BY DEF Init, Named
<1> QED
  BY <1>5, <1>6, <1>7, <1>8, <1>9, <1>10, <1>11 DEF IInv

\* A crash forgets what requests have read, and leaves the tables.
LEMMA CrashIInv == IInv /\ Crash => IInv'
<1> SUFFICES ASSUME IInv, Crash PROVE IInv'
  OBVIOUS
<1>1. UNCHANGED tables /\ audit' = audit /\ call' = call /\ answer' = answer
  BY DEF Crash
<1>2. Types' /\ References' /\ Uniques' /\ OwnersStay' /\ Named'
  BY <1>1 DEF IInv, Types, References, Uniques, OwnersStay, Named, tables
<1>3. \A r \in Requests : pc'[r] = IF pc[r] \in {"idle", "done"} THEN pc[r] ELSE "lost"
  BY DEF Crash
<1>4. Locals'
  <2>1. Nobody \in Callers
    BY DEF Nobody, Callers, Anyone
  <2>2. pc' \in [Requests -> Labels]
    BY DEF Crash, IInv, Locals, Labels
  <2> QED
    BY <1>1, <2>1, <2>2 DEF Crash, IInv, Locals
<1>5. ASSUME NEW r \in Requests
      PROVE  Fresh(r)' /\ CallerOK(r)' /\ TargetOK(r)' /\ Unanswered(r)'
  <2>1. Fresh(r)'
    BY <1>1, <1>3 DEF IInv, Positions, Fresh, Written, tables
  <2>2. CallerOK(r)' /\ TargetOK(r)'
    BY <1>1, <1>3 DEF IInv, Positions, CallerOK, TargetOK, Writing
  <2>3. Unanswered(r)'
    BY <1>1, <1>3 DEF IInv, Positions, Unanswered
  <2> QED
    BY <2>1, <2>2, <2>3
<1> QED
  BY <1>2, <1>4, <1>5 DEF IInv, Positions

\* Every step of a handler preserves the invariant.
LEMMA HandleIInv == ASSUME IInv, NEW r \in Requests, Handle(r) PROVE IInv'
<1>1. Kept(r) /\ Named' /\ (pc[r] \in Written => pc'[r] \in Written)
  BY HandleKeeps, EventsNamed, SpentStays
<1>2. Types' /\ Locals' /\ References' /\ Uniques' /\ OwnersStay'
  BY <1>1 DEF Kept, Fine, Tables
<1>3. Fresh(r)' /\ CallerOK(r)' /\ TargetOK(r)' /\ Unanswered(r)'
  BY <1>1 DEF Kept, Fine
<1>4. \A q \in Requests : Fresh(q)' /\ CallerOK(q)' /\ TargetOK(q)' /\ Unanswered(q)'
  BY <1>1, <1>3, OthersStay
<1> QED
  BY <1>1, <1>2, <1>4 DEF IInv, Positions

\* A step that changes nothing does so too.
LEMMA StutterIInv == IInv /\ UNCHANGED vars => IInv'
<1> SUFFICES ASSUME IInv, UNCHANGED vars PROVE IInv'
  OBVIOUS
<1>1. UNCHANGED tables /\ audit' = audit /\ pc' = pc /\ UNCHANGED local /\ answer' = answer
  BY DEF vars
<1>2. Types' /\ References' /\ Uniques' /\ OwnersStay' /\ Named'
  BY <1>1 DEF IInv, Types, References, Uniques, OwnersStay, Named, tables
<1>3. Locals'
  BY <1>1 DEF IInv, Locals, local
<1>4. Positions'
  BY <1>1 DEF IInv, Positions, Fresh, CallerOK, TargetOK, Unanswered, InOrg, Known, HasProject,
              Authorize, TargetOrg, tables, local
<1> QED
  BY <1>2, <1>3, <1>4 DEF IInv

\* The invariant holds in every state: what requests have read, and the rights
\* they have read it by, stays true of the tables until they write.
THEOREM Invariance == Spec => []IInv
<1>1. IInv /\ [Next]_vars => IInv'
  BY HandleIInv, CrashIInv, StutterIInv DEF Next
<1> QED
  BY InitIInv, <1>1, PTL DEF Spec

----------------------------------------------------------------------------
(* What the log tells, and what it is owed *)

\* The events that requests which have written are about to append
Owed == {Event(r) : r \in {q \in Requests : pc[q] = "audit"}}

Log == audit \cup Owed

Tellers(event) == {e.by : e \in {x \in Log : x.event = event}}

RemovedUsers == {call[r].user : r \in Tellers("user.remove")}
DeletedProjects == {call[r].project : r \in Tellers("project.delete")}
AddedEnvs == {<<call[r].project, call[r].name>> : r \in Tellers("env.add")}

About(event, u, p) ==
  {e \in Log : e.event = event /\ e.user = u /\ call[e.by].project = p}

Revokes(t) == {e \in Log : e.event = "token.revoke" /\ call[e.by].token = t}

First(u, p) == {m \in Members0 : m.user = u /\ m.project = p}

\* A request is told of once, when it has written.
LogOK ==
  /\ IsFiniteSet(Log)
  /\ \A e \in Log : e.by \in Requests /\ pc[e.by] \in {"audit", "done"}
  /\ \A e \in audit : pc[e.by] = "done"

\* The ids of what was removed or revoked are spent.
TokenKnown(t) == t \in TokenIds /\ (t \in Requests => pc[t] \in Written)

TargetsKnown ==
  /\ \A u \in RemovedUsers : Known(u)
  /\ \A t \in TokenIds : Revokes(t) # {} => TokenKnown(t)

UsersTold ==
  Existing(users) =
    (DOMAIN Users0 \cup Tellers("register") \cup Tellers("invite")) \ RemovedUsers

OrgsTold ==
  Existing(orgs) = DOMAIN Orgs0 \cup Tellers("register") \cup Tellers("org.create")

ProjectsTold ==
  /\ Existing(projects) = DOMAIN Projects0 \cup Tellers("project.create")
  /\ {p \in Existing(projects) : projects[p].deleted} =
       {p \in DOMAIN Projects0 : Projects0[p].deleted} \cup DeletedProjects

EnvsTold == envs = {<<p, "dev">> : p \in Existing(projects)} \cup AddedEnvs

\* Only for users who have been removed do rows go without an event.
MembersTold ==
  \A u \in UserIds, p \in ProjectIds :
    \/ u \in RemovedUsers
    \/ Cardinality(Membership(u, p)) + Cardinality(About("member.removed", u, p)) =
       Cardinality(First(u, p)) + Cardinality(About("member.added", u, p))

TokensTold ==
  \A t \in TokenIds :
    tokens[t] # Null =>
      /\ t \in Revoked0 => tokens[t].revoked
      /\ Cardinality(Revokes(t)) = IF tokens[t].revoked /\ t \notin Revoked0 THEN 1 ELSE 0

Balanced ==
  /\ LogOK /\ TargetsKnown
  /\ UsersTold /\ OrgsTold /\ ProjectsTold /\ EnvsTold /\ MembersTold /\ TokensTold

AuditInv == crashes \in Nat /\ (crashes = 0 => Balanced)

\* A step of r that adds the events `new` to what is told or owed
Logs(r, new) ==
  /\ Log' = Log \cup new
  /\ \A e \in new : e.by = r
  /\ \A e \in Log : call'[e.by] = call[e.by]
  /\ new # {} => call'[r] = call[r] /\ \A e \in Log : e.by # r

\* A step that writes nothing
LEMMA LogsNothing ==
  ASSUME LogOK, NEW r \in Requests, Frame(r),
         pc[r] \notin {"audit", "done"}, pc'[r] # "audit", audit' = audit
  PROVE  Logs(r, {})
<1>1. \A q \in Requests : pc'[q] = "audit" <=> pc[q] = "audit"
  BY DEF Frame
<1>2. \A q \in Requests : pc[q] = "audit" => Event(q)' = Event(q)
  BY DEF Frame, Event
<1>3. Owed' = Owed
  BY <1>1, <1>2 DEF Owed
<1>4. \A e \in Log : call'[e.by] = call[e.by]
  BY DEF LogOK, Frame
<1> QED
  BY <1>3, <1>4 DEF Logs, Log

\* The event that was owed is in the log.
LEMMA LogsOwed ==
  ASSUME IInv, LogOK, NEW r \in Requests, AppendAudit(r)
  PROVE  Logs(r, {})
<1>1. pc[r] = "audit" /\ audit' = audit \cup {Event(r)} /\ pc'[r] = "done" /\ call' = call
  BY DEF AppendAudit, Leave, IInv, Locals
<1>2. Frame(r)
  BY AppendAuditFine DEF Fine
<1>3. \A q \in Requests \ {r} : (pc'[q] = "audit" <=> pc[q] = "audit") /\ Event(q)' = Event(q)
  BY <1>2 DEF Frame, Event
<1>4. Owed = Owed' \cup {Event(r)}
  <2>1. ASSUME NEW e \in Owed PROVE e \in Owed' \cup {Event(r)}
    <3>1. PICK q \in Requests : pc[q] = "audit" /\ e = Event(q)
      BY DEF Owed
    <3> QED
      BY <3>1, <1>3 DEF Owed
  <2>2. ASSUME NEW e \in Owed' PROVE e \in Owed
    <3>1. PICK q \in Requests : pc'[q] = "audit" /\ e = Event(q)'
      BY DEF Owed
    <3>2. q # r
      BY <1>1, <3>1
    <3> QED
      BY <3>1, <3>2, <1>3 DEF Owed
  <2>3. Event(r) \in Owed
    BY <1>1 DEF Owed
  <2> QED
    BY <2>1, <2>2, <2>3
<1> QED
  BY <1>1, <1>4 DEF Logs, Log

\* A write, and the event it will be told by
LEMMA LogsWrite ==
  ASSUME IInv, LogOK, NEW r \in Requests, pc[r] \in Writing,
         NEW f, Goto(r, "audit") \/ GotoWith(r, "audit", f), NEW E, E = Event(r)'
  PROVE  /\ Logs(r, {E}) /\ Frame(r)
         /\ pc'[r] = "audit" /\ audit' = audit /\ crashes' = crashes
<1>1. Locals' /\ Frame(r) /\ Went(r, "audit")
  BY Goes, GoesWith DEF IInv, Labels
<1>2. audit' = audit /\ crashes' = crashes /\ call'[r] = call[r] /\ pc'[r] = "audit"
  BY <1>1 DEF Goto, GotoWith, Went
<1>3. \A q \in Requests \ {r} : (pc'[q] = "audit" <=> pc[q] = "audit") /\ Event(q)' = Event(q)
  BY <1>1 DEF Frame, Event
<1>4. pc[r] \notin {"audit", "done"}
  BY DEF Writing
<1>5. Owed' = Owed \cup {E}
  <2>1. ASSUME NEW e \in Owed' PROVE e \in Owed \cup {E}
    <3>1. PICK q \in Requests : pc'[q] = "audit" /\ e = Event(q)'
      BY DEF Owed
    <3> QED
      BY <3>1, <1>3 DEF Owed
  <2>2. ASSUME NEW e \in Owed PROVE e \in Owed'
    <3>1. PICK q \in Requests : pc[q] = "audit" /\ e = Event(q)
      BY DEF Owed
    <3>2. q # r
      BY <1>4, <3>1
    <3> QED
      BY <3>1, <3>2, <1>3 DEF Owed
  <2>3. E \in Owed'
    BY <1>2 DEF Owed
  <2> QED
    BY <2>1, <2>2, <2>3
<1>6. E.by = r
  BY DEF Event
<1>7. \A e \in Log : e.by # r /\ call'[e.by] = call[e.by]
  BY <1>1, <1>4 DEF LogOK, Frame
<1> QED
  BY <1>1, <1>2, <1>5, <1>6, <1>7 DEF Logs, Log

----------------------------------------------------------------------------
(* What a step with and without an event of a kind does to the accounts *)

\* Requests told of so far are told of, and nobody asks anything else.
LEMMA Untold ==
  ASSUME NEW r, NEW new, Logs(r, new), NEW event, \A e \in new : e.event # event
  PROVE  Tellers(event)' = Tellers(event) /\ \A q \in Tellers(event) : call'[q] = call[q]
  BY DEF Logs, Tellers

LEMMA Tells ==
  ASSUME NEW r, NEW E, Logs(r, {E}), NEW event, E.event = event
  PROVE  /\ Tellers(event)' = Tellers(event) \cup {r}
         /\ \A q \in Tellers(event) \cup {r} : call'[q] = call[q]
  BY DEF Logs, Tellers

LEMMA UsersStayTold ==
  ASSUME NEW r, NEW new, Logs(r, new), UsersTold, Existing(users)' = Existing(users),
         \A e \in new : e.event \notin {"register", "invite", "user.remove"}
  PROVE  UsersTold' /\ RemovedUsers' = RemovedUsers
<1>1. /\ Tellers("register")' = Tellers("register") /\ Tellers("invite")' = Tellers("invite")
      /\ Tellers("user.remove")' = Tellers("user.remove")
      /\ \A q \in Tellers("user.remove") : call'[q] = call[q]
  BY Untold
<1>2. RemovedUsers' = RemovedUsers
  BY <1>1 DEF RemovedUsers
<1> QED
  BY <1>1, <1>2 DEF UsersTold

LEMMA OrgsStayTold ==
  ASSUME NEW r, NEW new, Logs(r, new), OrgsTold, Existing(orgs)' = Existing(orgs),
         \A e \in new : e.event \notin {"register", "org.create"}
  PROVE  OrgsTold'
  BY Untold DEF OrgsTold

LEMMA ProjectsStayTold ==
  ASSUME NEW r, NEW new, Logs(r, new), ProjectsTold, projects' = projects,
         \A e \in new : e.event \notin {"project.create", "project.delete"}
  PROVE  ProjectsTold'
<1>1. /\ Tellers("project.create")' = Tellers("project.create")
      /\ Tellers("project.delete")' = Tellers("project.delete")
      /\ \A q \in Tellers("project.delete") : call'[q] = call[q]
  BY Untold
<1>2. DeletedProjects' = DeletedProjects
  BY <1>1 DEF DeletedProjects
<1>3. Existing(projects)' = Existing(projects)
  BY DEF Existing
<1> QED
  BY <1>1, <1>2, <1>3 DEF ProjectsTold

LEMMA EnvsStayTold ==
  ASSUME NEW r, NEW new, Logs(r, new), EnvsTold, envs' = envs,
         Existing(projects)' = Existing(projects), \A e \in new : e.event # "env.add"
  PROVE  EnvsTold'
<1>1. AddedEnvs' = AddedEnvs
  BY Untold DEF AddedEnvs
<1> QED
  BY <1>1 DEF EnvsTold

\* Requests to remove a user stay told.
LEMMA RemovedStay ==
  ASSUME NEW r, NEW new, Logs(r, new) PROVE RemovedUsers \subseteq RemovedUsers'
<1>1. \A q \in Tellers("user.remove") : q \in Tellers("user.remove")' /\ call'[q] = call[q]
  BY DEF Logs, Tellers
<1> QED
  BY <1>1 DEF RemovedUsers

LEMMA AboutStays ==
  ASSUME NEW r, NEW new, Logs(r, new), NEW event, NEW u, NEW p,
         \A e \in new : ~(e.event = event /\ e.user = u /\ call'[e.by].project = p)
  PROVE  About(event, u, p)' = About(event, u, p)
  BY DEF Logs, About

LEMMA MembersStayTold ==
  ASSUME NEW r, NEW new, Logs(r, new), MembersTold,
         \A u \in UserIds, p \in ProjectIds :
           u \in RemovedUsers' \/ Cardinality(Membership(u, p)') = Cardinality(Membership(u, p)),
         \A e \in new : e.event \notin {"member.added", "member.removed"}
  PROVE  MembersTold'
<1> SUFFICES ASSUME NEW u \in UserIds, NEW p \in ProjectIds, u \notin RemovedUsers'
             PROVE  (Cardinality(Membership(u, p)) + Cardinality(About("member.removed", u, p)))' =
                    (Cardinality(First(u, p)) + Cardinality(About("member.added", u, p)))'
  BY DEF MembersTold
<1>1. /\ About("member.removed", u, p)' = About("member.removed", u, p)
      /\ About("member.added", u, p)' = About("member.added", u, p)
  BY AboutStays
<1>2. u \notin RemovedUsers
  BY RemovedStay
<1>3. Cardinality(Membership(u, p)') = Cardinality(Membership(u, p))
  OBVIOUS
<1>4. First(u, p)' = First(u, p)
  BY DEF First
<1> QED
  BY <1>1, <1>2, <1>3, <1>4 DEF MembersTold

LEMMA RevokesStay ==
  ASSUME NEW r, NEW new, Logs(r, new), NEW t,
         \A e \in new : ~(e.event = "token.revoke" /\ call'[e.by].token = t)
  PROVE  Revokes(t)' = Revokes(t)
  BY DEF Logs, Revokes

\* A token that appears is told of by no revocation.
LEMMA TokensStayTold ==
  ASSUME NEW r, NEW new, Logs(r, new), TokensTold,
         \A t \in TokenIds : tokens'[t] # Null =>
           \/ (tokens[t] # Null /\ tokens'[t].revoked = tokens[t].revoked)
           \/ (Revokes(t) = {} /\ t \notin Revoked0 /\ tokens'[t].revoked = FALSE),
         \A e \in new : e.event # "token.revoke"
  PROVE  TokensTold'
<1> SUFFICES ASSUME NEW t \in TokenIds, tokens'[t] # Null
             PROVE  /\ t \in Revoked0 => tokens'[t].revoked
                    /\ Cardinality(Revokes(t)') =
                       IF tokens'[t].revoked /\ t \notin Revoked0 THEN 1 ELSE 0
  BY DEF TokensTold, Revoked0
<1>1. Revokes(t)' = Revokes(t)
  BY RevokesStay
<1>2. CASE tokens[t] # Null /\ tokens'[t].revoked = tokens[t].revoked
  BY <1>1, <1>2 DEF TokensTold
<1>3. CASE Revokes(t) = {} /\ t \notin Revoked0 /\ tokens'[t].revoked = FALSE
  BY <1>1, <1>3, FS_EmptySet
<1> QED
  BY <1>2, <1>3

\* A step of r, as far as the log itself is concerned
LEMMA LogStays ==
  ASSUME LogOK, NEW r \in Requests, NEW new, Logs(r, new), IsFiniteSet(new), Frame(r),
         pc[r] \in {"audit", "done"} \/ new # {} => pc'[r] \in {"audit", "done"},
         pc[r] # "done",
         \A e \in audit' : e \in audit \/ (e.by = r /\ pc'[r] = "done")
  PROVE  LogOK'
<1>1. Log' = Log \cup new /\ \A e \in new : e.by = r
  BY DEF Logs
<1>2. IsFiniteSet(Log')
  BY <1>1, FS_Union DEF LogOK
<1>3. \A e \in Log' : e.by \in Requests /\ pc'[e.by] \in {"audit", "done"}
  BY <1>1 DEF LogOK, Frame
<1>4. \A e \in audit' : pc'[e.by] = "done"
  BY <1>1 DEF LogOK, Frame, Log
<1> QED
  BY <1>2, <1>3, <1>4 DEF LogOK

\* Spent ids stay spent.
LEMMA TargetsStay ==
  ASSUME TargetsKnown, NEW r \in Requests, NEW new, Logs(r, new), Frame(r),
         pc[r] \in Written => pc'[r] \in Written,
         \A e \in new : e.event \notin {"user.remove", "token.revoke"}
  PROVE  TargetsKnown'
<1>1. RemovedUsers' = RemovedUsers
  BY Untold DEF RemovedUsers
<1>2. ASSUME NEW u \in RemovedUsers PROVE Known(u)'
  BY <1>2, KnownStays DEF TargetsKnown, Known
<1>3. ASSUME NEW t \in TokenIds, Revokes(t)' # {} PROVE TokenKnown(t)'
  <2>1. Revokes(t)' = Revokes(t)
    BY RevokesStay
  <2>2. TokenKnown(t)
    BY <1>3, <2>1 DEF TargetsKnown
  <2> QED
    BY <2>2 DEF TokenKnown, Frame
<1> QED
  BY <1>1, <1>2, <1>3 DEF TargetsKnown

----------------------------------------------------------------------------
(* The writes, each with the events that account for it *)

MemberOps == {"member.add", "member.patch", "member.remove"}

\* What a handler has done to the log when it has written
Wrote(r, E) ==
  /\ Logs(r, {E}) /\ Frame(r) /\ LogOK' /\ E.by = r
  /\ E.event \notin {"user.remove", "token.revoke"} => TargetsKnown'

LEMMA Recorded ==
  ASSUME IInv, LogOK, TargetsKnown, NEW r \in Requests, pc[r] \in Writing,
         NEW f, Goto(r, "audit") \/ GotoWith(r, "audit", f), NEW E, E = Event(r)'
  PROVE  Wrote(r, E)
<1>1. Logs(r, {E}) /\ Frame(r) /\ pc'[r] = "audit" /\ audit' = audit
  BY LogsWrite
<1>2. pc[r] \notin Written
  BY DEF Writing, Written
<1>3. IsFiniteSet({E}) /\ E.by = r
  BY FS_Singleton DEF Event
<1>4. LogOK'
  BY <1>1, <1>2, <1>3, LogStays DEF Written
<1>5. E.event \notin {"user.remove", "token.revoke"} => TargetsKnown'
  BY <1>1, <1>2, TargetsStay
<1> QED
  BY <1>1, <1>3, <1>4, <1>5 DEF Wrote

LEMMA WroteCall ==
  ASSUME IInv, LogOK, TargetsKnown, NEW r \in Requests, pc[r] \in Writing, Goto(r, "audit"),
         call[r].op \notin MemberOps
  PROVE  \E E : Wrote(r, E) /\ E.event = call[r].op
<1>1. PICK E : E = Event(r)'
  OBVIOUS
<1>2. E.event = call[r].op
  BY <1>1 DEF Goto, local, Event, MemberOps
<1> QED
  BY <1>1, <1>2, Recorded

LEMMA WroteMember ==
  ASSUME IInv, LogOK, TargetsKnown, NEW r \in Requests, pc[r] \in Writing,
         NEW event, NEW u, GotoWith(r, "audit", [event |-> event, user |-> u]),
         call[r].op \in MemberOps
  PROVE  \E E : Wrote(r, E) /\ E.event = event /\ E.user = u
<1>1. PICK E : E = Event(r)'
  OBVIOUS
<1>2. found'[r] = [event |-> event, user |-> u]
  BY GoesWith DEF IInv, Labels
<1>3. E.event = event /\ E.user = u
  BY <1>1, <1>2 DEF GotoWith, Event, MemberOps
<1> QED
  BY <1>1, <1>3, Recorded

\* Steps that change no table and owe no event
LEMMA NothingTold ==
  ASSUME Balanced, NEW r \in Requests, Logs(r, {}), Frame(r), UNCHANGED tables,
         pc[r] \in Written => pc'[r] \in Written, LogOK'
  PROVE  Balanced'
<1>1. UNCHANGED <<orgs, users, projects, envs, members, tokens>>
  BY DEF tables
<1>2. TargetsKnown'
  BY TargetsStay DEF Balanced
<1>3. UsersTold' /\ OrgsTold' /\ ProjectsTold' /\ EnvsTold'
  BY <1>1, UsersStayTold, OrgsStayTold, ProjectsStayTold, EnvsStayTold DEF Balanced, Existing
<1>4. MembersTold'
  <2>1. \A u, p : Membership(u, p)' = Membership(u, p)
    BY <1>1 DEF Membership
  <2> QED
    BY <2>1, MembersStayTold DEF Balanced
<1>5. TokensTold'
  <2>1. TokensTold /\ \A e \in {} : e.event # "token.revoke"
    BY DEF Balanced
  <2>2. \A t \in TokenIds : tokens'[t] # Null =>
          \/ (tokens[t] # Null /\ tokens'[t].revoked = tokens[t].revoked)
          \/ (Revokes(t) = {} /\ t \notin Revoked0 /\ tokens'[t].revoked = FALSE)
    BY <1>1
  <2> QED
    BY <2>1, <2>2, TokensStayTold
<1> QED
  BY <1>2, <1>3, <1>4, <1>5 DEF Balanced

LEMMA RefusalTold ==
  ASSUME IInv, Balanced, NEW r \in Requests, pc[r] \in Writing, UNCHANGED tables,
         NEW code, Answer(r, code)
  PROVE  Balanced'
<1>1. pc[r] # "idle" /\ pc[r] \notin Written
  BY DEF Writing, Written
<1>2. Frame(r) /\ pc'[r] = "done" /\ audit' = audit
  BY <1>1, FineRefusal DEF Fine, Answer, Leave, IInv, Locals
<1>3. Logs(r, {})
  BY <1>1, <1>2, LogsNothing DEF Balanced, Written
<1>4. LogOK'
  BY <1>1, <1>2, <1>3, LogStays, FS_EmptySet DEF Balanced, Written
<1> QED
  BY <1>1, <1>2, <1>3, <1>4, NothingTold

\* Tables that a write leaves alone
LEMMA MembersSame ==
  ASSUME NEW r, NEW E, Logs(r, {E}), MembersTold, members' = members,
         E.event \notin {"member.added", "member.removed"}
  PROVE  MembersTold'
<1>1. \A u, p : Membership(u, p)' = Membership(u, p)
  BY DEF Membership
<1> QED
  BY <1>1, MembersStayTold

LEMMA TokensSame ==
  ASSUME NEW r, NEW E, Logs(r, {E}), TokensTold, tokens' = tokens, E.event # "token.revoke"
  PROVE  TokensTold'
<1>1. \A t \in TokenIds : tokens'[t] # Null => tokens[t] # Null /\ tokens'[t].revoked = tokens[t].revoked
  OBVIOUS
<1> QED
  BY <1>1, TokensStayTold

\* The id of a request that writes has not been told of.
LEMMA WriterUntold ==
  ASSUME IInv, Balanced, NEW r \in Requests, pc[r] \in Writing
  PROVE  r \notin RemovedUsers /\ Revokes(r) = {}
<1>1. pc[r] \notin Written /\ r \in TokenIds
  BY Writer
<1> QED
  BY <1>1 DEF Balanced, TargetsKnown, Known, TokenKnown

\* A user and his organization
LEMMA RegisterTold ==
  ASSUME IInv, Balanced, NEW r \in Requests, Register(r) PROVE Balanced'
<1>1. /\ pc[r] = "write" /\ call[r].op = "register" /\ Goto(r, "audit")
      /\ orgs' = [orgs EXCEPT ![r] = call[r].name]
      /\ users' = [users EXCEPT ![r] = [org |-> r, email |-> call[r].email, role |-> "owner"]]
      /\ UNCHANGED <<owned, projects, envs, members, tokens>>
  BY DEF Register, At
<1>2. PICK E : Wrote(r, E) /\ E.event = "register"
  BY <1>1, WroteCall DEF Balanced, Writing, MemberOps
<1>3. Logs(r, {E}) /\ LogOK' /\ TargetsKnown'
  BY <1>2 DEF Wrote
<1>4. /\ r \in OrgIds /\ r \in UserIds /\ call[r] \in Calls /\ call[r].email \in KnownEmails
      /\ pc[r] \in Writing
  BY <1>1, Writer DEF Writing
<1>5. Existing(orgs)' = Existing(orgs) \cup {r}
  <2>1. call[r].name # Null
    BY <1>1, <1>4, CallAssumption
  <2> QED
    BY <1>1, <1>4, <2>1 DEF Existing, IInv, Types
<1>6. Existing(users)' = Existing(users) \cup {r}
  <2>1. [org |-> r, email |-> call[r].email, role |-> "owner"] \in UserRows
    BY <1>4 DEF UserRows, Roles
  <2>2. [org |-> r, email |-> call[r].email, role |-> "owner"] # Null
    BY <2>1, IdAssumption
  <2> QED
    BY <1>1, <1>4, <2>2 DEF Existing, IInv, Types
<1>7. Tellers("register")' = Tellers("register") \cup {r} /\ Tellers("invite")' = Tellers("invite")
      /\ Tellers("org.create")' = Tellers("org.create")
  <2>1. Tellers("register")' = Tellers("register") \cup {r}
    BY <1>2, <1>3, Tells
  <2>2. Tellers("invite")' = Tellers("invite") /\ Tellers("org.create")' = Tellers("org.create")
    BY <1>2, <1>3, Untold
  <2> QED
    BY <2>1, <2>2
<1>8. RemovedUsers' = RemovedUsers /\ r \notin RemovedUsers
  BY <1>2, <1>3, <1>4, Untold, WriterUntold DEF RemovedUsers
<1>9. UsersTold' /\ OrgsTold'
  BY <1>5, <1>6, <1>7, <1>8 DEF Balanced, UsersTold, OrgsTold
<1>10. ProjectsTold' /\ EnvsTold'
  BY <1>1, <1>2, <1>3, ProjectsStayTold, EnvsStayTold DEF Balanced, Existing
<1>11. MembersTold' /\ TokensTold'
  BY <1>1, <1>2, <1>3, MembersSame, TokensSame DEF Balanced
<1> QED
  BY <1>3, <1>9, <1>10, <1>11 DEF Balanced

\* An organization of a user who exists
LEMMA CreateOrgTold ==
  ASSUME IInv, Balanced, NEW r \in Requests, CreateOrg(r) PROVE Balanced'
<1>1. pc[r] = "check" /\ call[r].op = "org.create" /\ pc[r] \in Writing
  BY DEF CreateOrg, At, Writing
<1>2. CASE who[r].id \notin Existing(users)
  BY <1>1, <1>2, RefusalTold DEF CreateOrg, Refused
<1>3. CASE who[r].id \in Existing(users)
  <2>1. /\ Goto(r, "audit") /\ orgs' = [orgs EXCEPT ![r] = call[r].name]
        /\ UNCHANGED <<users, projects, envs, members, tokens>>
    BY <1>3 DEF CreateOrg
  <2>2. PICK E : Wrote(r, E) /\ E.event = "org.create"
    BY <1>1, <2>1, WroteCall DEF Balanced, MemberOps
  <2>3. Logs(r, {E}) /\ LogOK' /\ TargetsKnown'
    BY <2>2 DEF Wrote
  <2>4. r \in OrgIds /\ call[r].name # Null
    BY <1>1, Writer, CallAssumption
  <2>5. Existing(orgs)' = Existing(orgs) \cup {r}
    BY <2>1, <2>4 DEF Existing, IInv, Types
  <2>6. Tellers("org.create")' = Tellers("org.create") \cup {r}
        /\ Tellers("register")' = Tellers("register")
    <3>1. Tellers("org.create")' = Tellers("org.create") \cup {r}
      BY <2>2, <2>3, Tells
    <3>2. Tellers("register")' = Tellers("register")
      BY <2>2, <2>3, Untold
    <3> QED
      BY <3>1, <3>2
  <2>7. OrgsTold'
    BY <2>5, <2>6 DEF Balanced, OrgsTold
  <2>8. UsersTold' /\ ProjectsTold' /\ EnvsTold'
    BY <2>1, <2>2, <2>3, UsersStayTold, ProjectsStayTold, EnvsStayTold DEF Balanced, Existing
  <2>9. MembersTold' /\ TokensTold'
    BY <2>1, <2>2, <2>3, MembersSame, TokensSame DEF Balanced
  <2> QED
    BY <2>3, <2>7, <2>8, <2>9 DEF Balanced
<1> QED
  BY <1>2, <1>3

\* The name of an organization that exists
LEMMA RenameOrgTold ==
  ASSUME IInv, Balanced, NEW r \in Requests, RenameOrg(r) PROVE Balanced'
<1>1. /\ pc[r] = "check" /\ call[r].op = "org.rename" /\ pc[r] \in Writing /\ Goto(r, "audit")
      /\ orgs' = [orgs EXCEPT ![who[r].org] = call[r].name]
      /\ UNCHANGED <<users, projects, envs, members, tokens>>
  BY DEF RenameOrg, At, Writing
<1>2. PICK E : Wrote(r, E) /\ E.event = "org.rename"
  BY <1>1, WroteCall DEF Balanced, MemberOps
<1>3. Logs(r, {E}) /\ LogOK' /\ TargetsKnown'
  BY <1>2 DEF Wrote
<1>4. who[r].org \in OrgIds /\ orgs[who[r].org] # Null /\ call[r].name # Null
  BY <1>1, Writer, CallAssumption DEF IInv, Positions, CallerOK
<1>5. Existing(orgs)' = Existing(orgs)
  BY <1>1, <1>4 DEF Existing, IInv, Types
<1>6. UsersTold' /\ OrgsTold' /\ ProjectsTold' /\ EnvsTold'
  BY <1>1, <1>2, <1>3, <1>5, UsersStayTold, OrgsStayTold, ProjectsStayTold, EnvsStayTold
     DEF Balanced, Existing
<1>7. MembersTold' /\ TokensTold'
  BY <1>1, <1>2, <1>3, MembersSame, TokensSame DEF Balanced
<1> QED
  BY <1>3, <1>6, <1>7 DEF Balanced

\* A user of an organization that exists
LEMMA InviteTold ==
  ASSUME IInv, Balanced, NEW r \in Requests, Invite(r) PROVE Balanced'
<1> DEFINE target == TargetOrg(who[r], call[r].orgId)
           row == [org |-> target, email |-> call[r].email, role |-> call[r].role]
<1>1. pc[r] = "write" /\ call[r].op = "invite" /\ pc[r] \in Writing
  BY DEF Invite, At, Writing
<1>2. CASE UserIn(call[r].email, target) # {}
  BY <1>1, <1>2, RefusalTold DEF Invite, Refused
<1>3. CASE UserIn(call[r].email, target) = {}
  <2>1. /\ Goto(r, "audit") /\ users' = [users EXCEPT ![r] = row]
        /\ UNCHANGED <<orgs, projects, envs, members, tokens>>
    BY <1>3 DEF Invite
  <2>2. PICK E : Wrote(r, E) /\ E.event = "invite"
    BY <1>1, <2>1, WroteCall DEF Balanced, MemberOps
  <2>3. Logs(r, {E}) /\ LogOK' /\ TargetsKnown'
    BY <2>2 DEF Wrote
  <2>4. row # Null /\ r \in UserIds
    <3>1. target \in OrgIds
      BY <1>1 DEF IInv, Positions, TargetOK
    <3>2. call[r].role \in Roles /\ call[r].email \in KnownEmails /\ r \in UserIds
      BY <1>1, Writer, CallAssumption
    <3>3. row \in UserRows
      BY <3>1, <3>2 DEF UserRows
    <3> QED
      BY <3>2, <3>3, IdAssumption
  <2>5. Existing(users)' = Existing(users) \cup {r}
    <3> HIDE DEF row
    <3> QED
      BY <2>1, <2>4 DEF Existing, IInv, Types
  <2>6. Tellers("invite")' = Tellers("invite") \cup {r}
        /\ Tellers("register")' = Tellers("register")
    <3>1. Tellers("invite")' = Tellers("invite") \cup {r}
      BY <2>2, <2>3, Tells
    <3>2. Tellers("register")' = Tellers("register")
      BY <2>2, <2>3, Untold
    <3> QED
      BY <3>1, <3>2
  <2>7. RemovedUsers' = RemovedUsers /\ r \notin RemovedUsers
    BY <1>1, <2>2, <2>3, Untold, WriterUntold DEF RemovedUsers
  <2>8. UsersTold'
    BY <2>5, <2>6, <2>7 DEF Balanced, UsersTold
  <2>9. OrgsTold' /\ ProjectsTold' /\ EnvsTold'
    BY <2>1, <2>2, <2>3, OrgsStayTold, ProjectsStayTold, EnvsStayTold DEF Balanced, Existing
  <2>10. MembersTold' /\ TokensTold'
    BY <2>1, <2>2, <2>3, MembersSame, TokensSame DEF Balanced
  <2> QED
    BY <2>3, <2>8, <2>9, <2>10 DEF Balanced
<1> QED
  BY <1>2, <1>3

\* A user is changed, not made.
LEMMA ChangeUserRoleTold ==
  ASSUME IInv, Balanced, NEW r \in Requests, ChangeUserRole(r) PROVE Balanced'
<1> DEFINE u == call[r].user
<1>1. /\ pc[r] = "write" /\ call[r].op = "user.role" /\ pc[r] \in Writing /\ Goto(r, "audit")
      /\ users' = IF u \in Existing(users) THEN [users EXCEPT ![u].role = call[r].role] ELSE users
      /\ UNCHANGED <<orgs, projects, envs, members, tokens>>
  BY DEF ChangeUserRole, At, Writing
<1>2. PICK E : Wrote(r, E) /\ E.event = "user.role"
  BY <1>1, WroteCall DEF Balanced, MemberOps
<1>3. Logs(r, {E}) /\ LogOK' /\ TargetsKnown'
  BY <1>2 DEF Wrote
<1>4. Existing(users)' = Existing(users)
  <2>1. CASE u \in Existing(users)
    <3>1. u \in UserIds /\ users[u] \in UserRows
      BY <2>1 DEF Existing, IInv, Types
    <3>2. call[r].role \in Roles
      BY <1>1, Writer, CallAssumption
    <3>3. [users[u] EXCEPT !.role = call[r].role] \in UserRows
      BY <3>1, <3>2 DEF UserRows
    <3>4. [users[u] EXCEPT !.role = call[r].role] # Null
      BY <3>3, IdAssumption
    <3>5. users' = [users EXCEPT ![u] = [users[u] EXCEPT !.role = call[r].role]]
      BY <1>1, <2>1
    <3> QED
      BY <2>1, <3>1, <3>4, <3>5 DEF Existing, IInv, Types
  <2>2. CASE u \notin Existing(users)
    BY <1>1, <2>2 DEF Existing
  <2> QED
    BY <2>1, <2>2
<1>5. UsersTold' /\ OrgsTold' /\ ProjectsTold' /\ EnvsTold'
  <2>1. UsersTold'
    BY <1>2, <1>3, <1>4, UsersStayTold DEF Balanced
  <2> QED
    BY <1>1, <1>2, <1>3, <2>1, OrgsStayTold, ProjectsStayTold, EnvsStayTold DEF Balanced, Existing
<1>6. MembersTold' /\ TokensTold'
  BY <1>1, <1>2, <1>3, MembersSame, TokensSame DEF Balanced
<1> QED
  BY <1>3, <1>5, <1>6 DEF Balanced

\* A user is removed, and told of; with him go his memberships and tokens.
LEMMA RemoveUserTold ==
  ASSUME IInv, Balanced, NEW r \in Requests, RemoveUser(r) PROVE Balanced'
<1> DEFINE u == call[r].user
<1>1. pc[r] = "write" /\ call[r].op = "user.remove" /\ pc[r] \in Writing
  BY DEF RemoveUser, At, Writing
<1>2. CASE StillReferred(u)
  BY <1>1, <1>2, RefusalTold DEF RemoveUser, Refused
<1>3. CASE ~StillReferred(u)
  <2>1. /\ Goto(r, "audit") /\ users' = [users EXCEPT ![u] = Null]
        /\ members' = {m \in members : m.user # u}
        /\ tokens' = [t \in TokenIds |-> IF t \in Existing(tokens) /\ tokens[t].user = u
                                         THEN Null ELSE tokens[t]]
        /\ UNCHANGED <<orgs, projects, envs>>
    BY <1>3 DEF RemoveUser
  <2>2. PICK E : Wrote(r, E) /\ E.event = "user.remove"
    BY <1>1, <2>1, WroteCall DEF Balanced, MemberOps
  <2>3. Logs(r, {E}) /\ LogOK' /\ Frame(r)
    BY <2>2 DEF Wrote
  <2>4. Known(u)
    BY <1>1 DEF IInv, Positions, TargetOK, InOrg
  <2>5. RemovedUsers' = RemovedUsers \cup {u}
    <3>1. Tellers("user.remove")' = Tellers("user.remove") \cup {r}
          /\ \A q \in Tellers("user.remove") \cup {r} : call'[q] = call[q]
      BY <2>2, <2>3, Tells
    <3> QED
      BY <3>1 DEF RemovedUsers
  <2>6. TargetsKnown'
    <3>1. pc[r] \in Written => pc'[r] \in Written
      BY <1>1 DEF Written
    <3>2. ASSUME NEW v \in RemovedUsers \cup {u} PROVE Known(v)'
      <4>1. Known(v)
        BY <2>4 DEF Balanced, TargetsKnown
      <4> QED
        BY <3>1, <2>3, <4>1, KnownStays DEF Known
    <3>3. ASSUME NEW t \in TokenIds, Revokes(t)' # {} PROVE TokenKnown(t)'
      <4>1. Revokes(t)' = Revokes(t)
        BY <2>2, <2>3, RevokesStay
      <4>2. TokenKnown(t)
        BY <3>3, <4>1 DEF Balanced, TargetsKnown
      <4> QED
        BY <3>1, <2>3, <4>2 DEF TokenKnown, Frame
    <3> QED
      BY <2>5, <3>2, <3>3 DEF TargetsKnown
  <2>7. UsersTold'
    <3>1. Existing(users)' = Existing(users) \ {u}
      BY <2>1, <2>4 DEF Existing, IInv, Types, Known
    <3>2. Tellers("register")' = Tellers("register") /\ Tellers("invite")' = Tellers("invite")
      BY <2>2, <2>3, Untold
    <3> QED
      BY <2>5, <3>1, <3>2 DEF Balanced, UsersTold
  <2>8. OrgsTold' /\ ProjectsTold' /\ EnvsTold'
    BY <2>1, <2>2, <2>3, OrgsStayTold, ProjectsStayTold, EnvsStayTold DEF Balanced, Existing
  <2>9. MembersTold'
    <3>1. ASSUME NEW v, NEW p, v # u PROVE Membership(v, p)' = Membership(v, p)
      BY <2>1, <3>1 DEF Membership
    <3>2. \A v \in UserIds, p \in ProjectIds :
            v \in RemovedUsers' \/ Cardinality(Membership(v, p)') = Cardinality(Membership(v, p))
      BY <2>5, <3>1
    <3> QED
      BY <2>2, <2>3, <3>2, MembersStayTold DEF Balanced
  <2>10. TokensTold'
    <3>1. \A t \in TokenIds : tokens'[t] # Null =>
            \/ (tokens[t] # Null /\ tokens'[t].revoked = tokens[t].revoked)
            \/ (Revokes(t) = {} /\ t \notin Revoked0 /\ tokens'[t].revoked = FALSE)
      BY <2>1
    <3>2. TokensTold
      BY DEF Balanced
    <3> QED
      BY <2>2, <2>3, <3>1, <3>2, TokensStayTold
  <2> QED
    BY <2>3, <2>6, <2>7, <2>8, <2>9, <2>10 DEF Balanced
<1> QED
  BY <1>2, <1>3

\* A project with its first environment
LEMMA CreateProjectTold ==
  ASSUME IInv, Balanced, NEW r \in Requests, CreateProject(r) PROVE Balanced'
<1> DEFINE row == [org |-> who[r].org, name |-> call[r].name, deleted |-> FALSE]
<1>1. pc[r] = "write" /\ call[r].op = "project.create" /\ pc[r] \in Writing
  BY DEF CreateProject, At, Writing
<1>2. CASE NameTaken(call[r].name, who[r].org)
  BY <1>1, <1>2, RefusalTold DEF CreateProject, Refused
<1>3. CASE ~NameTaken(call[r].name, who[r].org)
  <2>1. /\ Goto(r, "audit") /\ projects' = [projects EXCEPT ![r] = row]
        /\ envs' = envs \cup {<<r, "dev">>}
        /\ UNCHANGED <<orgs, users, members, tokens>>
    BY <1>3 DEF CreateProject
  <2>2. PICK E : Wrote(r, E) /\ E.event = "project.create"
    BY <1>1, <2>1, WroteCall DEF Balanced, MemberOps
  <2>3. Logs(r, {E}) /\ LogOK' /\ TargetsKnown'
    BY <2>2 DEF Wrote
  <2>4. r \in ProjectIds /\ projects[r] = Null
    BY <1>1, Writer
  <2>5. row # Null
    <3>1. who[r].org \in OrgIds /\ call[r].name \in KnownNames
      BY <1>1, Writer DEF IInv, Positions, CallerOK
    <3>2. row \in ProjectRows
      BY <3>1 DEF ProjectRows
    <3> QED
      BY <3>2, IdAssumption
  <2>6. /\ Existing(projects)' = Existing(projects) \cup {r}
        /\ \A p \in Existing(projects) : projects'[p] = projects[p]
        /\ projects'[r].deleted = FALSE
    <3>1. projects'[r].deleted = FALSE
      BY <2>1, <2>4 DEF IInv, Types
    <3> HIDE DEF row
    <3> QED
      BY <2>1, <2>4, <2>5, <3>1 DEF Existing, IInv, Types
  <2>7. ProjectsTold'
    <3>1. Tellers("project.create")' = Tellers("project.create") \cup {r}
      BY <2>2, <2>3, Tells
    <3>2. DeletedProjects' = DeletedProjects
      BY <2>2, <2>3, Untold DEF DeletedProjects
    <3>3. {p \in Existing(projects) : projects[p].deleted}' = {p \in Existing(projects) : projects[p].deleted}
      BY <2>6
    <3> QED
      BY <2>6, <3>1, <3>2, <3>3 DEF Balanced, ProjectsTold
  <2>8. EnvsTold'
    <3>1. AddedEnvs' = AddedEnvs
      BY <2>2, <2>3, Untold DEF AddedEnvs
    <3> QED
      BY <2>1, <2>6, <3>1 DEF Balanced, EnvsTold
  <2>9. UsersTold' /\ OrgsTold'
    BY <2>1, <2>2, <2>3, UsersStayTold, OrgsStayTold DEF Balanced, Existing
  <2>10. MembersTold' /\ TokensTold'
    BY <2>1, <2>2, <2>3, MembersSame, TokensSame DEF Balanced
  <2> QED
    BY <2>3, <2>7, <2>8, <2>9, <2>10 DEF Balanced
<1> QED
  BY <1>2, <1>3

\* An environment of a project
LEMMA AddEnvironmentTold ==
  ASSUME IInv, Balanced, NEW r \in Requests, AddEnvironment(r) PROVE Balanced'
<1> DEFINE e == <<call[r].project, call[r].name>>
<1>1. pc[r] = "write" /\ call[r].op = "env.add" /\ pc[r] \in Writing
  BY DEF AddEnvironment, At, Writing
<1>2. CASE e \in envs
  BY <1>1, <1>2, RefusalTold DEF AddEnvironment, Refused
<1>3. CASE e \notin envs
  <2>1. /\ Goto(r, "audit") /\ envs' = envs \cup {e}
        /\ UNCHANGED <<orgs, users, projects, members, tokens>>
    BY <1>3 DEF AddEnvironment
  <2>2. PICK E : Wrote(r, E) /\ E.event = "env.add"
    BY <1>1, <2>1, WroteCall DEF Balanced, MemberOps
  <2>3. Logs(r, {E}) /\ LogOK' /\ TargetsKnown'
    BY <2>2 DEF Wrote
  <2>4. AddedEnvs' = AddedEnvs \cup {e}
    <3>1. Tellers("env.add")' = Tellers("env.add") \cup {r}
          /\ \A q \in Tellers("env.add") \cup {r} : call'[q] = call[q]
      BY <2>2, <2>3, Tells
    <3> QED
      BY <3>1 DEF AddedEnvs
  <2>5. Existing(projects)' = Existing(projects)
    BY <2>1 DEF Existing
  <2>6. EnvsTold'
    BY <2>1, <2>4, <2>5 DEF Balanced, EnvsTold
  <2>7. UsersTold' /\ OrgsTold' /\ ProjectsTold'
    BY <2>1, <2>2, <2>3, UsersStayTold, OrgsStayTold, ProjectsStayTold DEF Balanced, Existing
  <2>8. MembersTold' /\ TokensTold'
    BY <2>1, <2>2, <2>3, MembersSame, TokensSame DEF Balanced
  <2> QED
    BY <2>3, <2>6, <2>7, <2>8 DEF Balanced
<1> QED
  BY <1>2, <1>3

\* A project is deleted that was there; that it was deleted already does not
\* matter.
LEMMA DeleteProjectTold ==
  ASSUME IInv, Balanced, NEW r \in Requests, DeleteProject(r) PROVE Balanced'
<1> DEFINE d == call[r].project
<1>1. /\ pc[r] = "write" /\ call[r].op = "project.delete" /\ pc[r] \in Writing /\ Goto(r, "audit")
      /\ projects' = [projects EXCEPT ![d].deleted = TRUE]
      /\ UNCHANGED <<orgs, users, envs, members, tokens>>
  BY DEF DeleteProject, At, Writing
<1>2. PICK E : Wrote(r, E) /\ E.event = "project.delete"
  BY <1>1, WroteCall DEF Balanced, MemberOps
<1>3. Logs(r, {E}) /\ LogOK' /\ TargetsKnown'
  BY <1>2 DEF Wrote
<1>4. d \in ProjectIds /\ projects[d] # Null /\ projects[d] \in ProjectRows
  BY <1>1 DEF IInv, Positions, TargetOK, HasProject, Types
<1>5. /\ Existing(projects)' = Existing(projects) /\ d \in Existing(projects)
      /\ projects'[d].deleted = TRUE
      /\ \A p \in Existing(projects) \ {d} : projects'[p] = projects[p]
  <2>1. [projects[d] EXCEPT !.deleted = TRUE] \in ProjectRows
    BY <1>4 DEF ProjectRows
  <2>2. [projects[d] EXCEPT !.deleted = TRUE] # Null
    BY <2>1, IdAssumption
  <2>3. projects' = [projects EXCEPT ![d] = [projects[d] EXCEPT !.deleted = TRUE]]
    BY <1>1
  <2>4. [projects[d] EXCEPT !.deleted = TRUE].deleted = TRUE
    BY <1>4 DEF ProjectRows
  <2>5. projects'[d] = [projects[d] EXCEPT !.deleted = TRUE]
    BY <1>4, <2>3 DEF IInv, Types
  <2>6. \A p \in ProjectIds \ {d} : projects'[p] = projects[p]
    BY <2>3 DEF IInv, Types
  <2>7. DOMAIN projects = ProjectIds /\ DOMAIN projects' = ProjectIds
    BY <2>3 DEF IInv, Types
  <2> QED
    BY <1>4, <2>2, <2>4, <2>5, <2>6, <2>7 DEF Existing
<1>6. ProjectsTold'
  <2>1. Tellers("project.create")' = Tellers("project.create")
    BY <1>2, <1>3, Untold
  <2>2. DeletedProjects' = DeletedProjects \cup {d}
    <3>1. Tellers("project.delete")' = Tellers("project.delete") \cup {r}
          /\ \A q \in Tellers("project.delete") \cup {r} : call'[q] = call[q]
      BY <1>2, <1>3, Tells
    <3> QED
      BY <3>1 DEF DeletedProjects
  <2>3. {p \in Existing(projects) : projects[p].deleted}' =
        {p \in Existing(projects) : projects[p].deleted} \cup {d}
    BY <1>5
  <2> QED
    BY <1>5, <2>1, <2>2, <2>3 DEF Balanced, ProjectsTold
<1>7. UsersTold' /\ OrgsTold' /\ EnvsTold'
  <2>1. EnvsTold'
    BY <1>1, <1>2, <1>3, <1>5, EnvsStayTold DEF Balanced
  <2> QED
    BY <1>1, <1>2, <1>3, <2>1, UsersStayTold, OrgsStayTold DEF Balanced, Existing
<1>8. MembersTold' /\ TokensTold'
  BY <1>1, <1>2, <1>3, MembersSame, TokensSame DEF Balanced
<1> QED
  BY <1>3, <1>6, <1>7, <1>8 DEF Balanced

\* What counts rows and events
LEMMA AboutFinite ==
  ASSUME LogOK, NEW event, NEW u, NEW p
  PROVE  IsFiniteSet(About(event, u, p)) /\ Cardinality(About(event, u, p)) \in Nat
<1>1. About(event, u, p) \in SUBSET Log
  BY DEF About
<1> QED
  BY <1>1, FS_Subset, FS_CardinalityType DEF LogOK

LEMMA AboutOneMore ==
  ASSUME LogOK, NEW r, NEW E, Logs(r, {E}), NEW event, NEW u, NEW p,
         E.event = event, E.user = u, call[r].project = p
  PROVE  Cardinality(About(event, u, p)') = Cardinality(About(event, u, p)) + 1
<1>1. /\ Log' = Log \cup {E} /\ E.by = r /\ call'[r] = call[r]
      /\ \A e \in Log : e.by # r /\ call'[e.by] = call[e.by]
  BY DEF Logs
<1>2. About(event, u, p)' = About(event, u, p) \cup {E} /\ E \notin About(event, u, p)
  BY <1>1 DEF About
<1>3. IsFiniteSet(About(event, u, p))
  BY AboutFinite
<1> QED
  BY <1>2, <1>3, FS_AddElement

LEMMA AtMostOne ==
  ASSUME NEW S, \A m, n \in S : m = n
  PROVE  IsFiniteSet(S) /\ Cardinality(S) = IF S = {} THEN 0 ELSE 1
<1>1. CASE S = {}
  BY <1>1, FS_EmptySet
<1>2. CASE S # {}
  <2>1. PICK m : S = {m}
    BY <1>2
  <2> QED
    BY <2>1, FS_Singleton
<1> QED
  BY <1>1, <1>2

LEMMA MembershipCount ==
  ASSUME IInv, NEW u, NEW p
  PROVE  Cardinality(Membership(u, p)) = IF Membership(u, p) = {} THEN 0 ELSE 1
<1>1. \A m, n \in Membership(u, p) : m = n
  BY DEF Membership, IInv, Uniques
<1> QED
  BY <1>1, AtMostOne

LEMMA FirstCount == ASSUME NEW u, NEW p PROVE Cardinality(First(u, p)) \in Nat
<1>1. \A m, n \in First(u, p) : m = n
  BY DataAssumption DEF First
<1> QED
  BY <1>1, AtMostOne

\* One membership begins or ends, and its event tells so.
LEMMA MembersChangeTold ==
  ASSUME IInv, IInv', LogOK, MembersTold, NEW r, NEW E, Logs(r, {E}), NEW u, NEW p,
         E.user = u, call[r].project = p,
         \A v \in UserIds, q \in ProjectIds :
           ~(v = u /\ q = p) => Membership(v, q)' = Membership(v, q),
         \/ E.event = "member.added" /\ Membership(u, p) = {} /\ Membership(u, p)' # {}
         \/ E.event = "member.removed" /\ Membership(u, p) # {} /\ Membership(u, p)' = {}
         \/ E.event = "member.role_changed" /\ (Membership(u, p) = {} <=> Membership(u, p)' = {})
  PROVE  MembersTold'
<1> SUFFICES ASSUME NEW v \in UserIds, NEW q \in ProjectIds, v \notin RemovedUsers'
             PROVE  Cardinality(Membership(v, q)') + Cardinality(About("member.removed", v, q)') =
                    Cardinality(First(v, q)) + Cardinality(About("member.added", v, q)')
  BY DEF MembersTold, First
<1>1. Cardinality(Membership(v, q)) + Cardinality(About("member.removed", v, q)) =
      Cardinality(First(v, q)) + Cardinality(About("member.added", v, q))
  BY RemovedStay DEF MembersTold
<1>2. E.by = r /\ call'[r] = call[r]
  BY DEF Logs
<1>3. /\ Cardinality(About("member.removed", v, q)) \in Nat
      /\ Cardinality(About("member.added", v, q)) \in Nat
      /\ Cardinality(First(v, q)) \in Nat
  BY AboutFinite, FirstCount
<1>4. CASE ~(v = u /\ q = p)
  <2>1. /\ About("member.removed", v, q)' = About("member.removed", v, q)
        /\ About("member.added", v, q)' = About("member.added", v, q)
    BY <1>2, <1>4, AboutStays
  <2> QED
    BY <1>1, <1>4, <2>1
<1>5. CASE v = u /\ q = p
  <2>1. Cardinality(Membership(v, q)) = IF Membership(v, q) = {} THEN 0 ELSE 1
    BY MembershipCount
  <2>2. Cardinality(Membership(v, q)') = IF Membership(v, q)' = {} THEN 0 ELSE 1
    <3>1. \A m, n \in Membership(v, q)' : m = n
      BY DEF Membership, IInv, Uniques
    <3> QED
      BY <3>1, AtMostOne
  <2>3. CASE E.event = "member.added" /\ Membership(u, p) = {} /\ Membership(u, p)' # {}
    <3>1. Cardinality(About("member.added", v, q)') = Cardinality(About("member.added", v, q)) + 1
      BY <1>5, <2>3, AboutOneMore
    <3>2. About("member.removed", v, q)' = About("member.removed", v, q)
      BY <2>3, AboutStays
    <3> QED
      BY <1>1, <1>3, <1>5, <2>1, <2>2, <2>3, <3>1, <3>2
  <2>4. CASE E.event = "member.removed" /\ Membership(u, p) # {} /\ Membership(u, p)' = {}
    <3>1. Cardinality(About("member.removed", v, q)') = Cardinality(About("member.removed", v, q)) + 1
      BY <1>5, <2>4, AboutOneMore
    <3>2. About("member.added", v, q)' = About("member.added", v, q)
      BY <2>4, AboutStays
    <3> QED
      BY <1>1, <1>3, <1>5, <2>1, <2>2, <2>4, <3>1, <3>2
  <2>5. CASE E.event = "member.role_changed" /\ (Membership(u, p) = {} <=> Membership(u, p)' = {})
    <3>1. /\ About("member.removed", v, q)' = About("member.removed", v, q)
          /\ About("member.added", v, q)' = About("member.added", v, q)
      BY <2>5, AboutStays
    <3> QED
      BY <1>1, <1>5, <2>1, <2>2, <2>5, <3>1
  <2> QED
    BY <2>3, <2>4, <2>5
<1> QED
  BY <1>4, <1>5

\* The membership of u in p has gone on as the event says, and no other has.
GoneOn(event, u, p) ==
  /\ \A v \in UserIds, q \in ProjectIds :
       ~(v = u /\ q = p) => Membership(v, q)' = Membership(v, q)
  /\ \/ event = "member.added" /\ Membership(u, p) = {} /\ Membership(u, p)' # {}
     \/ event = "member.removed" /\ Membership(u, p) # {} /\ Membership(u, p)' = {}
     \/ event = "member.role_changed" /\ (Membership(u, p) = {} <=> Membership(u, p)' = {})

\* The members that a handler changes, with the rest
LEMMA ChangeMembersTold ==
  ASSUME IInv, IInv', Balanced, NEW r \in Requests, pc[r] \in Writing, call[r].op \in MemberOps,
         NEW rows, NEW event, NEW u, ChangeMembers(r, rows, event, u), NEW p, call[r].project = p,
         GoneOn(event, u, p)
  PROVE  Balanced'
<1>1. /\ GotoWith(r, "audit", [event |-> event, user |-> u])
      /\ UNCHANGED <<orgs, users, projects, envs, tokens>>
  BY DEF ChangeMembers
<1>2. PICK E : Wrote(r, E) /\ E.event = event /\ E.user = u
  BY <1>1, WroteMember DEF Balanced
<1>3. E.event \in {"member.added", "member.removed", "member.role_changed"}
  BY <1>2 DEF GoneOn
<1>4. Logs(r, {E}) /\ LogOK' /\ TargetsKnown'
  BY <1>2, <1>3 DEF Wrote
<1>5. UsersTold' /\ OrgsTold' /\ ProjectsTold' /\ EnvsTold'
  BY <1>1, <1>3, <1>4, UsersStayTold, OrgsStayTold, ProjectsStayTold, EnvsStayTold
     DEF Balanced, Existing
<1>6. TokensTold'
  BY <1>1, <1>3, <1>4, TokensSame DEF Balanced
<1>7. MembersTold'
  <2>1. LogOK /\ MembersTold
    BY DEF Balanced
  <2>2. \/ E.event = "member.added" /\ Membership(u, p) = {} /\ Membership(u, p)' # {}
        \/ E.event = "member.removed" /\ Membership(u, p) # {} /\ Membership(u, p)' = {}
        \/ E.event = "member.role_changed" /\ (Membership(u, p) = {} <=> Membership(u, p)' = {})
    BY <1>2 DEF GoneOn
  <2>3. \A v \in UserIds, q \in ProjectIds :
          ~(v = u /\ q = p) => Membership(v, q)' = Membership(v, q)
    BY DEF GoneOn
  <2> QED
    BY <1>2, <1>4, <2>1, <2>2, <2>3, MembersChangeTold
<1> QED
  BY <1>4, <1>5, <1>6, <1>7 DEF Balanced

\* The row of a user in a project is added.
LEMMA InsertMemberTold ==
  ASSUME IInv, IInv', Balanced, NEW r \in Requests, InsertMember(r) PROVE Balanced'
<1>1. pc[r] = "insert" /\ call[r].op = "member.add" /\ pc[r] \in Writing /\ call[r].op \in MemberOps
  BY DEF InsertMember, At, Writing, MemberOps
<1>2. PICK u, p : u = found[r] /\ p = call[r].project
  OBVIOUS
<1>3. CASE Membership(u, p) # {} \/ {u, who[r].id} \cap Existing(users) # {u, who[r].id}
  BY <1>1, <1>2, <1>3, RefusalTold DEF InsertMember, Refused
<1>4. CASE ~(Membership(u, p) # {} \/ {u, who[r].id} \cap Existing(users) # {u, who[r].id})
  <2>1. PICK row : row = Row(r, u)
    OBVIOUS
  <2>2. ChangeMembers(r, members \cup {row}, "member.added", u) /\ Membership(u, p) = {}
    BY <1>2, <1>4, <2>1 DEF InsertMember
  <2>3. members' = members \cup {row} /\ row.user = u /\ row.project = p
    BY <1>2, <2>1, <2>2 DEF ChangeMembers, Row
  <2>4. Membership(u, p)' # {}
    BY <2>3 DEF Membership
  <2>5. \A v \in UserIds, q \in ProjectIds : ~(v = u /\ q = p) => Membership(v, q)' = Membership(v, q)
    BY <2>3 DEF Membership
  <2>6. GoneOn("member.added", u, p)
    BY <2>2, <2>4, <2>5 DEF GoneOn
  <2> QED
    BY <1>1, <1>2, <2>2, <2>6, ChangeMembersTold
<1> QED
  BY <1>3, <1>4

\* It is written anew if it is there.
LEMMA UpdateTold ==
  ASSUME IInv, IInv', Balanced, NEW r \in Requests, pc[r] \in Writing, call[r].op \in MemberOps,
         NEW u, NEW p, call[r].project = p,
         ChangeMembers(r, (members \ Membership(u, p)) \cup {Row(r, m.user) : m \in Membership(u, p)},
                       "member.role_changed", u)
  PROVE  Balanced'
<1>1. PICK rows : rows = (members \ Membership(u, p)) \cup {Row(r, m.user) : m \in Membership(u, p)}
  OBVIOUS
<1>2. members' = rows
  BY <1>1 DEF ChangeMembers
<1>3. PICK row : row = Row(r, u)
  OBVIOUS
<1>4. row.user = u /\ row.project = p
  BY <1>3 DEF Row
<1>5. {Row(r, m.user) : m \in Membership(u, p)} = IF Membership(u, p) = {} THEN {} ELSE {row}
  BY <1>3 DEF Membership
<1>6. Membership(u, p) = {} <=> Membership(u, p)' = {}
  BY <1>1, <1>2, <1>4, <1>5 DEF Membership
<1>7. \A v \in UserIds, q \in ProjectIds : ~(v = u /\ q = p) => Membership(v, q)' = Membership(v, q)
  BY <1>1, <1>2, <1>4, <1>5 DEF Membership
<1>8. ChangeMembers(r, rows, "member.role_changed", u)
  BY <1>1
<1>9. GoneOn("member.role_changed", u, p)
  BY <1>6, <1>7 DEF GoneOn
<1> QED
  BY <1>8, <1>9, ChangeMembersTold

LEMMA UpdateMemberTold ==
  ASSUME IInv, IInv', Balanced, NEW r \in Requests, UpdateMember(r) PROVE Balanced'
<1>1. pc[r] = "update" /\ call[r].op = "member.add" /\ pc[r] \in Writing /\ call[r].op \in MemberOps
  BY DEF UpdateMember, At, Writing, MemberOps
<1>2. PICK u, p : u = found[r] /\ p = call[r].project
  OBVIOUS
<1>3. CASE Membership(u, p) # {} /\ who[r].id \notin Existing(users)
  BY <1>1, <1>2, <1>3, RefusalTold DEF UpdateMember, Refused
<1>4. CASE ~(Membership(u, p) # {} /\ who[r].id \notin Existing(users))
  BY <1>1, <1>2, <1>4, UpdateTold DEF UpdateMember
<1> QED
  BY <1>3, <1>4

LEMMA PatchMemberTold ==
  ASSUME IInv, IInv', Balanced, NEW r \in Requests, PatchMember(r) PROVE Balanced'
<1>1. pc[r] = "write" /\ call[r].op = "member.patch" /\ pc[r] \in Writing /\ call[r].op \in MemberOps
  BY DEF PatchMember, At, Writing, MemberOps
<1>2. PICK u, p : u = call[r].user /\ p = call[r].project
  OBVIOUS
<1>3. CASE Membership(u, p) = {}
  BY <1>1, <1>2, <1>3, RefusalTold DEF PatchMember, Check
<1>4. CASE Membership(u, p) # {} /\ who[r].id \notin Existing(users)
  BY <1>1, <1>2, <1>4, RefusalTold DEF PatchMember, Refused
<1>5. CASE Membership(u, p) # {} /\ who[r].id \in Existing(users)
  BY <1>1, <1>2, <1>5, UpdateTold DEF PatchMember
<1> QED
  BY <1>3, <1>4, <1>5

\* It is removed, if it was there.
LEMMA RemoveMemberTold ==
  ASSUME IInv, IInv', Balanced, NEW r \in Requests, RemoveMember(r) PROVE Balanced'
<1>1. pc[r] = "write" /\ call[r].op = "member.remove" /\ pc[r] \in Writing /\ call[r].op \in MemberOps
  BY DEF RemoveMember, At, Writing, MemberOps
<1>2. PICK u, p : u = call[r].user /\ p = call[r].project
  OBVIOUS
<1>3. CASE Membership(u, p) = {}
  BY <1>1, <1>2, <1>3, RefusalTold DEF RemoveMember, Check
<1>4. CASE Membership(u, p) # {}
  <2>1. PICK rows : rows = members \ Membership(u, p)
    OBVIOUS
  <2>2. ChangeMembers(r, rows, "member.removed", u) /\ members' = rows
    BY <1>2, <1>4, <2>1 DEF RemoveMember, ChangeMembers
  <2>3. Membership(u, p)' = {}
    BY <2>1, <2>2 DEF Membership
  <2>4. \A v \in UserIds, q \in ProjectIds : ~(v = u /\ q = p) => Membership(v, q)' = Membership(v, q)
    BY <2>1, <2>2 DEF Membership
  <2>5. GoneOn("member.removed", u, p)
    BY <1>4, <2>3, <2>4 DEF GoneOn
  <2> QED
    BY <1>1, <1>2, <2>2, <2>5, ChangeMembersTold
<1> QED
  BY <1>3, <1>4

\* A token appears unrevoked.
LEMMA IssueCliTokenTold ==
  ASSUME IInv, Balanced, NEW r \in Requests, IssueCliToken(r) PROVE Balanced'
<1>1. pc[r] = "check" /\ call[r].op = "token.create" /\ pc[r] \in Writing
  BY DEF IssueCliToken, At, Writing
<1>2. CASE who[r].id \notin Existing(users)
  BY <1>1, <1>2, RefusalTold DEF IssueCliToken, Refused
<1>3. CASE who[r].id \in Existing(users)
  <2>1. /\ Goto(r, "audit")
        /\ tokens' = [tokens EXCEPT ![r] = [user |-> who[r].id, revoked |-> FALSE]]
        /\ UNCHANGED <<orgs, users, projects, envs, members>>
    BY <1>3 DEF IssueCliToken
  <2>2. PICK E : Wrote(r, E) /\ E.event = "token.create"
    BY <1>1, <2>1, WroteCall DEF Balanced, MemberOps
  <2>3. Logs(r, {E}) /\ LogOK' /\ TargetsKnown'
    BY <2>2 DEF Wrote
  <2>4. UsersTold' /\ OrgsTold' /\ ProjectsTold' /\ EnvsTold'
    BY <2>1, <2>2, <2>3, UsersStayTold, OrgsStayTold, ProjectsStayTold, EnvsStayTold
       DEF Balanced, Existing
  <2>5. MembersTold'
    BY <2>1, <2>2, <2>3, MembersSame DEF Balanced
  <2>6. TokensTold'
    <3>1. tokens'[r].revoked = FALSE /\ Revokes(r) = {} /\ \A t \in TokenIds \ {r} : tokens'[t] = tokens[t]
      BY <1>1, <2>1, Writer, WriterUntold DEF IInv, Types
    <3>2. \A t \in TokenIds : tokens'[t] # Null =>
            \/ (tokens[t] # Null /\ tokens'[t].revoked = tokens[t].revoked)
            \/ (Revokes(t) = {} /\ t \notin Revoked0 /\ tokens'[t].revoked = FALSE)
      BY <3>1, IdAssumption DEF Revoked0
    <3>3. TokensTold
      BY DEF Balanced
    <3> QED
      BY <2>2, <2>3, <3>2, <3>3, TokensStayTold
  <2> QED
    BY <2>3, <2>4, <2>5, <2>6 DEF Balanced
<1> QED
  BY <1>2, <1>3

\* A token that was not revoked, and so not told of, is revoked and told of.
LEMMA RevokeCliTokenTold ==
  ASSUME IInv, Balanced, NEW r \in Requests, RevokeCliToken(r) PROVE Balanced'
<1>1. pc[r] = "write" /\ call[r].op = "token.revoke" /\ pc[r] \in Writing
  BY DEF RevokeCliToken, At, Writing
<1>2. PICK d : d = call[r].token
  OBVIOUS
<1>3. CASE ~OwnToken(r) \/ tokens[d].revoked
  BY <1>1, <1>2, <1>3, RefusalTold DEF RevokeCliToken, Check
<1>4. CASE OwnToken(r) /\ ~tokens[d].revoked
  <2>1. /\ Goto(r, "audit") /\ tokens' = [tokens EXCEPT ![d].revoked = TRUE]
        /\ UNCHANGED <<orgs, users, projects, envs, members>>
    BY <1>2, <1>4 DEF RevokeCliToken
  <2>2. PICK E : Wrote(r, E) /\ E.event = "token.revoke"
    BY <1>1, <2>1, WroteCall DEF Balanced, MemberOps
  <2>3. Logs(r, {E}) /\ LogOK' /\ Frame(r) /\ E.by = r /\ call'[r].token = d
    BY <1>2, <2>2 DEF Wrote, Logs
  <2>4. d \in TokenIds /\ tokens[d] # Null /\ tokens[d] \in TokenRows
    BY <1>2, <1>4 DEF OwnToken, Existing, IInv, Types
  <2>5. tokens'[d].revoked = TRUE /\ \A t \in TokenIds \ {d} : tokens'[t] = tokens[t]
    BY <2>1, <2>4 DEF IInv, Types, TokenRows
  <2>6. \A t : t # d => Revokes(t)' = Revokes(t)
    BY <2>3, RevokesStay
  <2>7. Revokes(d)' = Revokes(d) \cup {E} /\ E \notin Revokes(d)
    BY <2>2, <2>3 DEF Logs, Revokes
  <2>8. TargetsKnown'
    <3>1. TargetsKnown /\ pc[r] \notin Written
      BY <1>1 DEF Balanced, Written
    <3>2. RemovedUsers' = RemovedUsers
      BY <2>2, <2>3, Untold DEF RemovedUsers
    <3>3. \A u \in RemovedUsers : Known(u)'
      BY <2>3, <3>1, KnownStays DEF TargetsKnown, Known
    <3>4. TokenKnown(d)
      BY <2>4 DEF TokenKnown, IInv, Positions, Fresh
    <3>5. ASSUME NEW t \in TokenIds, Revokes(t)' # {} PROVE TokenKnown(t)'
      <4>1. TokenKnown(t)
        BY <2>6, <3>1, <3>4, <3>5 DEF TargetsKnown
      <4> QED
        BY <2>3, <3>1, <4>1 DEF TokenKnown, Frame
    <3> QED
      BY <3>2, <3>3, <3>5 DEF TargetsKnown
  <2>9. UsersTold' /\ OrgsTold' /\ ProjectsTold' /\ EnvsTold'
    BY <2>1, <2>2, <2>3, UsersStayTold, OrgsStayTold, ProjectsStayTold, EnvsStayTold
       DEF Balanced, Existing
  <2>10. MembersTold'
    BY <2>1, <2>2, <2>3, MembersSame DEF Balanced
  <2>11. TokensTold'
    <3>1. TokensTold /\ LogOK
      BY DEF Balanced
    <3>2. d \notin Revoked0 /\ Cardinality(Revokes(d)) = 0
      BY <1>4, <2>4, <3>1 DEF TokensTold
    <3>3. IsFiniteSet(Revokes(d))
      <4>1. Revokes(d) \in SUBSET Log
        BY DEF Revokes
      <4> QED
        BY <3>1, <4>1, FS_Subset DEF LogOK
    <3>4. Cardinality(Revokes(d)') = 1
      BY <2>7, <3>2, <3>3, FS_AddElement
    <3> QED
      BY <2>5, <2>6, <3>1, <3>2, <3>4 DEF TokensTold
  <2> QED
    BY <2>3, <2>8, <2>9, <2>10, <2>11 DEF Balanced
<1> QED
  BY <1>3, <1>4

----------------------------------------------------------------------------
(* Every step keeps the accounts *)

\* A step before the write says nothing and owes nothing.
LEMMA ReadsOweNothing ==
  ASSUME IInv, NEW r \in Requests, Reads(r), ~AppendAudit(r)
  PROVE  pc[r] \notin Written /\ pc'[r] # "audit" /\ audit' = audit
<1>0. pc \in [Requests -> Labels]
  BY DEF IInv, Locals
<1>1. CASE \E c \in Calls : Arrive(r, c)
  BY <1>0, <1>1 DEF Arrive, Written
<1>2. CASE ValidateCliToken(r) \/ LoadUser(r) \/ LoadOrgs(r) \/ LoadMemberships(r)
  BY <1>0, <1>2 DEF ValidateCliToken, LoadUser, LoadOrgs, LoadMemberships, Load, Answer, Leave,
                    Written
<1>3. CASE \/ ListProjects(r) \/ Whoami(r) \/ ListOrgs(r) \/ ListUsers(r) \/ ListCliTokens(r)
           \/ GetProject(r) \/ ListMembers(r)
  BY <1>0, <1>3 DEF ListProjects, Whoami, ListOrgs, ListUsers, ListCliTokens, GetProject,
                    ListMembers, Show, Refused, Answer, Leave, At, Written
<1>4. CASE FindProject(r) \/ ProjectCheck(r) \/ FindTarget(r) \/ FindMembership(r)
  BY <1>0, <1>4 DEF FindProject, ProjectCheck, FindTarget, FindMembership, Answer, Leave, Goto,
                    GotoWith, At, Written
<1>5. CASE \/ RegisterCheck(r) \/ InviteCheck(r) \/ TargetCheck(r) \/ CreateProjectCheck(r)
           \/ EnvironmentCheck(r) \/ RevokeCheck(r)
  BY <1>0, <1>5 DEF RegisterCheck, InviteCheck, TargetCheck, CreateProjectCheck,
                    EnvironmentCheck, RevokeCheck, Check, Answer, Leave, Goto, At, Written
<1> QED
  BY <1>1, <1>2, <1>3, <1>4, <1>5 DEF Reads

LEMMA ReadsTold ==
  ASSUME IInv, Balanced, NEW r \in Requests, Reads(r) PROVE Balanced'
<1>0. Frame(r) /\ UNCHANGED tables /\ LogOK
  BY ReadsFine, ReadsChangeNothing DEF Fine, Balanced
<1>1. CASE AppendAudit(r)
  <2>1. Logs(r, {})
    BY <1>0, <1>1, LogsOwed
  <2>2. /\ pc[r] = "audit" /\ pc'[r] = "done"
        /\ \A e \in audit' : e \in audit \/ e.by = r
    BY <1>1 DEF AppendAudit, Leave, IInv, Locals, Event
  <2>3. LogOK'
    BY <1>0, <2>1, <2>2, LogStays, FS_EmptySet
  <2> QED
    BY <1>0, <2>1, <2>2, <2>3, NothingTold DEF Written
<1>2. CASE ~AppendAudit(r)
  <2>1. pc[r] \notin Written /\ pc'[r] # "audit" /\ audit' = audit
    BY <1>2, ReadsOweNothing
  <2>2. pc[r] \notin {"audit", "done"}
    BY <2>1 DEF Written
  <2>3. Logs(r, {})
    BY <1>0, <2>1, <2>2, LogsNothing
  <2>4. LogOK'
    BY <1>0, <2>1, <2>2, <2>3, LogStays, FS_EmptySet
  <2> QED
    BY <1>0, <2>1, <2>3, <2>4, NothingTold
<1> QED
  BY <1>1, <1>2

LEMMA HandleTold ==
  ASSUME IInv, IInv', Balanced, NEW r \in Requests, Handle(r) PROVE Balanced'
<1>1. CASE Reads(r)
  BY <1>1, ReadsTold
<1>2. CASE \/ Register(r) \/ CreateOrg(r) \/ RenameOrg(r) \/ Invite(r)
           \/ ChangeUserRole(r) \/ RemoveUser(r)
  BY <1>2, RegisterTold, CreateOrgTold, RenameOrgTold, InviteTold, ChangeUserRoleTold,
     RemoveUserTold
<1>3. CASE CreateProject(r) \/ AddEnvironment(r) \/ DeleteProject(r)
  BY <1>3, CreateProjectTold, AddEnvironmentTold, DeleteProjectTold
<1>4. CASE InsertMember(r) \/ UpdateMember(r) \/ PatchMember(r) \/ RemoveMember(r)
  BY <1>4, InsertMemberTold, UpdateMemberTold, PatchMemberTold, RemoveMemberTold
<1>5. CASE IssueCliToken(r) \/ RevokeCliToken(r)
  BY <1>5, IssueCliTokenTold, RevokeCliTokenTold
<1> QED
  BY <1>1, <1>2, <1>3, <1>4, <1>5 DEF Handle, Reads

\* A handler does not crash.
LEMMA HandleGoesOn ==
  ASSUME NEW r \in Requests, Handle(r) PROVE crashes' = crashes
<1>1. CASE Reads(r)
  BY <1>1 DEF Reads, Arrive, ValidateCliToken, LoadUser, LoadOrgs, LoadMemberships, Load,
         ListProjects, Whoami, ListOrgs, ListUsers, ListCliTokens, FindProject, GetProject,
         ListMembers, Show, Refused, RegisterCheck, InviteCheck, TargetCheck, CreateProjectCheck,
         ProjectCheck, EnvironmentCheck, FindTarget, FindMembership, RevokeCheck, AppendAudit,
         Check, Answer, Leave, Goto, GotoWith
<1>2. CASE \/ Register(r) \/ CreateOrg(r) \/ RenameOrg(r) \/ Invite(r)
           \/ ChangeUserRole(r) \/ RemoveUser(r)
           \/ CreateProject(r) \/ AddEnvironment(r) \/ DeleteProject(r)
  BY <1>2 DEF Register, CreateOrg, RenameOrg, Invite, ChangeUserRole, RemoveUser, CreateProject,
         AddEnvironment, DeleteProject, Refused, Answer, Leave, Goto
<1>3. CASE \/ InsertMember(r) \/ UpdateMember(r) \/ PatchMember(r) \/ RemoveMember(r)
           \/ IssueCliToken(r) \/ RevokeCliToken(r)
  BY <1>3 DEF InsertMember, UpdateMember, PatchMember, RemoveMember, IssueCliToken,
         RevokeCliToken, ChangeMembers, Refused, Check, Answer, Leave, Goto, GotoWith
<1> QED
  BY <1>1, <1>2, <1>3 DEF Handle, Reads

LEMMA InitTold == Init => AuditInv
<1> SUFFICES ASSUME Init PROVE crashes \in Nat /\ Balanced
  BY DEF AuditInv
<1>1. Owed = {} /\ Log = {}
  BY DEF Init, Owed, Log
<1>2. \A event : Tellers(event) = {}
  BY <1>1 DEF Tellers
<1>3. LogOK
  BY <1>1, FS_EmptySet DEF LogOK, Log
<1>4. RemovedUsers = {} /\ DeletedProjects = {} /\ AddedEnvs = {}
  BY <1>2 DEF RemovedUsers, DeletedProjects, AddedEnvs
<1>5. \A t : Revokes(t) = {}
  BY <1>1 DEF Revokes
<1>6. \A event, u, p : About(event, u, p) = {}
  BY <1>1 DEF About
<1>7. TargetsKnown
  BY <1>4, <1>5 DEF TargetsKnown
<1>8. UsersTold
  <2>1. \A u \in DOMAIN Users0 : Users0[u] # Null
    BY IdAssumption, DataAssumption DEF UserRows, OrgIds
  <2>2. Existing(users) = DOMAIN Users0
    BY <2>1 DEF Init, Existing, Extended, UserIds
  <2> QED
    BY <1>2, <1>4, <2>2 DEF UsersTold
<1>9. OrgsTold
  <2>1. Existing(orgs) = DOMAIN Orgs0
    BY DataAssumption DEF Init, Existing, Extended, OrgIds
  <2> QED
    BY <1>2, <2>1 DEF OrgsTold
<1>10. /\ Existing(projects) = DOMAIN Projects0
       /\ \A p \in DOMAIN Projects0 : projects[p] = Projects0[p]
  <2>1. \A p \in DOMAIN Projects0 : Projects0[p] # Null
    BY IdAssumption, DataAssumption DEF ProjectRows, OrgIds
  <2> QED
    BY <2>1 DEF Init, Existing, Extended, ProjectIds
<1>11. ProjectsTold /\ EnvsTold
  BY <1>2, <1>4, <1>10 DEF ProjectsTold, EnvsTold, Init
<1>12. MembersTold
  <2>1. ASSUME NEW u, NEW p PROVE Membership(u, p) = First(u, p)
    BY DEF Init, Membership, First
  <2>2. \A u, p : Cardinality(First(u, p)) \in Nat
    BY FirstCount
  <2> QED
    BY <1>6, <2>1, <2>2, FS_EmptySet DEF MembersTold
<1>13. TokensTold
  <2>1. ASSUME NEW t \in TokenIds, tokens[t] # Null
        PROVE  t \in DOMAIN Tokens0 /\ tokens[t] = Tokens0[t] /\ tokens[t].revoked \in BOOLEAN
    BY <2>1, DataAssumption DEF Init, Extended
  <2>2. ASSUME NEW t \in TokenIds, tokens[t] # Null
        PROVE  tokens[t].revoked <=> t \in Revoked0
    BY <2>1, <2>2 DEF Revoked0
  <2> QED
    BY <1>5, <2>2, FS_EmptySet DEF TokensTold
<1> QED
  BY <1>3, <1>7, <1>8, <1>9, <1>11, <1>12, <1>13 DEF Balanced, Init

\* After a crash the log may miss what was done, and nothing is claimed.
LEMMA CrashTold == AuditInv /\ Crash => AuditInv'
  BY DEF AuditInv, Crash

LEMMA StutterTold == AuditInv /\ UNCHANGED vars => AuditInv'
<1> SUFFICES ASSUME AuditInv, UNCHANGED vars, crashes = 0 PROVE Balanced'
  BY DEF AuditInv, vars
<1>1. /\ UNCHANGED <<orgs, users, projects, envs, members, tokens>>
      /\ audit' = audit /\ pc' = pc /\ call' = call /\ found' = found
  BY DEF vars, tables, local
<1>2. Balanced
  BY DEF AuditInv
<1>3. Owed' = Owed /\ Log' = Log
  BY <1>1 DEF Owed, Log, Event
<1>4. /\ \A event : Tellers(event)' = Tellers(event)
      /\ RemovedUsers' = RemovedUsers /\ DeletedProjects' = DeletedProjects
      /\ AddedEnvs' = AddedEnvs
  BY <1>1, <1>3 DEF Tellers, RemovedUsers, DeletedProjects, AddedEnvs
<1>5. /\ \A event, u, p : About(event, u, p)' = About(event, u, p)
      /\ \A t : Revokes(t)' = Revokes(t)
      /\ \A u, p : Membership(u, p)' = Membership(u, p)
  BY <1>1, <1>3 DEF About, Revokes, Membership
<1>6. LogOK' /\ TargetsKnown'
  BY <1>1, <1>2, <1>3, <1>4, <1>5 DEF Balanced, LogOK, TargetsKnown, Known, TokenKnown
<1>7. UsersTold' /\ OrgsTold' /\ ProjectsTold' /\ EnvsTold'
  BY <1>1, <1>2, <1>4 DEF Balanced, UsersTold, OrgsTold, ProjectsTold, EnvsTold, Existing
<1>8. MembersTold'
  BY <1>2, <1>4, <1>5 DEF Balanced, MembersTold, First
<1>9. TokensTold'
  BY <1>1, <1>2, <1>5 DEF Balanced, TokensTold
<1> QED
  BY <1>6, <1>7, <1>8, <1>9 DEF Balanced

LEMMA AuditStep == IInv /\ IInv' /\ AuditInv /\ [Next]_vars => AuditInv'
<1> SUFFICES ASSUME IInv, IInv', AuditInv, [Next]_vars PROVE AuditInv'
  OBVIOUS
<1>1. CASE Crash
  BY <1>1, CrashTold
<1>2. CASE UNCHANGED vars
  BY <1>2, StutterTold
<1>3. ASSUME NEW r \in Requests, Handle(r) PROVE AuditInv'
  <2>1. crashes' = crashes
    BY <1>3, HandleGoesOn
  <2>2. ASSUME crashes = 0 PROVE Balanced'
    BY <1>3, <2>2, HandleTold DEF AuditInv
  <2> QED
    BY <2>1, <2>2 DEF AuditInv
<1> QED
  BY <1>1, <1>2, <1>3 DEF Next

----------------------------------------------------------------------------
(* Theorems *)

\* Whatever requests overlap and wherever the process dies, references exist, an
\* e-mail names one user of an organization and a name one project of it, a user
\* is at most once a member of a project and only in his own organization, and
\* an owner is neither removed nor demoted (routes/{users,projects,members}.ts).
THEOREM TablesStayConsistent == Spec => []TablesConsistent
<1>1. IInv => TablesConsistent
  <2> SUFFICES ASSUME IInv PROVE TablesConsistent
    OBVIOUS
  <2>1. /\ \A u \in Existing(users) : u \in UserIds /\ users[u] # Null /\ users[u] \in UserRows
        /\ \A u \in UserIds : users[u] # Null => u \in Existing(users)
        /\ \A o \in OrgIds : orgs[o] # Null => o \in Existing(orgs)
        /\ \A p \in ProjectIds : projects[p] # Null => p \in Existing(projects)
        /\ \A t \in Existing(tokens) : t \in TokenIds /\ tokens[t] # Null /\ tokens[t] \in TokenRows
    BY DEF IInv, Types, Existing
  <2>2. \A p \in Existing(projects) : p \in ProjectIds /\ projects[p] # Null /\ projects[p] \in ProjectRows
    BY DEF IInv, Types, Existing
  <2>3. TypeOK
    <3>1. DOMAIN orgs = OrgIds
      BY DEF IInv, Types
    <3>2. \A u \in Existing(users) : users[u].org \in Existing(orgs) /\ users[u].role \in Roles
      BY <2>1 DEF IInv, References, UserRows
    <3>3. owned \subseteq Existing(users) \X Existing(orgs)
      BY <2>1 DEF IInv, References, Types
    <3>4. \A p \in Existing(projects) : projects[p].org \in Existing(orgs) /\ projects[p].deleted \in BOOLEAN
      BY <2>1, <2>2 DEF IInv, References, ProjectRows
    <3>5. {e[1] : e \in envs} \subseteq Existing(projects)
      BY <2>1 DEF IInv, References, Types
    <3>6. \A m \in members : /\ {m.user, m.by} \subseteq Existing(users)
                             /\ m.project \in Existing(projects)
                             /\ m.role \in {"lead", "developer", "reader"}
      BY <2>1 DEF IInv, References, Types, MemberRows
    <3>7. \A t \in Existing(tokens) : tokens[t].user \in Existing(users)
      BY <2>1 DEF IInv, References, TokenRows
    <3>8. \A e \in audit : e.by \in Requests
      BY DEF IInv, Named
    <3>9. \A r \in Requests : pc[r] \in Labels
      BY DEF IInv, Locals
    <3> QED
      BY <3>1, <3>2, <3>3, <3>4, <3>5, <3>6, <3>7, <3>8, <3>9 DEF TypeOK, Labels
  <2>4. \A u, v \in Existing(users) :
          users[u].email = users[v].email /\ users[u].org = users[v].org => u = v
    BY <2>1 DEF IInv, Uniques
  <2>5. \A p, q \in Existing(projects) :
          projects[p].name = projects[q].name /\ projects[p].org = projects[q].org => p = q
    BY <2>2 DEF IInv, Uniques
  <2> QED
    BY <2>3, <2>4, <2>5 DEF TablesConsistent, IInv, Uniques, References, OwnersStay
<1> QED
  BY <1>1, Invariance, PTL

\* A request changes a row, and shows one, only by a right that its caller has
\* had since it arrived, although its checks and its write are steps that other
\* requests come between (auth/middleware.ts, packages/rbac and the handlers).
THEOREM RightsAreRespected == Spec => OnlyByRight
<1>1. IInv /\ [Next]_vars => \A r \in Requests : pc'[r] \notin {pc[r], "lost"} => RightfulStep(r)
  <2> SUFFICES ASSUME IInv, [Next]_vars, NEW r \in Requests, pc'[r] \notin {pc[r], "lost"}
               PROVE  RightfulStep(r)
    OBVIOUS
  <2>1. CASE Crash
    BY <2>1 DEF Crash
  <2>2. CASE UNCHANGED vars
    BY <2>2 DEF vars
  <2>3. ASSUME NEW q \in Requests, Handle(q) PROVE RightfulStep(r)
    <3>1. Fine(q)
      BY <2>3, HandleKeeps DEF Kept
    <3>2. q = r
      BY <3>1 DEF Fine, Frame
    <3> QED
      BY <3>1, <3>2 DEF Fine
  <2> QED
    BY <2>1, <2>2, <2>3 DEF Next
<1> QED
  BY <1>1, Invariance, PTL DEF Spec, OnlyByRight
\* When no request is under way and none was cut short, the audit log accounts
\* for the tables: for every user, organization, project, environment and
\* revoked token there is the event of the request that made, deleted or revoked
\* it, and for every user and project as many members are there as the events of
\* members say (audit() in lib/route-utils.ts, after the change).
THEOREM AuditAccounts == Spec => []AuditAccountsForTables
<1>1. IInv /\ AuditInv => AuditAccountsForTables
  <2> SUFFICES ASSUME IInv, AuditInv, Settled PROVE AuditAccountsForTables
    BY DEF AuditAccountsForTables
  <2>1. Balanced
    BY DEF AuditInv, Settled
  <2>2. Log = audit
    BY DEF Settled, Owed, Log
  <2>3. \A event : TellersOf(event) = Tellers(event)
    BY <2>2 DEF TellersOf, Told, Tellers
  <2>4. /\ RemovedUsers = {call[r].user : r \in TellersOf("user.remove")}
        /\ DeletedProjects = {call[r].project : r \in TellersOf("project.delete")}
        /\ AddedEnvs = {<<call[r].project, call[r].name>> : r \in TellersOf("env.add")}
    BY <2>3 DEF RemovedUsers, DeletedProjects, AddedEnvs
  <2>5. /\ Existing(users) =
             (DOMAIN Users0 \cup TellersOf("register") \cup TellersOf("invite"))
             \ {call[r].user : r \in TellersOf("user.remove")}
        /\ Existing(orgs) = DOMAIN Orgs0 \cup TellersOf("register") \cup TellersOf("org.create")
    BY <2>1, <2>3, <2>4 DEF Balanced, UsersTold, OrgsTold
  <2>6. /\ Existing(projects) = DOMAIN Projects0 \cup TellersOf("project.create")
        /\ {p \in Existing(projects) : projects[p].deleted} =
             {p \in DOMAIN Projects0 : Projects0[p].deleted}
             \cup {call[r].project : r \in TellersOf("project.delete")}
        /\ envs = {<<p, "dev">> : p \in Existing(projects)}
                  \cup {<<call[r].project, call[r].name>> : r \in TellersOf("env.add")}
    BY <2>1, <2>3, <2>4 DEF Balanced, ProjectsTold, EnvsTold
  <2>7. ASSUME NEW u \in Existing(users), NEW p \in Existing(projects)
        PROVE  LET Names(e) == e.user = u /\ call[e.by].project = p IN
               Cardinality(Membership(u, p)) + Cardinality({e \in Told("member.removed") : Names(e)}) =
               Cardinality({m \in Members0 : m.user = u /\ m.project = p})
               + Cardinality({e \in Told("member.added") : Names(e)})
    <3>1. u \in UserIds /\ p \in ProjectIds
      BY DEF Existing, IInv, Types
    <3>2. u \notin RemovedUsers
      BY <2>1 DEF Balanced, UsersTold
    <3>3. \A event : {e \in Told(event) : e.user = u /\ call[e.by].project = p} = About(event, u, p)
      BY <2>2 DEF Told, About
    <3>4. Cardinality(Membership(u, p)) + Cardinality(About("member.removed", u, p)) =
          Cardinality(First(u, p)) + Cardinality(About("member.added", u, p))
      BY <2>1, <3>1, <3>2 DEF Balanced, MembersTold
    <3> QED
      BY <3>3, <3>4 DEF First
  <2>8. ASSUME NEW t \in Existing(tokens)
        PROVE  Cardinality({e \in Told("token.revoke") : call[e.by].token = t}) =
               IF tokens[t].revoked /\ t \notin Revoked0 THEN 1 ELSE 0
    <3>1. t \in TokenIds /\ tokens[t] # Null
      BY DEF Existing, IInv, Types
    <3>2. {e \in Told("token.revoke") : call[e.by].token = t} = Revokes(t)
      BY <2>2 DEF Told, Revokes
    <3> QED
      BY <2>1, <3>1, <3>2 DEF Balanced, TokensTold
  <2> QED
    BY <2>5, <2>6, <2>7, <2>8 DEF AuditAccountsForTables
<1>2. Spec => []AuditInv
  BY InitTold, AuditStep, Invariance, PTL DEF Spec
<1> QED
  BY <1>1, <1>2, Invariance, PTL
============================================================================
