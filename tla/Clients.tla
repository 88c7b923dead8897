------------------------------ MODULE Clients ------------------------------
(***************************************************************************)
(* The programs on a developer's machine that share one stored session:    *)
(* invocations of the keynv CLI (apps/cli/src), its menu, and the API      *)
(* connections of keynv-mcp (apps/mcp/src).  The session is a file sealed  *)
(* under a key in the OS keychain (or a key file); a CLI process that is   *)
(* answered 401 exchanges the refresh token, stores the new session and    *)
(* sends its request once more.  Nothing locks the file or the key.        *)
(*                                                                         *)
(* A session is a number, which stands for its refresh token and for the   *)
(* access token issued with it; CliToken stands for a kt_ token.  What a   *)
(* command does is a sequence of steps, see "The commands".                *)
(***************************************************************************)
EXTENDS Integers, Sequences, FiniteSets, Functions

CONSTANTS
  Procs,                       \* processes of the machine
  Keys,                        \* keys generateKey may return
  Invocations,                 \* process |-> how it may be called: [kind, flow, env]
  Choosable,                   \* what may be chosen in the menu
  Interval, SlowDown, Slowest, \* polling, in units of time
  Deadline,                    \* life of a device code
  None,
  MaxChoices,                  \* in menus, and tool calls
  MaxExpiries, MaxFaults

ASSUME PollAssumption ==
  /\ {Interval, SlowDown, Slowest, Deadline} \subseteq Nat \ {0}
  /\ Interval <= Slowest /\ SlowDown <= Slowest

\* generateKey returns 32 random bytes, which no other key in use has.
ASSUME KeyAssumption ==
  /\ IsFiniteSet(Procs)
  /\ IsFiniteSet(Keys) => Cardinality(Keys) > Cardinality(Procs) + 2

ASSUME NoneAssumption == None \notin Nat \cup Keys

VARIABLES
  valid,       \* refresh tokens the server would exchange
  accepted,    \* access tokens the server accepts
  newest,      \* number of sessions issued
  file,        \* credentials.enc
  legacy,      \* credentials.json, of older versions
  key,         \* the keychain entry
  procs,       \* process |-> its state
  ended,       \* sessions whose end the stored copy cannot follow
  choices, expiries, faults

clientVars == <<valid, accepted, newest, file, legacy, key, procs, ended, choices, expiries, faults>>
issuer == <<valid, accepted, newest>>
store == <<file, legacy, key>>
counters == <<choices, expiries, faults>>

CliToken == 0
Torn == [creds |-> None, key |-> None]   \* shorter than header, nonce and tag

Idle == [kind |-> "none", pc |-> "new", todo |-> <<>>, creds |-> None, next |-> None,
         held |-> None, again |-> FALSE, clock |-> 0, wait |-> 0,
         wants |-> FALSE, did |-> 0, told |-> "nothing"]

-----------------------------------------------------------------------------
(* The commands.  Steps: tty, ask, check (the user or an argument may end  *)
(* the command), connected, get, change, probe, tryget, logout (requests), *)
(* start, poll, signin, token (signing in), save, forget, dropkey.         *)

Pick == <<"get", "ask">>
PickSecret == Pick
PickAlias == {<<>>, <<"tty">> \o Pick \o PickSecret}
PickEnv == Pick
NewSecret == PickEnv \o <<"ask", "ask">>
ResolveProject == {<<>>, <<"get", "check">>}

Copy == <<"check">>   \* there may be no clipboard

SecretCreate == {a \o <<"check">> \o v \o r \o <<"change">> :
                   a \in {<<>>, <<"tty">> \o Pick \o NewSecret}, v \in {<<>>, <<"ask">>}, r \in ResolveProject}
SecretGet == {a \o <<"check">> \o r \o <<"get">> \o s :
                a \in PickAlias, r \in ResolveProject, s \in {<<>>, <<"tty">> \o Copy, Copy}}
SecretList == {p \o r \o <<"get">> : p \in {<<>>, <<"tty">> \o Pick}, r \in ResolveProject}
SecretRotate == {a \o <<"check">> \o v \o r \o <<"change">> :
                   a \in PickAlias, v \in {<<>>, <<"ask">>}, r \in ResolveProject}
SecretDelete == {a \o <<"check">> \o c \o r \o <<"change">> :
                   a \in PickAlias, c \in {<<>>, <<"tty", "ask">>}, r \in ResolveProject}
SecretSetRotation == {a \o <<"check", "check">> \o r \o <<"change">> : a \in PickAlias, r \in ResolveProject}
SecretRotations == {r \o <<"get">> : r \in ResolveProject}
ProjectList == {<<"get">>}
ProjectCreate == {<<"change">>}
ProjectDescribe == {r \o <<"get">> : r \in ResolveProject}
ProjectDelete == {<<"check", "change">>}
MemberAdd == {<<"check">> \o r \o <<"change">> : r \in ResolveProject}
MemberRemove == {r \o <<"get", "check", "change">> : r \in ResolveProject}
MemberList == {r \o <<"get">> : r \in ResolveProject}
EnvList == {r \o <<"get">> : r \in ResolveProject}
EnvAdd == {<<"check", "probe", "check">> \o r \o <<"change">> : r \in ResolveProject}
AuditList == {<<"get">>}
AuditVerify == {<<"get">>}
TestSecret == {<<"check", "connected">> \o r \o <<"get">> : r \in ResolveProject}
Whoami == {<<"connected", "get">>}
BrowserAuth == <<"start", "poll", "save">>
LoginFlows == {<<"check">> \o BrowserAuth, <<"check", "ask", "signin", "save">>, <<"check", "token", "save">>}
LogoutFlows == {<<"connected", "logout", "forget", "dropkey">>}

Commands ==
  UNION {SecretCreate, SecretGet, SecretList, SecretRotate, SecretDelete, SecretSetRotation,
         SecretRotations, ProjectList, ProjectCreate, ProjectDescribe, ProjectDelete,
         MemberAdd, MemberRemove, MemberList, EnvList, EnvAdd, AuditList, AuditVerify,
         TestSecret, Whoami, LoginFlows, LogoutFlows}

(* The menu, one pass through its flows at a time.                         *)
Connect == <<"ask">>
MenuLogin == Connect \o BrowserAuth
CreateInteractive == NewSecret \o <<"change">>
SecretMenu == {<<"get">>, <<"ask", "change">>}   \* copy or reveal; rotate or delete
MenuSecrets == {p \o <<"get", "ask">> \o f : p \in {<<>>, Pick}, f \in SecretMenu \cup {CreateInteractive}}
MenuProjects == {Pick \o f : f \in {<<"ask", "ask", "change">>, <<"tryget">>, <<"tryget", "ask", "change">>}}
MenuMembers == {p \o <<"get", "ask">> \o f : p \in {<<>>, Pick}, f \in {<<"ask", "change">>, <<"ask", "ask", "change">>}}
MenuAudit == {<<"ask", "get">>}
MenuLogout == <<"logout", "forget", "dropkey">>
MenuChoices == UNION {MenuSecrets, MenuProjects, MenuMembers, MenuAudit, {MenuLogout, <<>>}}

(* The tools of keynv-mcp: who_am_i, list_secrets, use_secret and          *)
(* test_connection.                                                        *)
McpTools == {<<"get">>, <<"get", "check", "get">>, <<"check", "get", "check", "get">>}

(* What a process may be called to do, and what there is in the menu.      *)
ASSUME FlowAssumption ==
  /\ \A p \in Procs :
       Invocations[p] \subseteq [kind : {"cli"}, flow : Commands, env : BOOLEAN]
                          \cup [kind : {"menu", "mcp"}, flow : {<<>>}, env : BOOLEAN]
  /\ Choosable \subseteq MenuChoices

Authed == {"get", "tryget", "change"}
Requests == Authed \cup {"probe", "logout"}
BestEffort == {"tryget", "logout"}   \* a failure is caught and the flow goes on

-----------------------------------------------------------------------------
ClientsTypeOK ==
  /\ valid \subseteq 1 .. newest /\ ended \subseteq 0 .. newest
  /\ accepted \subseteq 0 .. newest
  /\ file \in [creds : {None} \cup 0 .. newest, key : {None} \cup Keys] \cup {None}
  /\ legacy \in {None} \cup 1 .. newest /\ key \in {None} \cup Keys
  /\ \A p \in Procs : procs[p].creds \in {None} \cup 0 .. newest

Becomes(p, r) == procs' = [procs EXCEPT ![p] = r]
StandsAt(p, pc) == procs[p].pc = pc
On(p, steps) == StandsAt(p, "run") /\ procs[p].todo # <<>> /\ Head(procs[p].todo) \in steps
Step(p) == Head(procs[p].todo)
Go(s) == [s EXCEPT !.pc = "run", !.todo = Tail(@), !.again = FALSE]

(* What the user may conclude: the change is made, is not, or may be.      *)
Sense(word) == IF word \in {"done", "perhaps"} THEN word ELSE "not done"

(* The command ends with this word to the user.  The menu and the MCP      *)
(* server take the next choice, unless it was the login that failed.       *)
Ended(s, word) ==
  LET rest == [Idle EXCEPT !.pc = "ended", !.wants = s.wants, !.did = s.did, !.told = Sense(word)]
  IN IF s.kind \in {"menu", "mcp"} /\ "save" \notin Range(s.todo)
     THEN [rest EXCEPT !.kind = s.kind, !.pc = "menu", !.creds = s.creds]
     ELSE rest

Failed(s, word) ==
  IF s.todo # <<>> /\ Head(s.todo) \in BestEffort THEN Go(s) ELSE Ended(s, word)

Fault == faults < MaxFaults /\ faults' = faults + 1 /\ UNCHANGED <<choices, expiries>>

-----------------------------------------------------------------------------
(* Reading the stored session.                                             *)

Flow(s, flow) == [s EXCEPT !.todo = flow, !.wants = "change" \in Range(flow), !.did = 0, !.told = "nothing"]

(* The login commands make no use of what is stored.                       *)
Start(p) ==
  /\ StandsAt(p, "new")
  /\ \E i \in Invocations[p] :
       Becomes(p, [Flow(Idle, i.flow) EXCEPT !.kind = i.kind,
                                             !.pc = IF "save" \in Range(i.flow) THEN "run" ELSE "load",
                                             !.creds = IF i.env THEN CliToken ELSE None])
  /\ UNCHANGED <<issuer, store, ended, counters>>

(* The menu of a process that is not connected leads to the login.         *)
Loaded(s, creds) ==
  LET t == [s EXCEPT !.creds = creds, !.pc = "run", !.held = None, !.next = None]
  IN IF s.kind \in {"menu", "mcp"} /\ s.todo = <<>>
     THEN IF creds = None
          THEN IF s.kind = "menu" THEN [t EXCEPT !.todo = MenuLogin] ELSE [Idle EXCEPT !.pc = "ended"]
          ELSE [t EXCEPT !.pc = "menu"]
     ELSE t

(* loadCredentialsAsync: the environment, the legacy file (sealed first,   *)
(* as the new format), or the file, which is read before the key.          *)
LoadFile(p) ==
  LET s == procs[p] IN
  /\ StandsAt(p, "load") /\ s.kind # "mcp"
  /\ Becomes(p, IF s.creds = CliToken THEN Loaded(s, CliToken)
                ELSE IF file = None
                     THEN IF legacy = None THEN Loaded(s, None)
                          ELSE [s EXCEPT !.pc = "save", !.next = legacy]
                     ELSE IF file = Torn THEN Loaded(s, None)
                          ELSE [s EXCEPT !.pc = "unlock", !.next = file.creds, !.held = file.key])
  /\ UNCHANGED <<issuer, store, ended, counters>>

(* keynv-mcp opens the file when it can, and else takes the legacy one.    *)
McpLoad(p) ==
  /\ StandsAt(p, "load") /\ procs[p].kind = "mcp"
  /\ Becomes(p, Loaded(procs[p], IF file # None /\ file # Torn /\ file.key = key THEN file.creds ELSE legacy))
  /\ UNCHANGED <<issuer, store, ended, counters>>

(* loadOrCreateKey looks for the key, and makes one after an await.        *)
WithKey(s, k) ==
  IF s.pc \in {"unlock", "makeToOpen"}
  THEN Loaded(s, IF s.held = k THEN s.next ELSE None)
  ELSE [s EXCEPT !.pc = "open", !.held = k]

GetKey(p) ==
  LET s == procs[p] IN
  /\ s.pc \in {"unlock", "save"}
  /\ Becomes(p, IF key # None THEN WithKey(s, key)
                ELSE [s EXCEPT !.pc = IF @ = "unlock" THEN "makeToOpen" ELSE "makeToSave"])
  /\ UNCHANGED <<issuer, store, ended, counters>>

InUse == {key} \cup {procs[p].held : p \in Procs} \cup {IF file = None THEN None ELSE file.key}

MakeKey(p) ==
  /\ procs[p].pc \in {"makeToOpen", "makeToSave"}
  /\ key' = CHOOSE k \in Keys : k \notin InUse
  /\ Becomes(p, WithKey(procs[p], key'))
  /\ UNCHANGED <<issuer, file, legacy, ended, counters>>

-----------------------------------------------------------------------------
(* Storing a session: saveCredentials overwrites the file in place.        *)

OpenFile(p) ==
  /\ StandsAt(p, "open")
  /\ file' = Torn
  /\ Becomes(p, [procs[p] EXCEPT !.pc = "data"])
  /\ UNCHANGED <<issuer, legacy, key, ended, counters>>

Saved(s) ==
  LET t == [s EXCEPT !.creds = s.next, !.next = None, !.held = None, !.pc = "run"]
  IN IF t.todo # <<>> /\ Head(t.todo) = "save" THEN Go(t) ELSE Loaded(t, t.creds)

(* A legacy session is sealed as it was read, which may be after another   *)
(* process has sealed it, exchanged it and stored the next one.            *)
Loading(s) == ~s.again /\ "save" \notin Range(s.todo)

WriteFile(p) ==
  LET s == procs[p] IN
  /\ StandsAt(p, "data")
  /\ file' = [creds |-> s.next, key |-> s.held]
  /\ legacy' = None
  /\ Becomes(p, Saved(s))
  /\ ended' = IF Loading(s) THEN ended \cup {s.next} ELSE ended
  /\ UNCHANGED <<issuer, key, counters>>

(* The exchanged session of a process that does not come to store the new  *)
(* one: its stored copy is of no use from then on.                         *)
Unsaved(s) == IF s.again /\ s.next # None THEN {s.creds} ELSE {}

(* The keychain or the disk refuses: a process that starts has no session, *)
(* a request fails, a login is of no use.                                  *)
SaveFails(p) ==
  LET s == procs[p] IN
  /\ s.pc \in {"unlock", "makeToOpen", "save", "makeToSave", "open"} /\ Fault
  /\ ended' = ended \cup Unsaved(s)
  /\ Becomes(p, IF Loading(s) THEN Loaded(s, None)
                ELSE Failed([s EXCEPT !.next = None, !.held = None], "notSaved"))
  /\ UNCHANGED <<issuer, store>>

SaveStep(p) == On(p, {"save"}) /\ Becomes(p, [procs[p] EXCEPT !.pc = "save"])
               /\ UNCHANGED <<issuer, store, ended, counters>>

(* clearCredentialsFile: the files, then the key, which may not be         *)
(* removable; the user is told "logged out" all the same.                  *)
Forget(p) ==
  /\ On(p, {"forget"})
  /\ file' = None /\ legacy' = None
  /\ Becomes(p, Go(procs[p]))
  /\ UNCHANGED <<issuer, key, ended, counters>>

DropKey(p) ==
  /\ On(p, {"dropkey"})
  /\ \/ key' = None /\ UNCHANGED counters
     \/ key' = key /\ Fault
  /\ Becomes(p, Go(procs[p]))
  /\ UNCHANGED <<issuer, file, legacy, ended>>

-----------------------------------------------------------------------------
(* Requests.                                                               *)

(* The server has done it, or refuses by name (4xx) and has done nothing.  *)
Answer(s, ok) ==
  IF ok THEN Go([s EXCEPT !.did = IF Head(s.todo) = "change" THEN @ + 1 ELSE @])
  ELSE Failed(s, "refused")

NotConnected(p) ==
  /\ On(p, Requests) /\ procs[p].creds = None
  /\ Becomes(p, Failed(procs[p], IF Step(p) = "probe" THEN "perhaps" ELSE "notConnected"))
  /\ UNCHANGED <<issuer, store, ended, counters>>

(* The MCP server refreshes before it sends, when its copy has expired or  *)
(* is about to.                                                            *)
Expiring(s) == s.kind = "mcp" /\ ~s.again /\ s.creds \notin accepted \cup {CliToken}

Send(p) ==
  LET s == procs[p] IN
  /\ On(p, Requests) /\ s.creds # None /\ ~Expiring(s)
  /\ IF Step(p) \in Authed /\ s.creds \notin accepted
     THEN Becomes(p, IF s.again \/ s.kind = "mcp" THEN Failed(s, "refused")
                     ELSE [s EXCEPT !.pc = "refresh"])
     ELSE \E ok \in BOOLEAN : Becomes(p, Answer(s, ok))
  /\ IF Step(p) = "logout"
     THEN valid' = valid \ {s.creds} /\ ended' = ended \cup {s.creds}
     ELSE UNCHANGED <<valid, ended>>
  /\ UNCHANGED <<accepted, newest, store, counters>>

(* The plausible mistake of sending again what may have arrived.           *)
SentAgain(s, did) == [s EXCEPT !.did = did, !.again = TRUE]

(* The request or its answer is lost, and nothing is sent again.           *)
Unclear(s, did) == Failed([s EXCEPT !.did = did], "perhaps")

(* fetch fails or the answer breaks off; or the server says that it has    *)
(* failed, which it may before or after its commit, or a proxy that it has *)
(* had no answer (5xx).                                                    *)
SendFails(p) ==
  LET s == procs[p]
      done == Step(p) = "change" /\ s.creds \in accepted
  IN /\ On(p, Requests) /\ s.creds # None /\ ~Expiring(s) /\ Fault
     /\ \E arrived \in BOOLEAN :
          /\ Becomes(p, Unclear(s, IF arrived /\ done THEN s.did + 1 ELSE s.did))
          /\ IF arrived /\ Step(p) = "logout"
             THEN valid' = valid \ {s.creds} /\ ended' = ended \cup {s.creds}
             ELSE UNCHANGED <<valid, ended>>
     /\ UNCHANGED <<accepted, newest, store>>

McpExpiring(p) ==
  /\ On(p, Requests) /\ procs[p].kind = "mcp" /\ procs[p].creds # None
  /\ procs[p].creds # CliToken /\ ~procs[p].again
  /\ Becomes(p, [procs[p] EXCEPT !.pc = "refresh"])
  /\ UNCHANGED <<issuer, store, ended, counters>>

(* rotateRefreshToken looks the token up, and revokes it and issues the    *)
(* next in later steps.                                                    *)
RefreshRefused(p) ==
  LET s == procs[p] IN
  /\ StandsAt(p, "refresh") /\ s.creds \notin valid
  /\ Becomes(p, IF s.kind = "mcp" THEN Ended(s, "expired")
                ELSE Failed([s EXCEPT !.creds = None], "expired"))
  /\ UNCHANGED <<issuer, store, ended, counters>>

RefreshLook(p) ==
  /\ StandsAt(p, "refresh") /\ procs[p].creds \in valid
  /\ Becomes(p, [procs[p] EXCEPT !.pc = "rotate"])
  /\ UNCHANGED <<issuer, store, ended, counters>>

IssueSession(n, old) ==
  /\ newest' = n /\ valid' = (valid \ {old}) \cup {n} /\ accepted' = accepted \cup {n}

(* The plausible mistake of not storing the new session.                   *)
RefreshedInMemory(s, n) == [s EXCEPT !.creds = n, !.again = TRUE, !.pc = "run"]

(* What a client does with the new session: the CLI stores it, the MCP     *)
(* server keeps it to itself.                                              *)
Refreshed(s, n) ==
  IF s.kind = "mcp" THEN RefreshedInMemory(s, n)
  ELSE [s EXCEPT !.next = n, !.again = TRUE, !.pc = "save"]

Rotate(p) ==
  LET s == procs[p] IN
  /\ StandsAt(p, "rotate")
  /\ IssueSession(newest + 1, s.creds)
  /\ Becomes(p, Refreshed(s, newest + 1))
  /\ ended' = IF s.kind = "mcp" THEN ended \cup {s.creds} ELSE ended
  /\ UNCHANGED <<store, counters>>

RefreshFails(p) ==
  LET s == procs[p] IN
  /\ s.pc \in {"refresh", "rotate"} /\ Fault
  /\ IF s.pc = "rotate"
     THEN IssueSession(newest + 1, s.creds) /\ ended' = ended \cup {s.creds}
     ELSE UNCHANGED <<issuer, ended>>
  /\ Becomes(p, Failed(s, "perhaps"))
  /\ UNCHANGED store

-----------------------------------------------------------------------------
(* Signing in.                                                             *)

StartBrowser(p) ==
  /\ On(p, {"start"})
  /\ \/ Becomes(p, [Go(procs[p]) EXCEPT !.clock = 0, !.wait = Interval]) /\ UNCHANGED counters
     \/ Becomes(p, Ended(procs[p], "refused")) /\ Fault
  /\ UNCHANGED <<issuer, store, ended>>

Lower(a, b) == IF a < b THEN a ELSE b
Higher(a, b) == IF a < b THEN b ELSE a

Signed(s, n) == [Go(s) EXCEPT !.next = n, !.clock = 0, !.wait = 0]

(* The plausible mistake of leaving the end to the server.                 *)
NeverOutOfTime(s) == FALSE

OutOfTime(s) == s.clock >= Deadline

(* Each poll follows a pause.  202 goes on, 429 slows down, and the server *)
(* refuses a device code whose life is over.                               *)
Pause(p) ==
  LET s == procs[p] IN
  /\ On(p, {"poll"}) /\ ~OutOfTime(s)
  /\ Becomes(p, [s EXCEPT !.pc = "polling", !.clock = Lower(@ + s.wait, Deadline)])
  /\ UNCHANGED <<issuer, store, ended, counters>>

Poll(p) ==
  LET s == procs[p]
      back == [s EXCEPT !.pc = "run"]
  IN /\ StandsAt(p, "polling")
     /\ \/ s.clock < Deadline /\ Becomes(p, back) /\ UNCHANGED issuer
        \/ Becomes(p, [back EXCEPT !.wait = Lower(Higher(2 * @, SlowDown), Slowest)])
           /\ UNCHANGED issuer
        \/ Becomes(p, Ended(s, "refused")) /\ UNCHANGED issuer
        \/ /\ s.clock < Deadline
           /\ IssueSession(newest + 1, None)
           /\ Becomes(p, Signed(s, newest + 1))
     /\ UNCHANGED <<store, ended, counters>>

PollTimedOut(p) ==
  /\ On(p, {"poll"}) /\ OutOfTime(procs[p])
  /\ Becomes(p, Ended(procs[p], "refused"))
  /\ UNCHANGED <<issuer, store, ended, counters>>

SignIn(p) ==
  /\ On(p, {"signin"})
  /\ \/ IssueSession(newest + 1, None) /\ Becomes(p, Signed(procs[p], newest + 1))
     \/ Becomes(p, Ended(procs[p], "refused")) /\ UNCHANGED issuer
  /\ UNCHANGED <<store, ended, counters>>

TokenSignIn(p) ==
  /\ On(p, {"token"})
  /\ Becomes(p, IF CliToken \in accepted THEN Signed(procs[p], CliToken) ELSE Ended(procs[p], "refused"))
  /\ UNCHANGED <<issuer, store, ended, counters>>

-----------------------------------------------------------------------------
(* The user, and what a command decides without the server.                *)

Local == {"tty", "ask", "check"}

(* The n-th step is the first that is not decided here.                    *)
PastLocal(todo, n) ==
  /\ \A i \in 1 .. n - 1 : todo[i] \in Local
  /\ n <= Len(todo) => todo[n] \notin Local

Decide(p) ==
  /\ On(p, Local)
  /\ \/ \E n \in 2 .. Len(procs[p].todo) + 1 :
          /\ PastLocal(procs[p].todo, n)
          /\ Becomes(p, [procs[p] EXCEPT !.todo = SubSeq(@, n, Len(@))])
     \/ Becomes(p, Ended(procs[p], "declined"))
  /\ UNCHANGED <<issuer, store, ended, counters>>

Connected(p) ==
  /\ On(p, {"connected"})
  /\ Becomes(p, IF procs[p].creds = None THEN Ended(procs[p], "notConnected") ELSE Go(procs[p]))
  /\ UNCHANGED <<issuer, store, ended, counters>>

Finish(p) ==
  /\ StandsAt(p, "run") /\ procs[p].todo = <<>>
  /\ Becomes(p, Ended(procs[p], "done"))
  /\ UNCHANGED <<issuer, store, ended, counters>>

(* The next choice in the menu, or tool call.  Logout and exit end the     *)
(* process.                                                                *)
Choose(p) ==
  /\ StandsAt(p, "menu") /\ choices < MaxChoices
  /\ \E flow \in IF procs[p].kind = "mcp" THEN McpTools ELSE Choosable :
       Becomes(p, [Flow(procs[p], flow) EXCEPT !.pc = "run",
                     !.kind = IF flow \in {MenuLogout, <<>>} THEN "cli" ELSE @])
  /\ choices' = choices + 1
  /\ UNCHANGED <<issuer, store, ended, expiries, faults>>

-----------------------------------------------------------------------------
(* The server ends what it has begun for a client that is gone, see        *)
(* RefreshFails.                                                           *)
Kill(p) ==
  /\ procs[p].pc \notin {"new", "rotate", "ended"} /\ Fault
  /\ ended' = ended \cup Unsaved(procs[p])
  /\ Becomes(p, [Idle EXCEPT !.pc = "ended"])
  /\ UNCHANGED <<issuer, store>>

(* An access token runs out, a CLI token is revoked.                       *)
InHand == {procs[p].creds : p \in Procs} \cup {IF file = None THEN None ELSE file.creds}

RunOut ==
  /\ expiries < MaxExpiries
  /\ \E n \in accepted \cap (InHand \ {None}) : accepted' = accepted \ {n}
  /\ expiries' = expiries + 1
  /\ UNCHANGED <<valid, newest, store, procs, ended, choices, faults>>

ClientsInit ==
  /\ valid = {1} /\ accepted = {0, 1} /\ newest = 1
  /\ LET k == CHOOSE k \in Keys : TRUE
     IN \/ file = [creds |-> 1, key |-> k] /\ key = k /\ legacy = None
        \/ file = None /\ key = None /\ legacy \in {None, 1}
  /\ procs = [p \in Procs |-> Idle]
  /\ ended = {} /\ choices = 0 /\ expiries = 0 /\ faults = 0

Work(p) ==
  \/ LoadFile(p) \/ McpLoad(p) \/ GetKey(p) \/ MakeKey(p)
  \/ OpenFile(p) \/ WriteFile(p) \/ SaveStep(p) \/ Forget(p) \/ DropKey(p)
  \/ NotConnected(p) \/ Send(p) \/ McpExpiring(p) \/ RefreshRefused(p) \/ RefreshLook(p) \/ Rotate(p)
  \/ StartBrowser(p) \/ Pause(p) \/ Poll(p) \/ PollTimedOut(p) \/ SignIn(p) \/ TokenSignIn(p)
  \/ Decide(p) \/ Connected(p) \/ Finish(p)

ClientsNext ==
  \/ RunOut
  \/ \E p \in Procs :
       Work(p) \/ Start(p) \/ Choose(p) \/ Kill(p) \/ SaveFails(p) \/ SendFails(p) \/ RefreshFails(p)

ClientsSpec == ClientsInit /\ [][ClientsNext]_clientVars

(* A process that runs is scheduled, the server answers and the user       *)
(* reacts.                                                                 *)
ClientsFairSpec == ClientsSpec /\ \A p \in Procs : WF_clientVars(Work(p))

-----------------------------------------------------------------------------
(* A command's change is made at most once, whatever is lost, refreshed    *)
(* and sent again.  "Done" means made; a refusal, by the server or before  *)
(* it was asked, means not made, also if an earlier request of the command *)
(* was lost.  "Cannot reach the server" and an answer of 5xx say neither.  *)
TellsTheTruth ==
  \A p \in Procs :
    LET s == procs[p] IN
    /\ s.did <= 1
    /\ s.told = "done" => s.did = (IF s.wants THEN 1 ELSE 0)
    /\ s.told = "not done" => s.did = 0

(* The stored session can be exchanged, or was ended by something that     *)
(* cannot write the file: a logout, the MCP server's own refresh, a crash  *)
(* or a lost answer; or its successor is on its way to the file.  However  *)
(* many commands run side by side, none leaves another's spent session     *)
(* there.                                                                  *)
StoredSessionLives ==
  ClientsTypeOK /\ (file \notin {None, Torn} =>
    file.creds \in {CliToken} \cup valid \cup ended \cup UNION {Unsaved(procs[p]) : p \in Procs})

(* A command ends or is back at the menu: the retry is one retry, and the  *)
(* browser login gives up when the device code has expired.                *)
CommandsEnd == \A p \in Procs : procs[p].todo # <<>> ~> procs[p].pc \in {"ended", "menu"}
=============================================================================
