------------------------------ MODULE Startup ------------------------------
(***************************************************************************)
(* The start of the server: main (apps/server/src/index.ts) runs           *)
(* maybeAutoBootstrap, loadOrCreateKek, applyMigrations and                *)
(* resolveJwtSecret over files and a database that outlive it, and is      *)
(* started again whenever it exits (restart: unless-stopped).              *)
(*                                                                         *)
(* One process runs at a time.  It may die between any two steps: it is    *)
(* killed, or a write or the hashing of the owner's password throws and    *)
(* main exits.  A migration is one transaction; a file is created and then *)
(* written.  KEYNV_JWT_SECRET is not set.  While the server is down the    *)
(* operator may run the bootstrap command (apps/server/src/bootstrap.ts)   *)
(* on the same volume.                                                     *)
(***************************************************************************)
EXTENDS Naturals, FiniteSets

CONSTANTS
  Keys,        \* master keys
  Secrets,     \* JWT secrets
  Projects,
  Migrations,  \* number of files in db/migrations
  None,        \* no file, no key
  Empty,       \* a file that was created and not written
  MaxCrashes,  \* bound on the deaths of the process
  MaxLosses    \* bound on losses of the master key file

ASSUME NoneAssumption ==
  None \notin Keys \cup Secrets \cup {Empty} /\ Empty \notin Keys \cup Secrets
ASSUME BoundAssumption ==
  Migrations \in Nat /\ MaxCrashes \in Nat /\ MaxLosses \in Nat

VARIABLES
  pc,         \* what main does next
  ownerVars,  \* KEYNV_BOOTSTRAP_OWNER_EMAIL and _PASSWORD
  keyFile,    \* master.key
  jwtFile,    \* jwt.secret
  dbFile,     \* the database file exists
  applied,    \* schema_migrations: the first so many files
  orgs,       \* organisations
  owners,     \* organisations with an owner
  dek,        \* project -> the key that wraps its DEK
  kek,        \* the key in memory
  jwtSecret,  \* the secret in memory
  tokens,     \* secrets under which clients hold access tokens
  crashes,    \* deaths so far
  losses      \* losses so far

disk == <<keyFile, jwtFile, dbFile, applied, orgs, owners, dek>>
memory == <<kek, jwtSecret>>
world == <<ownerVars, tokens, crashes, losses>>
vars == <<pc, disk, memory, world>>

FreshKeys == Keys \ ({keyFile, kek} \cup {dek[p] : p \in Projects})
FreshSecrets == Secrets \ ({jwtFile, jwtSecret} \cup tokens)

Init ==
  /\ pc = "down"
  /\ ownerVars = "missing"
  /\ keyFile = None /\ jwtFile = None
  /\ dbFile = FALSE /\ applied = 0
  /\ orgs = {} /\ owners = {}
  /\ dek = [p \in Projects |-> None]
  /\ kek = None /\ jwtSecret = None
  /\ tokens = {}
  /\ crashes = 0 /\ losses = 0

----------------------------------------------------------------------------
(* main *)

\* The process starts; the operator may have edited .env meanwhile.
Boot ==
  /\ pc = "down"
  /\ pc' = "bootstrap kek"
  /\ ownerVars' \in {"missing", "set"}
  /\ kek' = None /\ jwtSecret' = None
  /\ UNCHANGED <<disk, tokens, crashes, losses>>

\* loadOrCreateKek: a file of any other length than a key's makes main exit.
\* (Of the two calls, maybeAutoBootstrap makes the first for its effect.)
LoadKek(at, write, next) ==
  /\ pc = at
  /\ \/ /\ keyFile \in Keys
        /\ kek' = keyFile
        /\ pc' = next
        /\ UNCHANGED keyFile
     \/ /\ keyFile = Empty
        /\ pc' = "down"
        /\ UNCHANGED <<keyFile, kek>>
     \/ /\ keyFile = None
        /\ keyFile' = Empty
        /\ pc' = write
        /\ UNCHANGED kek
  /\ UNCHANGED <<jwtFile, dbFile, applied, orgs, owners, dek, jwtSecret, world>>

\* Mutant of Written: the content is kept in memory only
NotWritten(file, content) == None

\* What a file holds after writeFileSync has written to it
Written(file, content) == content

WriteKek(at, next) ==
  /\ pc = at
  /\ \E k \in FreshKeys : kek' = k /\ keyFile' = Written(keyFile, k)
  /\ pc' = next
  /\ UNCHANGED <<jwtFile, dbFile, applied, orgs, owners, dek, jwtSecret, world>>

\* openDb creates the database; then applyMigrations: the next file, or done
Migrate(at, next) ==
  /\ pc = at
  /\ IF ~dbFile THEN dbFile' = TRUE /\ UNCHANGED <<pc, applied>>
     ELSE IF applied < Migrations
     THEN applied' = applied + 1 /\ UNCHANGED <<pc, dbFile>>
     ELSE pc' = next /\ UNCHANGED <<dbFile, applied>>
  /\ UNCHANGED <<keyFile, jwtFile, orgs, owners, dek, memory, world>>

\* maybeAutoBootstrap: no org exists yet and the owner is given
OwnerWanted == orgs = {} /\ ownerVars = "set"

BootstrapOrg ==
  /\ pc = "bootstrap org"
  /\ IF OwnerWanted
     THEN orgs' = {"bootstrap"} /\ pc' = "bootstrap owner"
     ELSE pc' = "migrate" /\ UNCHANGED orgs
  /\ UNCHANGED <<keyFile, jwtFile, dbFile, applied, owners, dek, memory, world>>

\* hashPassword has been awaited since the org was inserted.
BootstrapOwner ==
  /\ pc = "bootstrap owner"
  /\ owners' = owners \cup {"bootstrap"}
  /\ pc' = "migrate"
  /\ UNCHANGED <<keyFile, jwtFile, dbFile, applied, orgs, dek, memory, world>>

\* Mutant of LoadJwt: a short file is an error, as it is for the master key
LoadJwtOrExit ==
  /\ pc = "jwt"
  /\ \/ jwtFile \in Secrets /\ jwtSecret' = jwtFile /\ pc' = "serving" /\ UNCHANGED jwtFile
     \/ jwtFile = Empty /\ pc' = "down" /\ UNCHANGED <<jwtFile, jwtSecret>>
     \/ jwtFile = None /\ jwtFile' = Empty /\ pc' = "write jwt" /\ UNCHANGED jwtSecret
  /\ UNCHANGED <<keyFile, dbFile, applied, orgs, owners, dek, kek, world>>

\* resolveJwtSecret: a file that is too short is written again.
LoadJwt ==
  /\ pc = "jwt"
  /\ IF jwtFile \in Secrets
     THEN jwtSecret' = jwtFile /\ pc' = "serving" /\ UNCHANGED jwtFile
     ELSE jwtFile' = Empty /\ pc' = "write jwt" /\ UNCHANGED jwtSecret
  /\ UNCHANGED <<keyFile, dbFile, applied, orgs, owners, dek, kek, world>>

WriteJwt ==
  /\ pc = "write jwt"
  /\ \E s \in FreshSecrets : jwtSecret' = s /\ jwtFile' = Written(jwtFile, s)
  /\ pc' = "serving"
  /\ UNCHANGED <<keyFile, dbFile, applied, orgs, owners, dek, kek, world>>

\* The operator's command has opened a database of its own making.
CommandOrg ==
  /\ pc = "command org"
  /\ orgs' = orgs \cup {"bootstrap"} /\ pc' = "command owner"
  /\ UNCHANGED <<keyFile, jwtFile, dbFile, applied, owners, dek, memory, world>>

\* hashPassword has been awaited since; then the command ends.
CommandOwner ==
  /\ pc = "command owner"
  /\ owners' = owners \cup {"bootstrap"} /\ pc' = "down"
  /\ UNCHANGED <<keyFile, jwtFile, dbFile, applied, orgs, dek, memory, world>>

Main ==
  \/ Boot
  \/ LoadKek("bootstrap kek", "bootstrap write kek", "bootstrap migrate")
  \/ WriteKek("bootstrap write kek", "bootstrap migrate")
  \/ Migrate("bootstrap migrate", "bootstrap org")
  \/ BootstrapOrg \/ BootstrapOwner
  \/ Migrate("migrate", "kek")
  \/ LoadKek("kek", "write kek", "jwt")
  \/ WriteKek("write kek", "jwt")
  \/ LoadJwt \/ WriteJwt
  \/ LoadKek("command kek", "command write kek", "command migrate")
  \/ WriteKek("command write kek", "command migrate")
  \/ Migrate("command migrate", "command org")
  \/ CommandOrg \/ CommandOwner

----------------------------------------------------------------------------
(* What happens around it *)

\* The operator runs the bootstrap command with an e-mail and a long enough
\* password; where a database exists, it refuses at once.
RunBootstrap ==
  /\ pc = "down" /\ ~dbFile
  /\ pc' = "command kek"
  /\ kek' = None /\ jwtSecret' = None
  /\ UNCHANGED <<disk, world>>

\* POST /v1/projects: the new DEK is wrapped with the key in memory.
CreateProject(p) ==
  /\ pc = "serving" /\ owners # {}
  /\ dek[p] = None
  /\ dek' = [dek EXCEPT ![p] = kek]
  /\ UNCHANGED <<pc, keyFile, jwtFile, dbFile, applied, orgs, owners, memory, world>>

\* POST /v1/auth/login
SignIn ==
  /\ pc = "serving" /\ owners # {}
  /\ tokens' = tokens \cup {jwtSecret}
  /\ UNCHANGED <<pc, disk, memory, ownerVars, crashes, losses>>

\* POST /v1/auth/register, where it is enabled: org and owner in one transaction
Register ==
  /\ pc = "serving"
  /\ orgs' = orgs \cup {"registered"} /\ owners' = owners \cup {"registered"}
  /\ UNCHANGED <<pc, keyFile, jwtFile, dbFile, applied, dek, memory, world>>

Crash ==
  /\ pc # "down" /\ crashes < MaxCrashes
  /\ pc' = "down"
  /\ crashes' = crashes + 1
  /\ UNCHANGED <<disk, memory, ownerVars, tokens, losses>>

\* The data volume loses master.key.
LoseKey ==
  /\ keyFile \in Keys /\ losses < MaxLosses
  /\ keyFile' = None
  /\ losses' = losses + 1
  /\ UNCHANGED <<pc, jwtFile, dbFile, applied, orgs, owners, dek, memory,
                 ownerVars, tokens, crashes>>

Next ==
  \/ Main
  \/ \E p \in Projects : CreateProject(p)
  \/ RunBootstrap \/ SignIn \/ Register \/ Crash \/ LoseKey

Spec == Init /\ [][Next]_vars

\* The container is restarted, and main or the command runs on.
FairSpec == Spec /\ WF_vars(Main)
----------------------------------------------------------------------------
(* Properties *)

TypeOK ==
  /\ pc \in {"down", "bootstrap kek", "bootstrap write kek", "bootstrap migrate",
             "bootstrap org", "bootstrap owner", "migrate", "kek", "write kek",
             "jwt", "write jwt", "serving", "command kek", "command write kek",
             "command migrate", "command org", "command owner"}
  /\ ownerVars \in {"missing", "set"}
  /\ keyFile \in Keys \cup {None, Empty}
  /\ jwtFile \in Secrets \cup {None, Empty}
  /\ dbFile \in BOOLEAN
  /\ applied \in 0..Migrations
  /\ owners \subseteq orgs /\ orgs \subseteq {"bootstrap", "registered"}
  /\ dek \in [Projects -> Keys \cup {None}]
  /\ kek \in Keys \cup {None}
  /\ jwtSecret \in Secrets \cup {None}
  /\ tokens \subseteq Secrets
  /\ crashes \in 0..MaxCrashes
  /\ losses \in 0..MaxLosses

\* As long as master.key is not lost, a serving process can unwrap the DEK of
\* every project, whichever process created it and wherever that one died.
ProjectsReadable ==
  pc = "serving" /\ losses = 0 => \A p \in Projects : dek[p] \in {None, kek}

\* "persisting to disk keeps every issued session token valid across container
\* restarts" (jwt-secret.ts)
TokensSurvive == pc = "serving" => tokens \subseteq {jwtSecret}

\* The server comes up for good, unless it died while it created master.key.
ComesUp == <>[](pc = "serving" \/ keyFile = Empty)

============================================================================
