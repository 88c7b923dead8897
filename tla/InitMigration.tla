--------------------------- MODULE InitMigration ---------------------------
(***************************************************************************)
(* `keynv init` moves the .env files of a project into the vault: it reads *)
(* them, plans a vault key for every entry, makes sure the project and its *)
(* environments exist on the server, stores the secrets, writes for each   *)
(* directory a .keynv.env that refers to them, and at last renames the     *)
(* .env files to backups.  Nothing is journalled: a crash, a refused       *)
(* request or a lost answer leaves what the steps before it have done, and *)
(* the user runs the command again on that.                                *)
(*                                                                         *)
(* mode "auto" is `--yes` (commands/init.ts runAutoScan), mode "ask" the   *)
(* interactive flow (ui/flows/init.ts runInitFlow), mode "file" is         *)
(* `--env-file` (commands/init.ts runNonInteractive).                      *)
(***************************************************************************)
EXTENDS VaultKeys

CONSTANTS
  Contents,     \* what a .env file can say: name |-> value, or Garbled
  Edits,        \* what the user may write into a .env file meanwhile
  Disks,        \* what may lie on the disk at first
  OldBackups,   \* the backups that may be there at first
  Minutes,      \* what the clock may say when a file is renamed
  Garbled,      \* a file parseEnvFile refuses
  Envs,         \* environment names the user may type
  Scripts,      \* the scripts of package.json the user may write
  EnvTools,     \* tools that read the environment
  Cwd,          \* where the user runs keynv
  Missing, NoProject,
  MaxBatch, MaxFaults, MaxUserEdits, MaxRuns

FilesAssumption ==
  /\ Missing \notin Contents
  /\ Garbled \in Contents
  /\ \A c \in Contents \ {Garbled} : DOMAIN c \subseteq ToSet(Words)
  /\ Edits \subseteq Contents
  /\ Disks \subseteq [Tree -> Contents \cup {Missing}]
  /\ \A b \in OldBackups : /\ b = [f \in Tree |-> b[f]]
                       /\ \A f \in Tree : b[f] \in [DOMAIN b[f] -> Contents]
  /\ Minutes \subseteq Nat \ {0}
  /\ Scripts # {}
  /\ \A s \in Scripts : s \in [DOMAIN s -> [tool : STRING, wraps : 0 .. 1]]
ASSUME FilesAssumption

VARIABLES
  disk,         \* file |-> its content, or Missing
  backups,      \* file |-> the name of each of its backups |-> what it holds
  mappings,     \* <<dir, tag>> |-> name |-> entry; tag "" is .keynv.env itself
  pkg,          \* package.json: script |-> [tool, wraps]
  agents,       \* how many keynv blocks AGENTS.md has
  project,      \* the project's environments on the server, or NoProject
  vault,        \* <<env, key>> |-> value
  job,          \* the running command, or Idle; its fields:
                \*   step    where it is            mode  how it was called
                \*   root    the project root       files  the files it takes
                \*   plan    the resolved entries   secret  those that are secrets
                \*   envs    their environments     default  the one of .keynv.env
                \*   seen    the environments and scripts it read at the start
                \*   stored  the <<env, key>> it has an alias for
                \*   todo    what is left of the current step
  faults, userEdits, runs

migrationVars == <<disk, backups, mappings, pkg, agents, project, vault, job, faults, userEdits, runs>>

local  == <<disk, backups, mappings, pkg, agents>>
server == <<project, vault>>
bounds == <<faults, userEdits, runs>>

Idle ==
  [step |-> "idle", mode |-> "none", root |-> <<>>, files |-> {}, plan |-> {},
   envs |-> {}, default |-> "dev", secret |-> {},
   seen |-> [project |-> NoProject, scripts |-> <<>>], stored |-> {}, todo |-> {}]

Composite(r) == <<r.env, r.key>>
Alias(r)     == [kind |-> "alias", at |-> Composite(r), meant |-> r.value]
Literal(r)   == [kind |-> "literal", value |-> r.value]

(* The environment whose aliases go to .keynv.env; the others get a file   *)
(* of their own.                                                           *)
PickDefaultEnv(envs, first) == IF "dev" \in envs THEN "dev" ELSE first

Target(r) == <<r.file.dir, IF r.env = job.default THEN "" ELSE r.env>>

Buckets == {Target(r) : r \in job.plan}

Foremost(some) == Firsts(job.root, job.plan, some)

(* One vault entry per environment and key; the first entry gives the value. *)
Groups == {r \in job.secret :
             r \in Foremost({s \in job.secret : Composite(s) = Composite(r)})}

(* What is said anew replaces what was said before. *)
Onto(new, old) ==
  [x \in DOMAIN new \cup DOMAIN old |-> IF x \in DOMAIN new THEN new[x] ELSE old[x]]

At(step)   == job.step = step
Exit       == job' = Idle
Goto(step, todo) == job' = [job EXCEPT !.step = step, !.todo = todo]

Fault == faults < MaxFaults /\ faults' = faults + 1

-----------------------------------------------------------------------------
(* Reading. *)

EntriesOf(file, env) ==
  {[file |-> file, env |-> env, name |-> n, value |-> disk[file][n]] :
     n \in {n \in DOMAIN disk[file] : ClassifyEntry(n, disk[file][n]) # "skip"}}

(* A file that does not parse is warned about and left out of the sources. *)
SourcesOf(fs, env) == UNION {EntriesOf(f, env[f]) : f \in {f \in fs : disk[f] # Garbled}}

Present == {f \in Tree : disk[f] # Missing}

(* Any of the ways to start is a new process in one of the directories.    *)
Start(newJob) ==
  /\ runs < MaxRuns
  /\ runs' = runs + 1
  /\ job' = newJob
  /\ UNCHANGED <<local, server, faults, userEdits>>

SureSecret(r)  == ClassifyEntry(r.name, r.value) = "secret" /\ ~IsAlias(r.value)
MaybeSecret(r) == /\ ClassifyEntry(r.name, r.value) \in {"secret", "ambiguous"}
                  /\ ~IsAlias(r.value)

(* runAutoScan up to the plan: what is not surely a literal is a secret.   *)
StartAuto ==
  /\ At("idle")
  /\ \E cwd \in Cwd :
       LET root == FindProjectRoot(cwd)
       IN \E fs \in FindEnvFiles(root, Present) :
            LET p    == PlanVaultKeys(root, SourcesOf(fs, [f \in fs |-> SuggestedEnv(f.suffix)]))
                envs == {r.env : r \in p}
            IN \E first \in Firsts(root, p, p) :
                 Start([Idle EXCEPT !.step = "project", !.mode = "auto", !.root = root,
                          !.files = fs, !.plan = p, !.envs = envs,
                          !.default = PickDefaultEnv(envs, first.env),
                          !.secret = {r \in p : MaybeSecret(r)}])

(* One of the projects the server lists, or a new one. *)
ProjectChoices == {project, NoProject}

(* runInitFlow up to the choice of the project: the scripts and the        *)
(* environments are read here, and used after the prompts that follow.     *)
StartAsk ==
  /\ At("idle")
  /\ \E cwd \in Cwd :
       LET root == FindProjectRoot(cwd)
       IN \E fs \in FindEnvFiles(root, Present) :
          \E picked \in SUBSET fs, chosen \in ProjectChoices :
            /\ picked # {}
            /\ Cardinality(fs) = 1 => picked = fs
            /\ Start([Idle EXCEPT !.step = "map", !.mode = "ask", !.root = root,
                        !.files = picked, !.seen = [project |-> chosen, scripts |-> pkg]])

(* A single file goes to the environment its suffix suggests; of several   *)
(* each goes to that one or to another the user names.                     *)
FileEnvMappings(fs) ==
  LET suggested == [f \in fs |-> SuggestedEnv(f.suffix)]
  IN IF Cardinality(fs) = 1 THEN {suggested}
     ELSE {env \in [fs -> Envs \cup {suggested[f] : f \in fs}] :
             \A f \in fs : env[f] \in Envs \cup {suggested[f]}}

(* The files are read and planned.  One may have gone since it was found:  *)
(* it is warned about.                                                     *)
MapFiles ==
  /\ At("map")
  /\ \E env \in FileEnvMappings(job.files), first \in FirstFiles(job.root, job.files) :
       LET there == {f \in job.files : disk[f] # Missing}
           p     == PlanVaultKeys(job.root, SourcesOf(there, env))
           envs  == {env[f] : f \in job.files}
       IN IF p = {} THEN Exit
          ELSE job' = [job EXCEPT !.plan = p, !.step = "select", !.envs = envs,
                         !.default = PickDefaultEnv(envs, env[first])]
  /\ UNCHANGED <<local, server, bounds>>

(* The secrets keynv found are preselected; the user checks any of the     *)
(* keys and confirms, or cancels.                                          *)
SelectSecrets ==
  /\ At("select")
  /\ \/ Exit
     \/ \E selected \in SUBSET {Composite(r) : r \in job.plan} :
          job' = [job EXCEPT !.step = "project",
                    !.secret = {r \in job.plan : Composite(r) \in selected}]
  /\ UNCHANGED <<local, server, bounds>>

-----------------------------------------------------------------------------
(* The project and its environments. *)

BeginUpload == Goto("upload", Groups)

(* A failure to add an environment only warns: the upload will tell.       *)
ReconcileProject ==
  /\ At("project")
  /\ job.mode = "auto"
  /\ project # NoProject
  /\ \E added \in SUBSET (job.envs \ project) :
       /\ project' = project \cup added
       /\ IF job.envs \subseteq project \cup added
          THEN UNCHANGED faults ELSE Fault
  /\ BeginUpload
  /\ UNCHANGED <<local, vault, userEdits, runs>>

(* The lookup of an existing project failed; creating it is a conflict.    *)
LookupFails ==
  /\ At("project")
  /\ job.mode = "auto"
  /\ project # NoProject
  /\ Fault
  /\ Exit
  /\ UNCHANGED <<local, server, userEdits, runs>>

(* The project is created with every environment of the plan.  The request *)
(* may fail, or the answer be lost; a project of that name is a conflict.  *)
CreateProject ==
  /\ At("project")
  /\ IF job.mode = "auto" THEN project = NoProject ELSE job.seen.project = NoProject
  /\ \/ /\ project = NoProject
        /\ project' = job.envs
        /\ \/ BeginUpload /\ UNCHANGED faults
           \/ Exit /\ Fault
     \/ /\ Exit
        /\ IF project = NoProject THEN Fault ELSE UNCHANGED faults
        /\ UNCHANGED project
  /\ UNCHANGED <<local, vault, userEdits, runs>>

(* ensureProjectAndEnvs for a chosen project: missing is worked out from   *)
(* the environments read before the prompts; the first failure ends init.  *)
EnsureEnvs ==
  /\ At("project")
  /\ job.mode = "ask"
  /\ job.seen.project # NoProject
  /\ \E added \in SUBSET (job.envs \ job.seen.project) :
       /\ project' = project \cup added
       /\ IF job.envs \subseteq job.seen.project \cup added
          THEN BeginUpload /\ UNCHANGED faults
          ELSE Exit /\ Fault
  /\ UNCHANGED <<local, vault, userEdits, runs>>

-----------------------------------------------------------------------------
(* The upload.  The server creates only: a key it has is a conflict.       *)

Accepts(gs) ==
  /\ \A g \in gs : g.env \in project /\ Composite(g) \notin DOMAIN vault
  /\ \A g, h \in gs : Composite(g) = Composite(h) => g = h

Put(gs) ==
  vault' = Onto([c \in {Composite(g) : g \in gs} |->
                   (CHOOSE g \in gs : Composite(g) = c).value], vault)

(* One batch, all of it or nothing; what failed ends init, and an answer   *)
(* that is lost is a failure too.                                          *)
Batch ==
  /\ At("upload")
  /\ LET fits == Cardinality(job.todo) <= MaxBatch /\ Accepts(job.todo)
     IN \/ /\ fits
           /\ Put(job.todo)
           /\ \/ /\ job' = [job EXCEPT !.step = "write", !.todo = Buckets,
                              !.stored = {Composite(g) : g \in job.todo}]
                 /\ UNCHANGED faults
              \/ Exit /\ Fault
        \/ /\ Exit
           /\ IF fits THEN Fault ELSE UNCHANGED faults
           /\ UNCHANGED vault
  /\ UNCHANGED <<local, project, userEdits, runs>>

UploadBatch   == job.mode = "auto" /\ Batch
UploadSecrets == job.mode = "file" /\ Batch

(* One request per key; a failed one is counted, and init goes on.         *)
UploadOne ==
  /\ At("upload")
  /\ job.mode = "ask"
  /\ \E g \in Foremost(job.todo) :
       LET left == job.todo \ {g}
       IN \/ /\ Accepts({g})
             /\ Put({g})
             /\ \/ /\ job' = [job EXCEPT !.stored = @ \cup {Composite(g)}, !.todo = left]
                   /\ UNCHANGED faults
                \/ Goto("upload", left) /\ Fault
          \/ /\ Goto("upload", left)
             /\ IF Accepts({g}) THEN Fault ELSE UNCHANGED faults
             /\ UNCHANGED vault
  /\ UNCHANGED <<local, project, userEdits, runs>>

UploadedAll ==
  /\ At("upload")
  /\ job.mode = "ask"
  /\ job.todo = {}
  /\ Goto("write", Buckets)
  /\ UNCHANGED <<local, server, bounds>>

-----------------------------------------------------------------------------
(* The files. *)

(* What composeKeynvEnv adds to the file of a bucket: an entry that is a   *)
(* secret and has an alias is written as the alias, any other as it is.    *)
Composed(target) ==
  LET mine    == {r \in job.plan : Target(r) = target}
      line(r) == IF r \in job.secret /\ Composite(r) \in job.stored
                 THEN Alias(r) ELSE Literal(r)
  IN [n \in {r.name : r \in mine} |-> line(CHOOSE r \in mine : r.name = n)]

Lines(at) == IF at \in DOMAIN mappings THEN mappings[at] ELSE <<>>

Write(at, lines) == mappings' = Onto([x \in {at} |-> lines], mappings)

WriteFailedOn(at) == Goto("write", job.todo \ {at})
WriteFailed(at)   == Exit

(* writeFileSync refuses to open the file, or empties it and is cut off    *)
(* before the text is in, by an error or by the end of the process.        *)
CutOff(at) == UNCHANGED mappings \/ Write(at, <<>>)

(* An existing file keeps its lines; the new ones come after and win.  A   *)
(* write that fails ends init.                                             *)
WriteMapping ==
  /\ At("write")
  /\ job.mode \in {"auto", "ask"}
  /\ \E r \in Foremost({s \in job.plan : Target(s) \in job.todo}) :
       LET at == Target(r)
       IN \/ /\ Write(at, Onto(Composed(at), Lines(at)))
             /\ Goto("write", job.todo \ {at})
             /\ UNCHANGED faults
          \/ WriteFailed(at) /\ Fault /\ CutOff(at)
  /\ UNCHANGED <<disk, backups, pkg, agents, server, userEdits, runs>>

(* AGENTS.md: keynv's block is appended, or replaced where it stands.      *)
WriteAiContext ==
  /\ At("write")
  /\ job.mode \in {"auto", "ask"}
  /\ job.todo = {}
  /\ agents' = IF agents = 0 THEN 1 ELSE agents
  /\ Goto(IF job.mode = "ask" THEN "wrap" ELSE "backup", job.files)
  /\ UNCHANGED <<disk, backups, mappings, pkg, server, bounds>>

(* A script that runs keynv already is left alone; of the others those are *)
(* wrapped whose first command word is a tool that reads the environment.  *)
AnalyzeScript(cmd) ==
  IF cmd.wraps > 0 THEN "skip-already-wrapped"
  ELSE IF cmd.tool \in EnvTools THEN "wrap" ELSE "skip"

(* The scripts read at the start are wrapped and written over the ones     *)
(* that package.json has now.                                              *)
WrapScripts ==
  /\ At("wrap")
  /\ LET scripts == job.seen.scripts
         chosen  == {s \in DOMAIN scripts : AnalyzeScript(scripts[s]) = "wrap"}
     IN pkg' = IF chosen = {} THEN pkg
               ELSE [s \in DOMAIN scripts |->
                       IF s \in chosen THEN [scripts[s] EXCEPT !.wraps = @ + 1]
                       ELSE scripts[s]]
  /\ Goto("backup", job.todo)
  /\ UNCHANGED <<disk, backups, mappings, agents, server, bounds>>

(* A backup is named .env.backup, which is <<0, 1>>; when there is one, by *)
(* the minute, and from the second of a minute on by a count as well.      *)
Plain == <<0, 1>>
Exists(f, name) == name \in DOMAIN backups[f]

StampOnly(f, now) == {<<now, 1>>}
FirstFreePath(f, now) ==
  LET free == {i \in 1 .. Cardinality(DOMAIN backups[f]) + 1 : ~Exists(f, <<now, i>>)}
  IN {<<now, i>> : i \in {i \in free : \A j \in free : i <= j}}

BackupNames(f, now) == IF Exists(f, Plain) THEN FirstFreePath(f, now) ELSE {Plain}

(* renameSync takes the place of whatever has the new name. *)
Rename(f, name) ==
  /\ backups' = [backups EXCEPT ![f] = Onto([x \in {name} |-> disk[f]], @)]
  /\ disk' = [disk EXCEPT ![f] = Missing]

(* Every file of the run is renamed, the unreadable ones too.  A file     *)
(* that cannot be renamed is left.                                         *)
BackupEnvFile ==
  /\ At("backup")
  /\ \E f \in FirstFiles(job.root, job.todo) :
       /\ \/ /\ disk[f] # Missing
             /\ \E now \in Minutes : \E name \in BackupNames(f, now) : Rename(f, name)
             /\ UNCHANGED faults
          \/ /\ IF disk[f] = Missing THEN UNCHANGED faults ELSE Fault
             /\ UNCHANGED <<disk, backups>>
       /\ Goto("backup", job.todo \ {f})
  /\ UNCHANGED <<mappings, pkg, agents, server, userEdits, runs>>

Finish ==
  /\ At("backup")
  /\ job.todo = {}
  /\ Exit
  /\ UNCHANGED <<local, server, bounds>>

-----------------------------------------------------------------------------
(* `keynv init --project P --env-file F`: only what is surely a secret is  *)
(* taken, all of it to dev, and the file stays where it is.                *)
StartFile ==
  /\ At("idle")
  /\ \E f \in Present, cwd \in Cwd :
       /\ project # NoProject
       /\ disk[f] # Garbled
       /\ LET found == {e \in EntriesOf(f, "dev") : ClassifyEntry(e.name, e.value) = "secret"}
              p == {[file |-> f, first |-> f, opened |-> f,
                     env |-> "dev", name |-> e.name, value |-> e.value,
                     key |-> [text |-> ToAliasKey(NoSlug, e.name), n |-> 1]] : e \in found}
          IN /\ p # {}
             /\ Start([Idle EXCEPT !.step = "upload", !.mode = "file", !.root = cwd,
                         !.files = {f}, !.plan = p, !.envs = {"dev"}, !.secret = p,
                         !.todo = p])

(* Only names the file in the working directory does not have are added.   *)
WriteKeynvEnvMappings ==
  /\ At("write")
  /\ job.mode = "file"
  /\ LET at    == <<job.root, "">>
         fresh == [n \in {r.name : r \in job.plan} |->
                     Alias(CHOOSE r \in job.plan : r.name = n)]
     IN \/ Write(at, Onto(Lines(at), fresh)) /\ UNCHANGED faults
        \/ CutOff(at) /\ Fault
  /\ Exit
  /\ UNCHANGED <<disk, backups, pkg, agents, server, userEdits, runs>>

-----------------------------------------------------------------------------
(* What happens around init. *)

(* The user writes a .env file, also while init waits: at a prompt or for  *)
(* the server.                                                             *)
UserWritesEnv ==
  /\ userEdits < MaxUserEdits
  /\ job.step \in {"idle", "map", "select", "upload"}
  /\ \E f \in Tree, c \in Edits :
       /\ disk[f] # c
       /\ disk' = [disk EXCEPT ![f] = c]
  /\ userEdits' = userEdits + 1
  /\ UNCHANGED <<backups, mappings, pkg, agents, server, job, faults, runs>>

UserEditsScripts ==
  /\ userEdits < MaxUserEdits
  /\ job.step \in {"map", "select", "upload"}
  /\ \E s \in Scripts : pkg' = s
  /\ pkg' # pkg
  /\ userEdits' = userEdits + 1
  /\ UNCHANGED <<disk, backups, mappings, agents, server, job, faults, runs>>

Crash ==
  /\ ~At("idle")
  /\ Fault
  /\ Exit
  /\ UNCHANGED <<local, server, userEdits, runs>>

MigrationInit ==
  /\ disk \in Disks
  /\ backups \in OldBackups
  /\ mappings = <<>>
  /\ pkg = CHOOSE s \in Scripts : TRUE
  /\ agents = 0
  /\ project \in {NoProject, {"dev"}}
  /\ vault = <<>>
  /\ job = Idle
  /\ faults = 0 /\ userEdits = 0 /\ runs = 0

MigrationNext ==
  \/ StartAuto \/ StartAsk \/ StartFile
  \/ MapFiles \/ SelectSecrets
  \/ ReconcileProject \/ CreateProject \/ LookupFails \/ EnsureEnvs
  \/ UploadBatch \/ UploadSecrets \/ UploadOne \/ UploadedAll
  \/ WriteMapping \/ WriteAiContext \/ WrapScripts
  \/ BackupEnvFile \/ Finish \/ WriteKeynvEnvMappings
  \/ UserWritesEnv \/ UserEditsScripts \/ Crash

MigrationSpec == MigrationInit /\ [][MigrationNext]_migrationVars

-----------------------------------------------------------------------------
MigrationTypeOK ==
  /\ disk \in [Tree -> Contents \cup {Missing}]
  /\ backups = [f \in Tree |-> backups[f]]
  /\ \A f \in Tree : backups[f] \in [DOMAIN backups[f] -> Contents]
  /\ pkg \in [DOMAIN pkg -> [tool : STRING, wraps : 0 .. 1]]
  /\ agents \in 0 .. 1
  /\ job.step \in {"idle", "map", "select", "project", "upload", "write", "wrap", "backup"}
  /\ job.mode \in {"none", "auto", "ask", "file"}
  /\ job.files \subseteq Tree
  /\ job.secret \subseteq job.plan
  /\ job.stored \subseteq DOMAIN vault

(* No two directories of a project have one slug, also when the key is     *)
(* cut.  The code does not see to it: apps/api and apps-api, a directory   *)
(* named root and the root, or Api and api have one.                       *)
SlugsApartBelow(root) ==
  \A f, g \in {f \in Tree : Reached(root, f)}, n \in ToSet(Words) : f.dir # g.dir =>
    LET a == RelativeDir(root, f.dir)
        b == RelativeDir(root, g.dir)
    IN /\ ToAliasKey(FullSlug(a), n) # ToAliasKey(FullSlug(b), n)
       /\ InitialSlug(a) # InitialSlug(b) =>
            ToAliasKey(InitialSlug(a), n) # ToAliasKey(InitialSlug(b), n)

SlugsApart == \A cwd \in Cwd : SlugsApartBelow(FindProjectRoot(cwd))

(* An alias in a .keynv.env names a key the vault has, and the value there *)
(* is the one the .env said: whatever was refused, lost or cut short, and  *)
(* whichever directories share the name, as long as SlugsApart: else two   *)
(* of them may share a key (runAutoScan, runInitFlow, planVaultKeys).      *)
AliasesMeanTheirValue ==
  \A at \in DOMAIN mappings : \A n \in DOMAIN mappings[at] :
    LET e == mappings[at][n]
    IN e.kind = "alias" => e.at \in DOMAIN vault /\ vault[e.at] = e.meant

(* What is on disk and in the vault fits together.                         *)
MappingsConsistent == MigrationTypeOK /\ AliasesMeanTheirValue

(* Without a human to ask, nothing that may be a secret is written to a    *)
(* file that is committed (the fail-safe of runAutoScan).                  *)
FailSafe ==
  [][\A at \in DOMAIN mappings' : \A n \in DOMAIN mappings'[at] :
       LET e == mappings'[at][n]
           new == at \notin DOMAIN mappings \/ n \notin DOMAIN mappings[at]
                  \/ mappings[at][n] # e
       IN job.mode \in {"auto", "file"} /\ new /\ e.kind = "literal"
            => \/ IsAlias(e.value)
               \/ ClassifyEntry(n, e.value) = "literal"]_migrationVars

(* init never loses what a .env file said: it only moves it to a backup of *)
(* a name that no backup has, and no backup is overwritten, also by a      *)
(* second run in the same minute (backupEnvFile, firstFreePath).           *)
OriginalsKept ==
  [][\A f \in Tree :
       /\ \A name \in DOMAIN backups[f] :
            name \in DOMAIN backups'[f] /\ backups'[f][name] = backups[f][name]
       /\ \/ disk'[f] = disk[f]
          \/ userEdits' # userEdits
          \/ \E name \in DOMAIN backups'[f] \ DOMAIN backups[f] :
               backups'[f][name] = disk[f]]_migrationVars

(* A .env file is taken away only when its directory has a mapping for     *)
(* every entry that was read from it: the application finds its variables  *)
(* in the one or in the other.  And a mapping, whose .env file may have    *)
(* gone in an earlier run, loses a variable only to a write that is cut    *)
(* off, which ends init.                                                   *)
MappedBeforeRenamed ==
  [][/\ \A f \in Tree : backups'[f] # backups[f] =>
          \A r \in job.plan : r.file.dir = f.dir =>
            Target(r) \in DOMAIN mappings /\ r.name \in DOMAIN mappings[Target(r)]
     /\ \A at \in DOMAIN mappings :
          \/ at \in DOMAIN mappings' /\ DOMAIN mappings[at] \subseteq DOMAIN mappings'[at]
          \/ faults' # faults /\ job' = Idle]_migrationVars
=============================================================================
