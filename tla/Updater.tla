------------------------------ MODULE Updater ------------------------------
(***************************************************************************)
(* The self-updating deployment (deploy/scripts/auto-updater.sh and the    *)
(* systemd units it runs under): a candidate release is prepared and       *)
(* built, the stack is stopped and its volumes are saved, the candidate    *)
(* is started and judged by its health checks, and is then activated or    *)
(* rolled back.  Clients write meanwhile, commands fail, and the updater   *)
(* is killed or the machine loses power at any step.                       *)
(*                                                                         *)
(* A release is a number, and the number of the schema it migrates the     *)
(* data to.  flock lets one operation run at a time.                       *)
(***************************************************************************)
EXTENDS Integers, FiniteSets

CONSTANTS
  Releases,      \* the releases that come out, by number
  First,         \* what is installed at first: a release, or NoRelease
  Broken,        \* releases whose server migrates the data and then fails
  NoRelease,
  KeepReleases,  \* KEYNV_KEEP_RELEASES
  KeepBackups,   \* KEYNV_KEEP_BACKUPS
  MaxRuns,       \* bound on the runs of update
  MaxWrites,     \* bound on what clients write
  MaxFaults      \* bound on failing commands, kills and power cuts

ASSUME ReleaseAssumption ==
  Releases \subseteq Nat \ {0} /\ Broken \subseteq Releases /\ NoRelease \notin Releases
ASSUME FirstAssumption ==
  First \subseteq {NoRelease} \cup (Releases \ Broken) /\ (NoRelease \in First => 1 \in Releases)
ASSUME KeepAssumption == KeepReleases \in Nat /\ KeepReleases >= 2
                           /\ KeepBackups \in Nat /\ KeepBackups >= 1
ASSUME UpdaterBoundAssumption == MaxRuns \in Nat /\ MaxWrites \in Nat /\ MaxFaults \in Nat

VARIABLES
  newest,    \* what resolve_target finds
  names,     \* the state files current-sha, previous-sha and previous-backup
  tree,      \* release -> its worktree: absent, partial or ready
  images,    \* releases whose images are built
  stack,     \* the containers: of which release, and up, stopped or gone
  data,      \* what is on the two volumes
  backups,   \* run -> the backup it has made: of which release, what of which volume
  unit,      \* keynv.service is active
  op,        \* the operation that holds the lock
  count,     \* writes so far
  runs,      \* runs of update so far
  faults,    \* faults so far
  kept,      \* history: writes acknowledged by a release that was in force
  spoilt,    \* history: a run was cut off where the data hang on its end
  stranded   \* history: an operation has ended with the stack down

updaterVars == <<newest, names, tree, images, stack, data, backups, unit, op,
          count, runs, faults, kept, spoilt, stranded>>

installation == <<names, tree, images, backups>>
history == <<kept, spoilt, stranded>>

Volumes == {"server", "web"}

\* The database after its migrations, with what clients have written
Fresh(r) == [schema |-> r, writes |-> {}]
NoData == [schema |-> 0, writes |-> {}]

Idle == [pc |-> "idle", target |-> NoRelease, backup |-> 0]

\* flock: an operation that finds the lock taken dies.
Free == op = Idle

UpdaterInit ==
  /\ \E first \in First :
       /\ newest = IF first = NoRelease THEN 1 ELSE first
       /\ names = [current |-> first, previous |-> NoRelease, backup |-> 0]
       /\ tree = [r \in Releases |-> IF r = first THEN "ready" ELSE "absent"]
       /\ images = {first} \ {NoRelease}
       /\ stack = [of |-> first, state |-> IF first = NoRelease THEN "gone" ELSE "up"]
       /\ data = [v \in Volumes |-> IF first = NoRelease THEN NoData ELSE Fresh(first)]
       /\ unit = (first # NoRelease)
  /\ backups = <<>>
  /\ op = Idle
  /\ count = 0 /\ runs = 0 /\ faults = 0
  /\ kept = {} /\ spoilt = FALSE /\ stranded = FALSE

----------------------------------------------------------------------------
(* docker compose *)

Goto(pc) == op' = [op EXCEPT !.pc = pc]

\* die, and the normal end
Exit == op' = Idle

Fault == faults < MaxFaults /\ faults' = faults + 1

\* The server of release r starts on these volumes: it creates what is not
\* there, and migrates what is.
Started(r) ==
  [v \in Volumes |->
     IF data[v] = NoData THEN Fresh(r)
     ELSE [data[v] EXCEPT !.schema = IF r > @ THEN r ELSE @]]

\* up -d: the web container waits for a healthy server.  A command that fails
\* may have started the server, or nothing.
Up(r) ==
  /\ r \notin Broken /\ r \in images
  /\ stack' = [of |-> r, state |-> "up"] /\ data' = Started(r)
  /\ UNCHANGED faults

UpFails(r) ==
  /\ IF r \in Broken THEN UNCHANGED faults ELSE Fault
  /\ \/ stack' = [of |-> r, state |-> "failing"] /\ data' = Started(r)
     \/ UNCHANGED <<stack, data>>

\* wait_for_stack: both services are healthy before the time is over, or not.
Healthy == stack.state = "up" /\ UNCHANGED faults
Unhealthy == IF stack.state = "up" THEN Fault ELSE UNCHANGED faults

\* discover_volume asks ps, which lists containers that run.
Discovered == stack.state \in {"up", "failing"}

----------------------------------------------------------------------------
(* The world *)

\* A server acknowledges a write.
ClientWrite ==
  /\ stack.state = "up" /\ count < MaxWrites
  /\ count' = count + 1
  /\ data' = [data EXCEPT !["server"].writes = @ \cup {count'}]
  /\ kept' = kept \cup {w \in {count'} : stack.of = names.current}
  /\ UNCHANGED <<newest, installation, stack, unit, op, runs, faults, spoilt, stranded>>

Publish ==
  /\ newest + 1 \in Releases
  /\ newest' = newest + 1
  /\ UNCHANGED <<installation, stack, data, unit, op, count, runs, faults, history>>

Restoring == [server |-> "restore_server", web |-> "restore_web"]

\* The steps at whose end the data are what they should be only if the run
\* itself puts them right: a candidate has them, or they are being restored.
Delicate ==
  op.pc \in {"judge", "down", "restore_server", "restore_web",
             "activate", "name_backup", "name_current"}

\* The operation ends between two steps, or in one that leaves half a worktree
\* or half a volume behind.
CutOff ==
  /\ Fault
  /\ Exit
  /\ tree' = [r \in Releases |->
                IF op.pc = "prepare" /\ r = op.target /\ tree[r] = "absent"
                  THEN "partial" ELSE tree[r]]
  /\ data' \in {data} \cup {[data EXCEPT ![v] = NoData] :
                               v \in {u \in Volumes : op.pc = Restoring[u]}}
  /\ spoilt' = (spoilt \/ (Delicate /\ names.current # NoRelease))
  /\ UNCHANGED <<newest, names, images, stack, backups, count, runs, kept>>

\* The updater is killed alone: nobody starts a stack that it has stopped.
Kill ==
  /\ ~Free
  /\ CutOff
  /\ stranded' = (stranded \/ (unit /\ stack.state # "up"))
  /\ UNCHANGED unit

\* After a power cut docker starts again what it had not been told to stop, and
\* keynv.service is started.
PowerCut ==
  /\ CutOff
  /\ unit' = FALSE /\ stranded' = FALSE

----------------------------------------------------------------------------
(* start and stop: keynv.service *)

\* systemd starts the unit at boot, and again before each update while it is
\* not active.  Without an installed release it fails.
Start ==
  /\ Free /\ ~unit /\ names.current # NoRelease
  /\ tree[names.current] = "ready"
  /\ Goto("start")
  /\ UNCHANGED <<newest, installation, stack, data, unit, count, runs, faults, history>>

StartUp ==
  /\ op.pc = "start"
  /\ \/ Up(names.current) /\ Goto("wait_start")
     \/ UpFails(names.current) /\ Exit
  /\ UNCHANGED <<newest, installation, unit, count, runs, history>>

WaitStart ==
  /\ op.pc = "wait_start"
  /\ (Healthy /\ unit' = TRUE) \/ (Unhealthy /\ UNCHANGED unit)
  /\ Exit
  /\ UNCHANGED <<newest, installation, stack, data, count, runs, history>>

\* systemctl stop.  The timer will start the unit again.
Stop ==
  /\ Free /\ unit /\ runs < MaxRuns
  /\ runs' = runs + 1
  /\ stack' = [of |-> NoRelease, state |-> "gone"]
  /\ unit' = FALSE /\ stranded' = FALSE
  /\ UNCHANGED <<newest, installation, data, op, count, faults, kept, spoilt>>

----------------------------------------------------------------------------
(* update_stack *)

\* The timer, which needs keynv.service, or the installer.
Update ==
  /\ Free /\ runs < MaxRuns
  /\ unit \/ names.current = NoRelease
  /\ newest # names.current
  /\ runs' = runs + 1
  /\ op' = [Idle EXCEPT !.pc = "prepare", !.target = newest]
  /\ UNCHANGED <<newest, installation, stack, data, unit, count, faults, history>>

\* prepare_release: a worktree that was not completed is dirty for ever.
Prepare ==
  /\ op.pc = "prepare"
  /\ \/ tree[op.target] = "partial" /\ Exit /\ UNCHANGED tree
     \/ /\ tree[op.target] # "partial"
        /\ tree' = [tree EXCEPT ![op.target] = "ready"]
        /\ Goto("build")
  /\ UNCHANGED <<newest, names, images, stack, data, backups, unit, count, runs,
                 faults, history>>

Build ==
  /\ op.pc = "build"
  /\ \/ /\ images' = images \cup {op.target}
        /\ Goto(IF names.current = NoRelease THEN "up" ELSE "discover")
        /\ UNCHANGED faults
     \/ Fault /\ Exit /\ UNCHANGED images
  /\ UNCHANGED <<newest, names, tree, stack, data, backups, unit, count, runs, history>>

\* backup_current finds the volumes through the running containers, or dies.
Discover ==
  /\ op.pc = "discover"
  /\ \/ /\ Discovered /\ tree[names.current] = "ready"
        /\ backups' = [b \in DOMAIN backups \cup {runs} |->
                         IF b = runs THEN [of |-> names.current, data |-> <<>>] ELSE backups[b]]
        /\ op' = [op EXCEPT !.pc = "stop", !.backup = runs]
     \/ /\ ~(Discovered /\ tree[names.current] = "ready")
        /\ Exit /\ UNCHANGED backups
  /\ UNCHANGED <<newest, names, tree, images, stack, data, unit, count, runs, faults,
                 history>>

\* Mutant of StopStack: the snapshot is taken from a stack that runs
StopNothing ==
  /\ op.pc = "stop"
  /\ Goto("save_server")
  /\ UNCHANGED <<newest, installation, stack, data, unit, count, runs, faults, history>>

StopStack ==
  /\ op.pc = "stop"
  /\ \/ stack' = [stack EXCEPT !.state = "stopped"] /\ Goto("save_server") /\ UNCHANGED faults
     \/ Fault /\ stack' \in {stack, [stack EXCEPT !.state = "stopped"]} /\ Goto("resume")
  /\ UNCHANGED <<newest, installation, data, unit, count, runs, history>>

\* snapshot_volume, of the server's data and then of the web's
Save(v, here, next) ==
  /\ op.pc = here
  /\ \/ /\ backups' = [backups EXCEPT ![op.backup].data =
                         [u \in DOMAIN @ \cup {v} |-> IF u = v THEN data[v] ELSE @[u]]]
        /\ Goto(next) /\ UNCHANGED faults
     \/ Fault /\ Goto("resume") /\ UNCHANGED backups
  /\ UNCHANGED <<newest, names, tree, images, stack, data, unit, count, runs, history>>

\* Mutant of Resume: die at once
ResumeNothing ==
  /\ op.pc = "resume"
  /\ Exit
  /\ UNCHANGED <<newest, installation, stack, data, unit, count, runs, faults, history>>

\* resume_release || true
Resume ==
  /\ op.pc = "resume"
  /\ \/ Up(names.current) /\ UNCHANGED stranded
     \/ UpFails(names.current) /\ stranded' = TRUE
  /\ Exit
  /\ UNCHANGED <<newest, installation, unit, count, runs, kept, spoilt>>

\* A first installation has nothing to roll back to: down, and die.
Failed ==
  IF names.current = NoRelease THEN "abandon" ELSE "down"

UpCandidate ==
  /\ op.pc = "up"
  /\ \/ Up(op.target) /\ Goto("judge")
     \/ UpFails(op.target) /\ Goto(Failed)
  /\ UNCHANGED <<newest, installation, unit, count, runs, history>>

Judge ==
  /\ op.pc = "judge"
  /\ (Healthy /\ Goto("activate")) \/ (Unhealthy /\ Goto(Failed))
  /\ UNCHANGED <<newest, installation, stack, data, unit, count, runs, history>>

Abandon ==
  /\ op.pc = "abandon"
  /\ stack' = [of |-> NoRelease, state |-> "gone"]
  /\ Exit
  /\ UNCHANGED <<newest, installation, data, unit, count, runs, faults, history>>

----------------------------------------------------------------------------
(* rollback_failed_update: every command is run whether or not the one before *)
(* it succeeded, and the result of down is not looked at.                  *)

Down ==
  /\ op.pc = "down"
  /\ \/ stack' = [of |-> NoRelease, state |-> "gone"] /\ UNCHANGED <<faults, spoilt>>
     \/ Fault /\ spoilt' = TRUE /\ UNCHANGED stack
  /\ Goto("restore_server")
  /\ UNCHANGED <<newest, installation, data, unit, count, runs, kept, stranded>>

Saved(v) == backups[op.backup].data[v]

\* Mutant of Restore: the web's volume is forgotten
RestoreServerOnly(v, here, next) ==
  /\ op.pc = here
  /\ data' = [data EXCEPT ![v] = IF v = "server" THEN Saved(v) ELSE @]
  /\ Goto(next)
  /\ UNCHANGED <<newest, installation, stack, unit, count, runs, faults, history>>

\* restore_volume empties the volume and unpacks the archive.
Restore(v, here, next) ==
  /\ op.pc = here
  /\ \/ data' = [data EXCEPT ![v] = Saved(v)] /\ UNCHANGED <<faults, spoilt>>
     \/ Fault /\ data' = [data EXCEPT ![v] = NoData] /\ spoilt' = TRUE
  /\ Goto(next)
  /\ UNCHANGED <<newest, installation, stack, unit, count, runs, kept, stranded>>

UpAgain ==
  /\ op.pc = "up_again"
  /\ \/ Up(names.current) /\ UNCHANGED stranded
     \/ UpFails(names.current) /\ stranded' = TRUE
  /\ Goto("wait_again")
  /\ UNCHANGED <<newest, installation, unit, count, runs, kept, spoilt>>

\* "candidate failed", or "needs manual recovery": either way it dies.
WaitAgain ==
  /\ op.pc = "wait_again"
  /\ Exit
  /\ UNCHANGED <<newest, installation, stack, data, unit, count, runs, faults, history>>

----------------------------------------------------------------------------
(* activate_release and the pruning *)

NamePrevious ==
  /\ op.pc = "activate"
  /\ names' = [names EXCEPT !.previous = names.current]
  /\ Goto("name_backup")
  /\ UNCHANGED <<newest, tree, images, backups, stack, data, unit, count, runs, faults, history>>

NameBackup ==
  /\ op.pc = "name_backup"
  /\ names' = [names EXCEPT !.backup = op.backup]
  /\ Goto("name_current")
  /\ UNCHANGED <<newest, tree, images, backups, stack, data, unit, count, runs, faults, history>>

\* From here on the candidate is in force, and what it has is to be kept.
NameCurrent ==
  /\ op.pc = "name_current"
  /\ names' = [names EXCEPT !.current = op.target]
  /\ kept' = data["server"].writes
  /\ Goto("prune")
  /\ UNCHANGED <<newest, tree, images, backups, stack, data, unit, count, runs, faults,
                 spoilt, stranded>>

\* The n youngest of a set of numbers
Youngest(S, n) == {r \in S : Cardinality({x \in S : x > r}) < n}

\* Mutant of Named: the previous release and its backup are not spared
NamedCurrent == {names.current}
Named == {names.current, names.previous}

\* prune_releases and prune_backups spare the youngest, and those that are named.
\* Failed runs do not come here.
Prune ==
  /\ op.pc = "prune"
  /\ LET spared == Named \cup Youngest({r \in Releases : tree[r] # "absent"}, KeepReleases)
         saved == {names.backup} \cup Youngest(DOMAIN backups, KeepBackups)
     IN /\ tree' = [r \in Releases |-> IF r \in spared THEN tree[r] ELSE "absent"]
        /\ images' = images \cap spared
        /\ backups' = [b \in DOMAIN backups \cap saved |-> backups[b]]
  /\ Exit
  /\ UNCHANGED <<newest, names, stack, data, unit, count, runs, faults, history>>

----------------------------------------------------------------------------
Operation ==
  \/ StartUp \/ WaitStart
  \/ Prepare \/ Build \/ Discover \/ StopStack
  \/ Save("server", "save_server", "save_web") \/ Save("web", "save_web", "up")
  \/ Resume \/ UpCandidate \/ Judge \/ Abandon
  \/ Down
  \/ Restore("server", "restore_server", "restore_web")
  \/ Restore("web", "restore_web", "up_again")
  \/ UpAgain \/ WaitAgain
  \/ NamePrevious \/ NameBackup \/ NameCurrent \/ Prune

UpdaterNext ==
  \/ ClientWrite \/ Publish \/ Kill \/ PowerCut
  \/ Start \/ Stop \/ Update
  \/ Operation

UpdaterSpec == UpdaterInit /\ [][UpdaterNext]_updaterVars

\* What systemd has started comes to its end, and it starts what it must.
UpdaterFairSpec == UpdaterSpec /\ WF_updaterVars(Operation) /\ WF_updaterVars(Start)
----------------------------------------------------------------------------
(* Properties *)

UpdaterTypeOK ==
  /\ newest \in Releases
  /\ names.current \in {NoRelease} \cup Releases /\ names.previous \in {NoRelease} \cup Releases
  /\ tree \in [Releases -> {"absent", "partial", "ready"}]
  /\ images \subseteq Releases
  /\ stack.state \in {"up", "failing", "stopped", "gone"}
  /\ \A v \in Volumes : data[v].schema \in {0} \cup Releases
                         /\ data[v].writes \subseteq 1..count
  /\ unit \in BOOLEAN /\ op.target \in {NoRelease} \cup Releases
  /\ kept \subseteq 1..count

\* A release that can be run as it is
Installed(r) == tree[r] = "ready" /\ r \in images

\* The volumes vol hold what release r has made of them, and nothing is lost of
\* the writes given.
DataOf(vol, r, writes) ==
  /\ DOMAIN vol = Volumes
  /\ \A v \in Volumes : vol[v].schema = r
  /\ writes \subseteq vol["server"].writes

\* deploy/README.md, "the updater stops writes and snapshots both persistent
\* volumes.  Failed startup or health checks restore the snapshot and restart
\* the previous release": whenever no update runs, and wherever runs have
\* failed or been cut off but for the steps that the data hang on, the release
\* in force has its own data with every write it has acknowledged, and so has
\* the snapshot while a candidate is on trial.
NothingLost ==
  names.current # NoRelease /\ ~spoilt =>
    /\ op.pc \in {"idle", "start", "wait_start"} =>
         /\ DataOf(data, names.current, kept)
         /\ stack.state = "up" => stack.of = names.current
    /\ op.pc \in {"judge", "down", "restore_server", "restore_web"} =>
         backups[op.backup].of = names.current
           /\ DataOf(backups[op.backup].data, names.current, kept)

\* The release in force can be started, and the one before it can be gone back
\* to with the data it had.
WayBack ==
  op.pc = "idle" /\ names.current # NoRelease /\ ~spoilt =>
    /\ Installed(names.current)
    /\ names.previous # NoRelease =>
         /\ Installed(names.previous) /\ names.backup \in DOMAIN backups
         /\ backups[names.backup].of = names.previous
         /\ DataOf(backups[names.backup].data, names.previous, {})

Sound == UpdaterTypeOK /\ NothingLost /\ WayBack

\* An installed stack that is not up comes up again, after failed updates and
\* power cuts at any step: unless the updater was killed alone while the stack
\* was stopped, or the restart of the previous release has failed.
ComesBack == names.current # NoRelease ~> (stack.state = "up" \/ stranded)
=============================================================================
