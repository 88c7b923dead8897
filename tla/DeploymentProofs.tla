------------------------- MODULE DeploymentProofs -------------------------
(***************************************************************************)
(* Proofs about what keeps an installation's data readable.                *)
(*                                                                         *)
(* Startup: for any number of crashes and migrations, a serving process    *)
(* holds the key that wraps every project and the secret that signed every *)
(* token.  The inductive invariant (IInv) says what the files hold at each *)
(* point of main; it is what the next process relies on.                   *)
(*                                                                         *)
(* Updater: whatever fails or is cut off, the release in force finds its   *)
(* own data.  The inductive invariant (UpdaterInv) says, for each place an *)
(* update can be at, which data the volumes hold, what the snapshot of the *)
(* run holds, and which release a reader of the state files would go to.   *)
(***************************************************************************)
EXTENDS Startup, Updater, TLAPS

-----------------------------------------------------------------------------
(* Startup *)

\* Once a project exists its key is in the file, unless the file was lost.
KeyOnDisk ==
  losses = 0 =>
    /\ \A p \in Projects : dek[p] \in {None, keyFile}
    /\ pc \in {"jwt", "write jwt", "serving"} => kek = keyFile /\ keyFile \in Keys
    /\ pc \in {"bootstrap write kek", "write kek", "command write kek"}
         => keyFile = Empty
    /\ keyFile \in {None, Empty} => \A p \in Projects : dek[p] = None

\* Once a token exists the secret that signed it is in the file.
SecretOnDisk ==
  /\ tokens \subseteq {jwtFile}
  /\ jwtFile \in {None, Empty} => tokens = {}
  /\ pc = "write jwt" => jwtFile = Empty
  /\ pc = "serving" => jwtSecret = jwtFile /\ jwtFile \in Secrets

\* The owner's org is there before the owner.
OrgFirst == pc \in {"bootstrap owner", "command owner"} => "bootstrap" \in orgs

IInv == TypeOK /\ OrgFirst /\ KeyOnDisk /\ SecretOnDisk

LEMMA InitIInv == Init => IInv
<1> SUFFICES ASSUME Init
             PROVE  IInv
  OBVIOUS
<1>1. TypeOK
  <2>1. 0 \in 0..Migrations /\ 0 \in 0..MaxCrashes /\ 0 \in 0..MaxLosses
    BY BoundAssumption
  <2>2. dbFile \in BOOLEAN
    BY DEF Init
  <2>3. dek \in [Projects -> Keys \cup {None}]
    BY DEF Init
  <2> QED
    BY <2>1, <2>2, <2>3, Zenon DEF Init, TypeOK
<1>2. OrgFirst /\ KeyOnDisk /\ SecretOnDisk
  BY DEF Init, OrgFirst, KeyOnDisk, SecretOnDisk
<1> QED
  BY <1>1, <1>2 DEF IInv

\* loadOrCreateKek called from any place
LEMMA LoadKekIInv ==
  ASSUME IInv, NEW at, NEW write, NEW next, LoadKek(at, write, next),
         \/ /\ at = "bootstrap kek" /\ write = "bootstrap write kek"
            /\ next = "bootstrap migrate"
         \/ at = "kek" /\ write = "write kek" /\ next = "jwt"
         \/ /\ at = "command kek" /\ write = "command write kek"
            /\ next = "command migrate"
  PROVE  IInv'
<1>0. TypeOK /\ OrgFirst /\ KeyOnDisk /\ SecretOnDisk
  BY DEF IInv
<1> USE NoneAssumption DEF memory, world
<1>1. TypeOK'
  BY <1>0 DEF LoadKek, TypeOK
<1>2. OrgFirst'
  BY <1>0 DEF LoadKek, OrgFirst
<1>3. KeyOnDisk'
  BY <1>0 DEF LoadKek, KeyOnDisk, TypeOK
<1>4. SecretOnDisk'
  BY <1>0 DEF LoadKek, SecretOnDisk, TypeOK
<1> QED
  BY <1>1, <1>2, <1>3, <1>4 DEF IInv

\* the key it generates
LEMMA WriteKekIInv ==
  ASSUME IInv, NEW at, NEW next, WriteKek(at, next),
         \/ at = "bootstrap write kek" /\ next = "bootstrap migrate"
         \/ at = "write kek" /\ next = "jwt"
         \/ at = "command write kek" /\ next = "command migrate"
  PROVE  IInv'
<1>0. TypeOK /\ OrgFirst /\ KeyOnDisk /\ SecretOnDisk
  BY DEF IInv
<1> USE NoneAssumption DEF memory, world
<1>1. TypeOK'
  BY <1>0 DEF WriteKek, Written, FreshKeys, TypeOK
<1>2. OrgFirst'
  BY <1>0 DEF WriteKek, Written, FreshKeys, OrgFirst
<1>3. KeyOnDisk'
  BY <1>0 DEF WriteKek, Written, FreshKeys, KeyOnDisk, TypeOK
<1>4. SecretOnDisk'
  BY <1>0 DEF WriteKek, Written, FreshKeys, SecretOnDisk, TypeOK
<1> QED
  BY <1>1, <1>2, <1>3, <1>4 DEF IInv

\* applyMigrations
LEMMA MigrateBound ==
  ASSUME NEW at, NEW next, Migrate(at, next), applied \in 0..Migrations
  PROVE  applied' \in 0..Migrations
BY BoundAssumption DEF Migrate

LEMMA MigrateIInv ==
  ASSUME IInv, NEW at, NEW next, Migrate(at, next),
         \/ at = "bootstrap migrate" /\ next = "bootstrap org"
         \/ at = "migrate" /\ next = "kek"
         \/ at = "command migrate" /\ next = "command org"
  PROVE  IInv'
<1>0. TypeOK /\ OrgFirst /\ KeyOnDisk /\ SecretOnDisk
  BY DEF IInv
<1> USE DEF memory, world
<1>1. TypeOK'
  <2>1. applied \in 0..Migrations
    BY <1>0 DEF TypeOK
  <2>2. applied' \in 0..Migrations
    BY <2>1, MigrateBound
  <2>3. dbFile' \in BOOLEAN
    BY <1>0 DEF Migrate, TypeOK
  <2>4. /\ pc' \in {"bootstrap migrate", "bootstrap org", "migrate", "kek",
                  "command migrate", "command org"}
        /\ UNCHANGED <<keyFile, jwtFile, orgs, owners, dek, kek, jwtSecret,
                       ownerVars, tokens, crashes, losses>>
    BY DEF Migrate
  <2> QED
    BY <1>0, <2>2, <2>3, <2>4 DEF TypeOK
<1>2. OrgFirst'
  BY <1>0 DEF Migrate, OrgFirst
<1>3. KeyOnDisk'
  BY <1>0 DEF Migrate, KeyOnDisk, TypeOK
<1>4. SecretOnDisk'
  BY <1>0 DEF Migrate, SecretOnDisk, TypeOK
<1> QED
  BY <1>1, <1>2, <1>3, <1>4 DEF IInv

LEMMA MainIInv == IInv /\ Main => IInv'
<1> SUFFICES ASSUME IInv, Main
             PROVE  IInv'
  OBVIOUS
<1>0. TypeOK /\ OrgFirst /\ KeyOnDisk /\ SecretOnDisk
  BY DEF IInv
<1> USE NoneAssumption DEF disk, memory, world
<1>1. CASE Boot
  <2>1. TypeOK'
    BY <1>1, <1>0 DEF Boot, TypeOK
  <2>2. OrgFirst'
    BY <1>1, <1>0 DEF Boot, OrgFirst
  <2>3. KeyOnDisk'
    BY <1>1, <1>0 DEF Boot, KeyOnDisk, TypeOK
  <2>4. SecretOnDisk'
    BY <1>1, <1>0 DEF Boot, SecretOnDisk, TypeOK
  <2> QED
    BY <2>1, <2>2, <2>3, <2>4 DEF IInv
<1>2. CASE BootstrapOrg
  <2>1. TypeOK'
    BY <1>2, <1>0 DEF BootstrapOrg, OwnerWanted, TypeOK
  <2>2. OrgFirst'
    BY <1>2, <1>0 DEF BootstrapOrg, OwnerWanted, OrgFirst
  <2>3. KeyOnDisk'
    BY <1>2, <1>0 DEF BootstrapOrg, OwnerWanted, KeyOnDisk, TypeOK
  <2>4. SecretOnDisk'
    BY <1>2, <1>0 DEF BootstrapOrg, OwnerWanted, SecretOnDisk, TypeOK
  <2> QED
    BY <2>1, <2>2, <2>3, <2>4 DEF IInv
<1>3. CASE BootstrapOwner
  <2>1. TypeOK'
    BY <1>3, <1>0 DEF BootstrapOwner, OrgFirst, TypeOK
  <2>2. OrgFirst'
    BY <1>3, <1>0 DEF BootstrapOwner, OrgFirst
  <2>3. KeyOnDisk'
    BY <1>3, <1>0 DEF BootstrapOwner, KeyOnDisk, TypeOK
  <2>4. SecretOnDisk'
    BY <1>3, <1>0 DEF BootstrapOwner, SecretOnDisk, TypeOK
  <2> QED
    BY <2>1, <2>2, <2>3, <2>4 DEF IInv
<1>4. CASE LoadJwt
  <2>1. TypeOK'
    BY <1>4, <1>0 DEF LoadJwt, TypeOK
  <2>2. OrgFirst'
    BY <1>4, <1>0 DEF LoadJwt, OrgFirst
  <2>3. KeyOnDisk'
    BY <1>4, <1>0 DEF LoadJwt, KeyOnDisk, TypeOK
  <2>4. SecretOnDisk'
    BY <1>4, <1>0 DEF LoadJwt, SecretOnDisk, TypeOK
  <2> QED
    BY <2>1, <2>2, <2>3, <2>4 DEF IInv
<1>5. CASE WriteJwt
  <2>1. TypeOK'
    BY <1>5, <1>0 DEF WriteJwt, Written, FreshSecrets, TypeOK
  <2>2. OrgFirst'
    BY <1>5, <1>0 DEF WriteJwt, Written, FreshSecrets, OrgFirst
  <2>3. KeyOnDisk'
    BY <1>5, <1>0 DEF WriteJwt, Written, FreshSecrets, KeyOnDisk, TypeOK
  <2>4. SecretOnDisk'
    BY <1>5, <1>0 DEF WriteJwt, Written, FreshSecrets, SecretOnDisk, TypeOK
  <2> QED
    BY <2>1, <2>2, <2>3, <2>4 DEF IInv
<1>6. CASE CommandOrg
  <2>1. TypeOK'
    BY <1>6, <1>0 DEF CommandOrg, OrgFirst, TypeOK
  <2>2. OrgFirst'
    BY <1>6, <1>0 DEF CommandOrg, OrgFirst
  <2>3. KeyOnDisk'
    BY <1>6, <1>0 DEF CommandOrg, KeyOnDisk, TypeOK
  <2>4. SecretOnDisk'
    BY <1>6, <1>0 DEF CommandOrg, SecretOnDisk, TypeOK
  <2> QED
    BY <2>1, <2>2, <2>3, <2>4 DEF IInv
<1>7. CASE CommandOwner
  <2>1. TypeOK'
    BY <1>7, <1>0 DEF CommandOwner, OrgFirst, TypeOK
  <2>2. OrgFirst'
    BY <1>7, <1>0 DEF CommandOwner, OrgFirst
  <2>3. KeyOnDisk'
    BY <1>7, <1>0 DEF CommandOwner, KeyOnDisk, TypeOK
  <2>4. SecretOnDisk'
    BY <1>7, <1>0 DEF CommandOwner, SecretOnDisk, TypeOK
  <2> QED
    BY <2>1, <2>2, <2>3, <2>4 DEF IInv
<1> QED
  BY <1>1, <1>2, <1>3, <1>4, <1>5, <1>6, <1>7, LoadKekIInv, WriteKekIInv, MigrateIInv DEF Main

LEMMA NextIInv == IInv /\ [Next]_vars => IInv'
<1> SUFFICES ASSUME IInv, [Next]_vars
             PROVE  IInv'
  OBVIOUS
<1>0. TypeOK /\ OrgFirst /\ KeyOnDisk /\ SecretOnDisk
  BY DEF IInv
<1> USE NoneAssumption DEF disk, memory, world
<1>1. ASSUME NEW p \in Projects, CreateProject(p)
      PROVE  IInv'
  <2>1. TypeOK'
    BY <1>1, <1>0 DEF CreateProject, TypeOK
  <2>2. OrgFirst'
    BY <1>1, <1>0 DEF CreateProject, OrgFirst
  <2>3. KeyOnDisk'
    BY <1>1, <1>0 DEF CreateProject, KeyOnDisk, TypeOK
  <2>4. SecretOnDisk'
    BY <1>1, <1>0 DEF CreateProject, SecretOnDisk, TypeOK
  <2> QED
    BY <2>1, <2>2, <2>3, <2>4 DEF IInv
<1>2. CASE SignIn
  <2>1. TypeOK'
    BY <1>2, <1>0 DEF SignIn, TypeOK, SecretOnDisk
  <2>2. OrgFirst'
    BY <1>2, <1>0 DEF SignIn, OrgFirst
  <2>3. KeyOnDisk'
    BY <1>2, <1>0 DEF SignIn, KeyOnDisk, TypeOK
  <2>4. SecretOnDisk'
    BY <1>2, <1>0 DEF SignIn, SecretOnDisk, TypeOK
  <2> QED
    BY <2>1, <2>2, <2>3, <2>4 DEF IInv
<1>3. CASE Register
  <2>1. TypeOK'
    BY <1>3, <1>0 DEF Register, TypeOK
  <2>2. OrgFirst'
    BY <1>3, <1>0 DEF Register, OrgFirst
  <2>3. KeyOnDisk'
    BY <1>3, <1>0 DEF Register, KeyOnDisk, TypeOK
  <2>4. SecretOnDisk'
    BY <1>3, <1>0 DEF Register, SecretOnDisk, TypeOK
  <2> QED
    BY <2>1, <2>2, <2>3, <2>4 DEF IInv
<1>4. CASE Crash
  <2>1. TypeOK'
    <3>1. crashes \in 0..MaxCrashes
      BY <1>0 DEF TypeOK
    <3>2. crashes' \in 0..MaxCrashes
      BY <1>4, <3>1, BoundAssumption DEF Crash
    <3> QED
      BY <1>4, <1>0, <3>2 DEF Crash, TypeOK
  <2>2. OrgFirst'
    BY <1>4, <1>0 DEF Crash, OrgFirst
  <2>3. KeyOnDisk'
    BY <1>4, <1>0 DEF Crash, KeyOnDisk, TypeOK
  <2>4. SecretOnDisk'
    BY <1>4, <1>0 DEF Crash, SecretOnDisk, TypeOK
  <2> QED
    BY <2>1, <2>2, <2>3, <2>4 DEF IInv
<1>5. CASE LoseKey
  <2>1. TypeOK'
    <3>1. losses \in 0..MaxLosses
      BY <1>0 DEF TypeOK
    <3>2. losses' \in 0..MaxLosses
      BY <1>5, <3>1, BoundAssumption DEF LoseKey
    <3> QED
      BY <1>5, <1>0, <3>2 DEF LoseKey, TypeOK
  <2>2. OrgFirst'
    BY <1>5, <1>0 DEF LoseKey, OrgFirst
  <2>3. KeyOnDisk'
    <3>1. losses \in 0..MaxLosses
      BY <1>0 DEF TypeOK
    <3>2. losses' # 0
      BY <1>5, <3>1, BoundAssumption DEF LoseKey
    <3> QED
      BY <3>2 DEF KeyOnDisk
  <2>4. SecretOnDisk'
    BY <1>5, <1>0 DEF LoseKey, SecretOnDisk, TypeOK
  <2> QED
    BY <2>1, <2>2, <2>3, <2>4 DEF IInv
<1>6. CASE UNCHANGED vars
  <2>1. TypeOK'
    BY <1>6, <1>0 DEF vars, TypeOK
  <2>2. OrgFirst'
    BY <1>6, <1>0 DEF vars, OrgFirst
  <2>3. KeyOnDisk'
    BY <1>6, <1>0 DEF vars, KeyOnDisk, TypeOK
  <2>4. SecretOnDisk'
    BY <1>6, <1>0 DEF vars, SecretOnDisk, TypeOK
  <2> QED
    BY <2>1, <2>2, <2>3, <2>4 DEF IInv
<1>7. CASE RunBootstrap
  <2>1. TypeOK'
    BY <1>7, <1>0 DEF RunBootstrap, OrgFirst, TypeOK
  <2>2. OrgFirst'
    BY <1>7, <1>0 DEF RunBootstrap, OrgFirst
  <2>3. KeyOnDisk'
    BY <1>7, <1>0 DEF RunBootstrap, KeyOnDisk, TypeOK
  <2>4. SecretOnDisk'
    BY <1>7, <1>0 DEF RunBootstrap, SecretOnDisk, TypeOK
  <2> QED
    BY <2>1, <2>2, <2>3, <2>4 DEF IInv
<1> QED
  BY <1>1, <1>2, <1>3, <1>4, <1>5, <1>6, <1>7, MainIInv DEF Next

LEMMA Invariance == Spec => []IInv
BY InitIInv, NextIInv, PTL DEF Spec

\* Wherever the processes before it died, a serving process can unwrap the DEK
\* of every project (loadOrCreateKek, ProjectsReadable), as long as master.key
\* is not lost.
THEOREM KeyIsKept == Spec => []ProjectsReadable
<1>1. IInv => ProjectsReadable
  BY DEF IInv, KeyOnDisk, ProjectsReadable
<1> QED
  BY <1>1, Invariance, PTL

\* Every access token that a client holds was signed with the secret of the
\* serving process (resolveJwtSecret, TokensSurvive).
THEOREM SecretIsKept == Spec => []TokensSurvive
<1>1. IInv => TokensSurvive
  BY DEF IInv, SecretOnDisk, TokensSurvive
<1> QED
  BY <1>1, Invariance, PTL

-----------------------------------------------------------------------------
(* Updater: the inductive invariant *)

\* What a volume may hold
VolumeData == [schema : {0} \cup Releases, writes : SUBSET (1..count)]

\* The commands of an update, up to the one that names the candidate current
Beginning == {"prepare", "build", "discover"}
Saving == {"stop", "save_server", "save_web"}
Trying == {"judge", "activate", "name_backup", "name_current"}
GoingBack == {"down", "restore_server", "restore_web"}
Recovered == {"up_again", "wait_again"}
Candidate == Beginning \cup Saving \cup Trying \cup GoingBack \cup Recovered \cup {"resume", "up", "abandon"}
Steps == Candidate \cup {"idle", "start", "wait_start", "prune"}

UpdaterTypes ==
  /\ newest \in Releases
  /\ names \in [current : {NoRelease} \cup Releases, previous : {NoRelease} \cup Releases,
                backup : Nat]
  /\ tree \in [Releases -> {"absent", "partial", "ready"}]
  /\ images \subseteq Releases
  /\ stack \in [of : {NoRelease} \cup Releases, state : {"up", "failing", "stopped", "gone"}]
  /\ data \in [Volumes -> VolumeData]
  /\ unit \in BOOLEAN
  /\ op \in [pc : Steps, target : {NoRelease} \cup Releases, backup : Nat]
  /\ count \in Nat /\ runs \in Nat /\ kept \subseteq 1..count

\* The backups made, the latest of them by the present run
BackupsOK ==
  /\ DOMAIN backups \subseteq 0..runs
  /\ \A b \in DOMAIN backups :
       /\ DOMAIN backups[b].data \subseteq Volumes
       /\ \A v \in DOMAIN backups[b].data : backups[b].data[v] \in VolumeData
       /\ backups[b] = [of |-> backups[b].of, data |-> backups[b].data]
  /\ op.pc \in Beginning => runs \notin DOMAIN backups

\* What is installed, and what is to be, in the order of the releases
InOrder ==
  /\ names.current = NoRelease =>
       /\ names.previous = NoRelease
       /\ \A v \in Volumes : data[v].schema <= newest
       /\ op.pc \in Candidate => \A v \in Volumes : data[v].schema <= op.target
       /\ op.pc \notin {"start", "wait_start", "discover", "resume"} \cup Saving
                         \cup GoingBack \cup Recovered
  /\ names.current # NoRelease => names.current <= newest
  /\ op.pc \in Candidate =>
       /\ op.target \in Releases /\ op.target <= newest
       /\ names.current # NoRelease => names.current < op.target

\* The snapshot of the present run
Snapshot == backups[op.backup]

SnapshotOK ==
  /\ names.current # NoRelease /\ op.pc \in Saving \cup {"up"} \cup Trying \cup GoingBack =>
       /\ op.backup \in DOMAIN backups
       /\ Snapshot.of = names.current
       /\ op.pc \in {"stop", "save_server"} => DOMAIN Snapshot.data = {}
       /\ op.pc = "save_web" => DOMAIN Snapshot.data = {"server"}
       /\ op.pc \notin Saving => DOMAIN Snapshot.data = Volumes
  /\ names.current # NoRelease /\ ~spoilt =>
       /\ op.pc = "save_web" => Snapshot.data["server"] = data["server"]
       /\ op.pc = "up" => \A v \in Volumes : Snapshot.data[v] = data[v]
       /\ op.pc \in Trying \cup GoingBack => DataOf(Snapshot.data, names.current, kept)
       /\ op.pc = "restore_web" => data["server"] = Snapshot.data["server"]

\* The release in force has its data, unless a candidate is on trial.
InForce ==
  names.current # NoRelease /\ ~spoilt =>
    /\ op.pc \notin Trying \cup GoingBack => DataOf(data, names.current, kept)
    /\ op.pc \notin Trying \cup {"down"} /\ stack.state = "up" => stack.of = names.current
    /\ op.pc \in {"save_server", "save_web", "up", "restore_server", "restore_web", "up_again"}
         => stack.state # "up"

\* The candidate runs, on data it has migrated.
OnTrial ==
  /\ op.pc \in Trying =>
       /\ stack = [of |-> op.target, state |-> "up"]
       /\ names.current = NoRelease \/ ~spoilt => \A v \in Volumes : data[v].schema = op.target
  /\ op.pc = "down" /\ ~spoilt /\ stack.state = "up" => stack.of = op.target

\* The candidate can be started.
TargetInstalled ==
  /\ op.pc \in {"build"} => tree[op.target] = "ready"
  /\ op.pc \in {"discover", "up"} \cup Saving \cup Trying => Installed(op.target)

PreviousKept ==
  names.previous # NoRelease =>
    /\ Installed(names.previous) /\ names.backup \in DOMAIN backups
    /\ backups[names.backup].of = names.previous
    /\ DataOf(backups[names.backup].data, names.previous, {})
    /\ op.pc \in Saving => names.backup # op.backup

\* There is a way back, wherever the state files name one.
WayBackKept ==
  /\ op.pc \in {"name_backup", "name_current"} => names.previous = names.current
  /\ op.pc = "name_current" => names.backup = op.backup
  /\ names.current # NoRelease /\ ~spoilt =>
       /\ Installed(names.current)
       /\ op.pc \notin {"name_backup", "name_current"} => PreviousKept

UpdaterInv ==
  /\ UpdaterTypes /\ BackupsOK /\ InOrder /\ SnapshotOK /\ InForce /\ OnTrial
  /\ TargetInstalled /\ WayBackKept

-----------------------------------------------------------------------------
(* Every step keeps the invariant. *)

USE ReleaseAssumption
USE DEF installation, history, Idle, Beginning, Saving, Trying, GoingBack, Recovered,
        Candidate, Steps

LEMMA UpdaterParts ==
  UpdaterInv <=> /\ UpdaterTypes /\ BackupsOK /\ InOrder /\ SnapshotOK /\ InForce
                 /\ OnTrial /\ TargetInstalled /\ WayBackKept
BY DEF UpdaterInv

LEMMA ClientWriteInv ==
  ASSUME UpdaterInv, ClientWrite
  PROVE  UpdaterInv'
<1>0. /\ UpdaterTypes /\ BackupsOK /\ InOrder /\ SnapshotOK /\ InForce
      /\ OnTrial /\ TargetInstalled /\ WayBackKept
  BY DEF UpdaterInv
<1>1. UpdaterTypes'
BY <1>0 DEF UpdaterTypes, VolumeData, BackupsOK, InOrder, SnapshotOK, InForce, OnTrial,
    TargetInstalled, WayBackKept, Volumes, Snapshot, DataOf, Installed, PreviousKept,
    ClientWrite
<1>2. BackupsOK'
BY <1>0 DEF UpdaterTypes, BackupsOK, VolumeData, Volumes, ClientWrite
<1>3. InOrder'
BY <1>0 DEF UpdaterTypes, InOrder, ClientWrite
<1>4. SnapshotOK'
BY <1>0 DEF UpdaterTypes, SnapshotOK, Snapshot, DataOf, InForce, OnTrial, InOrder,
    Volumes, ClientWrite
<1>5. InForce'
BY <1>0 DEF UpdaterTypes, InForce, DataOf, SnapshotOK, Snapshot, Volumes, ClientWrite
<1>6. OnTrial'
BY <1>0 DEF UpdaterTypes, OnTrial, ClientWrite
<1>7. TargetInstalled'
BY <1>0 DEF UpdaterTypes, TargetInstalled, Installed, ClientWrite
<1>8. WayBackKept'
BY <1>0 DEF UpdaterTypes, WayBackKept, PreviousKept, Installed, DataOf, ClientWrite
<1> QED
  BY <1>1, <1>2, <1>3, <1>4, <1>5, <1>6, <1>7, <1>8 DEF UpdaterInv

LEMMA PublishInv ==
  ASSUME UpdaterInv, Publish
  PROVE  UpdaterInv'
<1>0. /\ UpdaterTypes /\ BackupsOK /\ InOrder /\ SnapshotOK /\ InForce
      /\ OnTrial /\ TargetInstalled /\ WayBackKept
  BY DEF UpdaterInv
<1>1. UpdaterTypes'
BY <1>0 DEF UpdaterTypes, VolumeData, Publish
<1>2. BackupsOK'
BY <1>0 DEF UpdaterTypes, BackupsOK, VolumeData, Volumes, Publish
<1>3. InOrder'
  <2>1. newest \in Nat /\ newest' = newest + 1 /\ names' = names /\ op' = op /\ data' = data
    BY <1>0 DEF UpdaterTypes, Publish
  <2>2. ASSUME NEW v \in Volumes
        PROVE  data[v].schema \in Nat
    <3>1. data[v] \in VolumeData
      BY <1>0 DEF UpdaterTypes
    <3>2. data[v].schema \in {0} \cup Releases
      BY <3>1 DEF VolumeData
    <3>3. \A r \in {0} \cup Releases : r \in Nat
      OBVIOUS
    <3> QED
      BY <3>2, <3>3, Zenon
  <2>3. names.current # NoRelease => names.current \in Nat
    BY <1>0 DEF UpdaterTypes
  <2>4. op.pc \in Candidate => op.target \in Nat
    BY <1>0 DEF InOrder
  <2> QED
    BY <1>0, <2>1, <2>2, <2>3, <2>4 DEF InOrder
<1>4. SnapshotOK'
BY <1>0 DEF UpdaterTypes, SnapshotOK, Snapshot, DataOf, Publish
<1>5. InForce'
BY <1>0 DEF UpdaterTypes, InForce, DataOf, Publish
<1>6. OnTrial'
BY <1>0 DEF UpdaterTypes, OnTrial, Publish
<1>7. TargetInstalled'
BY <1>0 DEF UpdaterTypes, TargetInstalled, Installed, Publish
<1>8. WayBackKept'
BY <1>0 DEF UpdaterTypes, WayBackKept, PreviousKept, Installed, DataOf, Publish
<1> QED
  BY <1>1, <1>2, <1>3, <1>4, <1>5, <1>6, <1>7, <1>8 DEF UpdaterInv

\* Wherever an operation is cut off, what it leaves behind is one of the states that
\* the next operation can begin from.
LEMMA CutOffInv ==
  ASSUME UpdaterInv, CutOff, unit' \in BOOLEAN
  PROVE  UpdaterInv'
<1>0. /\ UpdaterTypes /\ BackupsOK /\ InOrder /\ SnapshotOK /\ InForce
      /\ OnTrial /\ TargetInstalled /\ WayBackKept /\ op' = Idle
  BY DEF UpdaterInv, CutOff, Exit
<1>a. NoData \in VolumeData
  BY DEF NoData, VolumeData
<1>b. \/ data' = data
      \/ /\ op.pc \in {"restore_server", "restore_web"}
         /\ \E v \in Volumes : data' = [data EXCEPT ![v] = NoData]
  BY DEF CutOff, Restoring, Volumes
<1>1. UpdaterTypes'
  <2>1. data' \in [Volumes -> VolumeData]'
    BY <1>0, <1>a, <1>b DEF UpdaterTypes, VolumeData, CutOff
  <2>2. tree' \in [Releases -> {"absent", "partial", "ready"}]
    BY <1>0 DEF UpdaterTypes, CutOff
  <2> QED
    BY <1>0, <2>1, <2>2 DEF UpdaterTypes, CutOff
<1>2. BackupsOK'
  BY <1>0 DEF BackupsOK, VolumeData, CutOff
<1>3. InOrder'
  BY <1>0, <1>b DEF UpdaterTypes, InOrder, CutOff, Fault, NoData
<1>4. SnapshotOK' /\ OnTrial' /\ TargetInstalled'
  BY <1>0 DEF SnapshotOK, OnTrial, TargetInstalled
<1>5. InForce'
  BY <1>0, <1>b DEF CutOff, Delicate, InForce, DataOf
<1>6. WayBackKept'
  BY <1>0 DEF UpdaterTypes, CutOff, Delicate, WayBackKept, PreviousKept, Installed, DataOf
<1> QED
  BY <1>1, <1>2, <1>3, <1>4, <1>5, <1>6 DEF UpdaterInv

LEMMA KillInv ==
  ASSUME UpdaterInv, Kill
  PROVE  UpdaterInv'
<1>1. unit' \in BOOLEAN
  BY Zenon DEF Kill, UpdaterInv, UpdaterTypes
<1> QED
  BY <1>1, CutOffInv DEF Kill

LEMMA PowerCutInv ==
  ASSUME UpdaterInv, PowerCut
  PROVE  UpdaterInv'
<1>1. unit' \in BOOLEAN
  BY DEF PowerCut
<1> QED
  BY <1>1, CutOffInv DEF PowerCut

LEMMA StartInv ==
  ASSUME UpdaterInv, Start
  PROVE  UpdaterInv'
<1>0. /\ UpdaterTypes /\ BackupsOK /\ InOrder /\ SnapshotOK /\ InForce
      /\ OnTrial /\ TargetInstalled /\ WayBackKept
  BY DEF UpdaterInv
<1>1. UpdaterTypes'
BY <1>0 DEF UpdaterTypes, VolumeData, Start, Free, Goto
<1>2. BackupsOK'
BY <1>0 DEF UpdaterTypes, BackupsOK, VolumeData, Volumes, Start, Free, Goto
<1>3. InOrder'
BY <1>0 DEF UpdaterTypes, InOrder, Start, Free, Goto
<1>4. SnapshotOK'
BY <1>0 DEF UpdaterTypes, SnapshotOK, Snapshot, DataOf, Start, Free, Goto
<1>5. InForce'
BY <1>0 DEF UpdaterTypes, InForce, DataOf, Start, Free, Goto
<1>6. OnTrial'
BY <1>0 DEF UpdaterTypes, OnTrial, Start, Free, Goto
<1>7. TargetInstalled'
BY <1>0 DEF UpdaterTypes, TargetInstalled, Installed, Start, Free, Goto
<1>8. WayBackKept'
BY <1>0 DEF UpdaterTypes, WayBackKept, PreviousKept, Installed, DataOf, Start, Free, Goto
<1> QED
  BY <1>1, <1>2, <1>3, <1>4, <1>5, <1>6, <1>7, <1>8 DEF UpdaterInv

LEMMA StartUpInv ==
  ASSUME UpdaterInv, StartUp
  PROVE  UpdaterInv'
<1>0. /\ UpdaterTypes /\ BackupsOK /\ InOrder /\ SnapshotOK /\ InForce
      /\ OnTrial /\ TargetInstalled /\ WayBackKept
  BY DEF UpdaterInv
<1>1. UpdaterTypes'
BY <1>0 DEF UpdaterTypes, VolumeData, InOrder, StartUp, Up, UpFails, Started, Fresh,
    NoData, Goto, Exit, Fault
<1>2. BackupsOK'
BY <1>0 DEF UpdaterTypes, BackupsOK, VolumeData, Volumes, StartUp, Up, UpFails, Started,
    Fresh, NoData, Goto, Exit, Fault
<1>3. InOrder'
BY <1>0 DEF UpdaterTypes, InOrder, StartUp, Up, UpFails, Started, Fresh, NoData, Goto,
    Exit, Fault
<1>4. SnapshotOK'
BY <1>0 DEF UpdaterTypes, SnapshotOK, Snapshot, DataOf, StartUp, Up, UpFails, Started,
    Fresh, NoData, Goto, Exit, Fault
<1>5. InForce'
BY <1>0 DEF UpdaterTypes, InForce, DataOf, InOrder, Volumes, VolumeData, StartUp, Up,
    UpFails, Started, Fresh, NoData, Goto, Exit, Fault
<1>6. OnTrial'
BY <1>0 DEF UpdaterTypes, OnTrial, StartUp, Up, UpFails, Started, Fresh, NoData, Goto,
    Exit, Fault
<1>7. TargetInstalled'
BY <1>0 DEF UpdaterTypes, TargetInstalled, Installed, StartUp, Up, UpFails, Started,
    Fresh, NoData, Goto, Exit, Fault
<1>8. WayBackKept'
BY <1>0 DEF UpdaterTypes, WayBackKept, PreviousKept, Installed, DataOf, StartUp, Up,
    UpFails, Started, Fresh, NoData, Goto, Exit, Fault
<1> QED
  BY <1>1, <1>2, <1>3, <1>4, <1>5, <1>6, <1>7, <1>8 DEF UpdaterInv

LEMMA WaitStartInv ==
  ASSUME UpdaterInv, WaitStart
  PROVE  UpdaterInv'
<1>0. /\ UpdaterTypes /\ BackupsOK /\ InOrder /\ SnapshotOK /\ InForce
      /\ OnTrial /\ TargetInstalled /\ WayBackKept
  BY DEF UpdaterInv
<1>1. UpdaterTypes'
BY <1>0 DEF UpdaterTypes, VolumeData, WaitStart, Healthy, Unhealthy, Exit, Fault
<1>2. BackupsOK'
BY <1>0 DEF UpdaterTypes, BackupsOK, VolumeData, Volumes, WaitStart, Healthy, Unhealthy,
    Exit, Fault
<1>3. InOrder'
BY <1>0 DEF UpdaterTypes, InOrder, WaitStart, Healthy, Unhealthy, Exit, Fault
<1>4. SnapshotOK'
BY <1>0 DEF UpdaterTypes, SnapshotOK, Snapshot, DataOf, WaitStart, Healthy, Unhealthy,
    Exit, Fault
<1>5. InForce'
BY <1>0 DEF UpdaterTypes, InForce, DataOf, WaitStart, Healthy, Unhealthy, Exit, Fault
<1>6. OnTrial'
BY <1>0 DEF UpdaterTypes, OnTrial, WaitStart, Healthy, Unhealthy, Exit, Fault
<1>7. TargetInstalled'
BY <1>0 DEF UpdaterTypes, TargetInstalled, Installed, WaitStart, Healthy, Unhealthy, Exit,
    Fault
<1>8. WayBackKept'
BY <1>0 DEF UpdaterTypes, WayBackKept, PreviousKept, Installed, DataOf, WaitStart,
    Healthy, Unhealthy, Exit, Fault
<1> QED
  BY <1>1, <1>2, <1>3, <1>4, <1>5, <1>6, <1>7, <1>8 DEF UpdaterInv

LEMMA StopInv ==
  ASSUME UpdaterInv, Stop
  PROVE  UpdaterInv'
<1>0. /\ UpdaterTypes /\ BackupsOK /\ InOrder /\ SnapshotOK /\ InForce
      /\ OnTrial /\ TargetInstalled /\ WayBackKept
  BY DEF UpdaterInv
<1>1. UpdaterTypes'
  <2>1. unit' \in BOOLEAN
    BY DEF Stop
  <2> QED
    BY <1>0, <2>1 DEF UpdaterTypes, VolumeData, Stop, Free
<1>2. BackupsOK'
BY <1>0 DEF UpdaterTypes, BackupsOK, VolumeData, Volumes, Stop, Free
<1>3. InOrder'
BY <1>0 DEF UpdaterTypes, InOrder, Stop, Free
<1>4. SnapshotOK'
BY <1>0 DEF UpdaterTypes, SnapshotOK, Snapshot, DataOf, Stop, Free
<1>5. InForce'
BY <1>0 DEF UpdaterTypes, InForce, DataOf, Stop, Free
<1>6. OnTrial'
BY <1>0 DEF UpdaterTypes, OnTrial, Stop, Free
<1>7. TargetInstalled'
BY <1>0 DEF UpdaterTypes, TargetInstalled, Installed, Stop, Free
<1>8. WayBackKept'
BY <1>0 DEF UpdaterTypes, WayBackKept, PreviousKept, Installed, DataOf, Stop, Free
<1> QED
  BY <1>1, <1>2, <1>3, <1>4, <1>5, <1>6, <1>7, <1>8 DEF UpdaterInv

LEMMA UpdateInv ==
  ASSUME UpdaterInv, Update
  PROVE  UpdaterInv'
<1>0. /\ UpdaterTypes /\ BackupsOK /\ InOrder /\ SnapshotOK /\ InForce
      /\ OnTrial /\ TargetInstalled /\ WayBackKept
  BY DEF UpdaterInv
<1>1. UpdaterTypes'
  <2>1. unit' \in BOOLEAN
    BY <1>0, Zenon DEF Update, UpdaterTypes
  <2>2. /\ op' = [pc |-> "prepare", target |-> newest, backup |-> 0] /\ runs' = runs + 1
        /\ UNCHANGED <<newest, names, tree, images, stack, data, count, kept>>
    BY DEF Update
  <2> QED
    BY <1>0, <2>1, <2>2 DEF UpdaterTypes, VolumeData
<1>2. BackupsOK'
BY <1>0 DEF UpdaterTypes, BackupsOK, VolumeData, Volumes, Update, Free
<1>3. InOrder'
BY <1>0 DEF UpdaterTypes, InOrder, Update, Free
<1>4. SnapshotOK'
BY <1>0 DEF UpdaterTypes, SnapshotOK, Snapshot, DataOf, Update, Free
<1>5. InForce'
BY <1>0 DEF UpdaterTypes, InForce, DataOf, Update, Free
<1>6. OnTrial'
BY <1>0 DEF UpdaterTypes, OnTrial, Update, Free
<1>7. TargetInstalled'
BY <1>0 DEF UpdaterTypes, TargetInstalled, Installed, Update, Free
<1>8. WayBackKept'
BY <1>0 DEF UpdaterTypes, WayBackKept, PreviousKept, Installed, DataOf, Update, Free
<1> QED
  BY <1>1, <1>2, <1>3, <1>4, <1>5, <1>6, <1>7, <1>8 DEF UpdaterInv

LEMMA PrepareInv ==
  ASSUME UpdaterInv, Prepare
  PROVE  UpdaterInv'
<1>0. /\ UpdaterTypes /\ BackupsOK /\ InOrder /\ SnapshotOK /\ InForce
      /\ OnTrial /\ TargetInstalled /\ WayBackKept
  BY DEF UpdaterInv
<1>1. UpdaterTypes'
BY <1>0 DEF UpdaterTypes, VolumeData, Prepare, Exit, Goto
<1>2. BackupsOK'
BY <1>0 DEF UpdaterTypes, BackupsOK, VolumeData, Volumes, Prepare, Exit, Goto
<1>3. InOrder'
BY <1>0 DEF UpdaterTypes, InOrder, Prepare, Exit, Goto
<1>4. SnapshotOK'
BY <1>0 DEF UpdaterTypes, SnapshotOK, Snapshot, DataOf, Prepare, Exit, Goto
<1>5. InForce'
BY <1>0 DEF UpdaterTypes, InForce, DataOf, Prepare, Exit, Goto
<1>6. OnTrial'
BY <1>0 DEF UpdaterTypes, OnTrial, Prepare, Exit, Goto
<1>7. TargetInstalled'
BY <1>0 DEF UpdaterTypes, TargetInstalled, Installed, InOrder, Prepare, Exit, Goto
<1>8. WayBackKept'
BY <1>0 DEF UpdaterTypes, WayBackKept, PreviousKept, Installed, DataOf, Prepare, Exit,
    Goto
<1> QED
  BY <1>1, <1>2, <1>3, <1>4, <1>5, <1>6, <1>7, <1>8 DEF UpdaterInv

LEMMA BuildInv ==
  ASSUME UpdaterInv, Build
  PROVE  UpdaterInv'
<1>0. /\ UpdaterTypes /\ BackupsOK /\ InOrder /\ SnapshotOK /\ InForce
      /\ OnTrial /\ TargetInstalled /\ WayBackKept
  BY DEF UpdaterInv
<1>1. UpdaterTypes'
BY <1>0 DEF UpdaterTypes, VolumeData, InOrder, Build, Exit, Goto, Fault
<1>2. BackupsOK'
BY <1>0 DEF UpdaterTypes, BackupsOK, VolumeData, Volumes, Build, Exit, Goto, Fault
<1>3. InOrder'
BY <1>0 DEF UpdaterTypes, InOrder, Build, Exit, Goto, Fault
<1>4. SnapshotOK'
BY <1>0 DEF UpdaterTypes, SnapshotOK, Snapshot, DataOf, Build, Exit, Goto, Fault
<1>5. InForce'
BY <1>0 DEF UpdaterTypes, InForce, DataOf, Build, Exit, Goto, Fault
<1>6. OnTrial'
BY <1>0 DEF UpdaterTypes, OnTrial, Build, Exit, Goto, Fault
<1>7. TargetInstalled'
BY <1>0 DEF UpdaterTypes, TargetInstalled, Installed, Build, Exit, Goto, Fault
<1>8. WayBackKept'
BY <1>0 DEF UpdaterTypes, WayBackKept, PreviousKept, Installed, DataOf, Build, Exit, Goto,
    Fault
<1> QED
  BY <1>1, <1>2, <1>3, <1>4, <1>5, <1>6, <1>7, <1>8 DEF UpdaterInv

LEMMA DiscoverInv ==
  ASSUME UpdaterInv, Discover
  PROVE  UpdaterInv'
<1>0. /\ UpdaterTypes /\ BackupsOK /\ InOrder /\ SnapshotOK /\ InForce
      /\ OnTrial /\ TargetInstalled /\ WayBackKept
  BY DEF UpdaterInv
<1>1. CASE Exit /\ UNCHANGED backups
  BY <1>0, <1>1
     DEF UpdaterTypes, BackupsOK, InOrder, SnapshotOK, InForce, OnTrial, TargetInstalled,
         WayBackKept, VolumeData, Volumes, Snapshot, DataOf, Installed, PreviousKept,
         Discover, Exit, UpdaterInv
<1>2. CASE ~(Exit /\ UNCHANGED backups)
  <2>1. /\ op.pc = "discover" /\ op' = [op EXCEPT !.pc = "stop", !.backup = runs]
        /\ UNCHANGED <<newest, names, tree, images, stack, data, unit, count, runs, faults,
                       history>>
    BY <1>2 DEF Discover
  <2>2. DOMAIN backups' = DOMAIN backups \cup {runs}
    BY <1>2 DEF Discover
  <2>3. backups'[runs] = [of |-> names.current, data |-> <<>>]
    BY <1>2 DEF Discover
  <2>4. \A b \in DOMAIN backups : b # runs => backups'[b] = backups[b]
    BY <1>2 DEF Discover
  <2>5. DOMAIN (backups'[runs].data) = {}
    BY <2>3
  <2>6. UpdaterTypes'
    BY <1>0, <2>1 DEF UpdaterTypes, VolumeData
  <2>7. BackupsOK'
    BY <1>0, <2>1, <2>2, <2>3, <2>4, <2>5 DEF UpdaterTypes, BackupsOK, VolumeData
  <2>8. InOrder' /\ InForce' /\ OnTrial'
    BY <1>0, <2>1 DEF UpdaterTypes, InOrder, InForce, OnTrial, DataOf
  <2>9. SnapshotOK'
    BY <1>0, <2>1, <2>2, <2>3, <2>5 DEF UpdaterTypes, SnapshotOK, Snapshot
  <2>10. TargetInstalled'
    BY <1>0, <2>1 DEF UpdaterTypes, TargetInstalled, Installed
  <2>11. WayBackKept'
    BY <1>0, <2>1, <2>2, <2>4
       DEF UpdaterTypes, BackupsOK, WayBackKept, PreviousKept, Installed, DataOf
  <2> QED
    BY <2>6, <2>7, <2>8, <2>9, <2>10, <2>11 DEF UpdaterInv
<1> QED
  BY <1>1, <1>2

LEMMA StopStackInv ==
  ASSUME UpdaterInv, StopStack
  PROVE  UpdaterInv'
<1>0. /\ UpdaterTypes /\ BackupsOK /\ InOrder /\ SnapshotOK /\ InForce
      /\ OnTrial /\ TargetInstalled /\ WayBackKept
  BY DEF UpdaterInv
<1>1. UpdaterTypes'
BY <1>0 DEF UpdaterTypes, VolumeData, StopStack, Goto, Fault
<1>2. BackupsOK'
BY <1>0 DEF UpdaterTypes, BackupsOK, VolumeData, Volumes, StopStack, Goto, Fault
<1>3. InOrder'
BY <1>0 DEF UpdaterTypes, InOrder, StopStack, Goto, Fault
<1>4. SnapshotOK'
BY <1>0 DEF UpdaterTypes, SnapshotOK, Snapshot, DataOf, StopStack, Goto, Fault
<1>5. InForce'
BY <1>0 DEF UpdaterTypes, InForce, DataOf, StopStack, Goto, Fault
<1>6. OnTrial'
BY <1>0 DEF UpdaterTypes, OnTrial, StopStack, Goto, Fault
<1>7. TargetInstalled'
BY <1>0 DEF UpdaterTypes, TargetInstalled, Installed, StopStack, Goto, Fault
<1>8. WayBackKept'
BY <1>0 DEF UpdaterTypes, WayBackKept, PreviousKept, Installed, DataOf, StopStack, Goto,
    Fault
<1> QED
  BY <1>1, <1>2, <1>3, <1>4, <1>5, <1>6, <1>7, <1>8 DEF UpdaterInv

LEMMA SaveServerInv ==
  ASSUME UpdaterInv, Save("server", "save_server", "save_web")
  PROVE  UpdaterInv'
<1>0. /\ UpdaterTypes /\ BackupsOK /\ InOrder /\ SnapshotOK /\ InForce
      /\ OnTrial /\ TargetInstalled /\ WayBackKept
  BY DEF UpdaterInv
<1>1. UpdaterTypes'
BY <1>0 DEF UpdaterTypes, VolumeData, Save, Goto, Fault
<1>2. BackupsOK'
BY <1>0 DEF UpdaterTypes, BackupsOK, VolumeData, Volumes, Save, Goto, Fault
<1>3. InOrder'
BY <1>0 DEF UpdaterTypes, InOrder, Save, Goto, Fault
<1>4. SnapshotOK'
BY <1>0 DEF UpdaterTypes, SnapshotOK, Snapshot, DataOf, BackupsOK, InOrder, InForce,
    OnTrial, TargetInstalled, WayBackKept, VolumeData, Volumes, Installed, PreviousKept,
    Save, Goto, Fault
<1>5. InForce'
BY <1>0 DEF UpdaterTypes, InForce, DataOf, Save, Goto, Fault
<1>6. OnTrial'
BY <1>0 DEF UpdaterTypes, OnTrial, Save, Goto, Fault
<1>7. TargetInstalled'
BY <1>0 DEF UpdaterTypes, TargetInstalled, Installed, Save, Goto, Fault
<1>8. WayBackKept'
BY <1>0 DEF UpdaterTypes, WayBackKept, PreviousKept, Installed, DataOf, Save, Goto, Fault
<1> QED
  BY <1>1, <1>2, <1>3, <1>4, <1>5, <1>6, <1>7, <1>8 DEF UpdaterInv

LEMMA SaveWebInv ==
  ASSUME UpdaterInv, Save("web", "save_web", "up")
  PROVE  UpdaterInv'
<1>0. /\ UpdaterTypes /\ BackupsOK /\ InOrder /\ SnapshotOK /\ InForce
      /\ OnTrial /\ TargetInstalled /\ WayBackKept
  BY DEF UpdaterInv
<1>1. UpdaterTypes'
BY <1>0 DEF UpdaterTypes, VolumeData, Save, Goto, Fault
<1>2. BackupsOK'
BY <1>0 DEF UpdaterTypes, BackupsOK, VolumeData, Volumes, Save, Goto, Fault
<1>3. InOrder'
BY <1>0 DEF UpdaterTypes, InOrder, Save, Goto, Fault
<1>4. SnapshotOK'
BY <1>0 DEF UpdaterTypes, SnapshotOK, Snapshot, DataOf, BackupsOK, InOrder, InForce,
    OnTrial, TargetInstalled, WayBackKept, VolumeData, Volumes, Installed, PreviousKept,
    Save, Goto, Fault
<1>5. InForce'
BY <1>0 DEF UpdaterTypes, InForce, DataOf, Save, Goto, Fault
<1>6. OnTrial'
BY <1>0 DEF UpdaterTypes, OnTrial, Save, Goto, Fault
<1>7. TargetInstalled'
BY <1>0 DEF UpdaterTypes, TargetInstalled, Installed, Save, Goto, Fault
<1>8. WayBackKept'
BY <1>0 DEF UpdaterTypes, WayBackKept, PreviousKept, Installed, DataOf, Save, Goto, Fault
<1> QED
  BY <1>1, <1>2, <1>3, <1>4, <1>5, <1>6, <1>7, <1>8 DEF UpdaterInv

LEMMA ResumeInv ==
  ASSUME UpdaterInv, Resume
  PROVE  UpdaterInv'
<1>0. /\ UpdaterTypes /\ BackupsOK /\ InOrder /\ SnapshotOK /\ InForce
      /\ OnTrial /\ TargetInstalled /\ WayBackKept
  BY DEF UpdaterInv
<1>1. UpdaterTypes'
BY <1>0 DEF UpdaterTypes, VolumeData, InOrder, Resume, Up, UpFails, Started, Fresh,
    NoData, Exit, Fault
<1>2. BackupsOK'
BY <1>0 DEF UpdaterTypes, BackupsOK, VolumeData, Volumes, Resume, Up, UpFails, Started,
    Fresh, NoData, Exit, Fault
<1>3. InOrder'
BY <1>0 DEF UpdaterTypes, InOrder, Resume, Up, UpFails, Started, Fresh, NoData, Exit,
    Fault
<1>4. SnapshotOK'
BY <1>0 DEF UpdaterTypes, SnapshotOK, Snapshot, DataOf, Resume, Up, UpFails, Started,
    Fresh, NoData, Exit, Fault
<1>5. InForce'
BY <1>0 DEF UpdaterTypes, InForce, DataOf, InOrder, Volumes, VolumeData, Resume, Up,
    UpFails, Started, Fresh, NoData, Exit, Fault
<1>6. OnTrial'
BY <1>0 DEF UpdaterTypes, OnTrial, Resume, Up, UpFails, Started, Fresh, NoData, Exit,
    Fault
<1>7. TargetInstalled'
BY <1>0 DEF UpdaterTypes, TargetInstalled, Installed, Resume, Up, UpFails, Started, Fresh,
    NoData, Exit, Fault
<1>8. WayBackKept'
BY <1>0 DEF UpdaterTypes, WayBackKept, PreviousKept, Installed, DataOf, Resume, Up,
    UpFails, Started, Fresh, NoData, Exit, Fault
<1> QED
  BY <1>1, <1>2, <1>3, <1>4, <1>5, <1>6, <1>7, <1>8 DEF UpdaterInv

LEMMA UpCandidateInv ==
  ASSUME UpdaterInv, UpCandidate
  PROVE  UpdaterInv'
<1>0. /\ UpdaterTypes /\ BackupsOK /\ InOrder /\ SnapshotOK /\ InForce
      /\ OnTrial /\ TargetInstalled /\ WayBackKept
  BY DEF UpdaterInv
<1>1. UpdaterTypes'
BY <1>0 DEF UpdaterTypes, VolumeData, InOrder, UpCandidate, Up, UpFails, Started, Fresh,
    NoData, Goto, Fault, Failed
<1>2. BackupsOK'
BY <1>0 DEF UpdaterTypes, BackupsOK, VolumeData, Volumes, UpCandidate, Up, UpFails,
    Started, Fresh, NoData, Goto, Fault, Failed
<1>3. InOrder'
BY <1>0 DEF UpdaterTypes, InOrder, VolumeData, Volumes, UpCandidate, Up, UpFails, Started,
    Fresh, NoData, Goto, Fault, Failed
<1>4. SnapshotOK'
BY <1>0 DEF UpdaterTypes, SnapshotOK, Snapshot, DataOf, InForce, Volumes, UpCandidate, Up,
    UpFails, Started, Fresh, NoData, Goto, Fault, Failed
<1>5. InForce'
BY <1>0 DEF UpdaterTypes, InForce, DataOf, UpCandidate, Up, UpFails, Started, Fresh,
    NoData, Goto, Fault, Failed
<1>6. OnTrial'
BY <1>0 DEF UpdaterTypes, OnTrial, BackupsOK, InOrder, SnapshotOK, InForce,
    TargetInstalled, WayBackKept, VolumeData, Volumes, Snapshot, DataOf, Installed,
    PreviousKept, UpCandidate, Up, UpFails, Started, Fresh, NoData, Goto, Fault, Failed
<1>7. TargetInstalled'
BY <1>0 DEF UpdaterTypes, TargetInstalled, Installed, UpCandidate, Up, UpFails, Started,
    Fresh, NoData, Goto, Fault, Failed
<1>8. WayBackKept'
BY <1>0 DEF UpdaterTypes, WayBackKept, PreviousKept, Installed, DataOf, UpCandidate, Up,
    UpFails, Started, Fresh, NoData, Goto, Fault, Failed
<1> QED
  BY <1>1, <1>2, <1>3, <1>4, <1>5, <1>6, <1>7, <1>8 DEF UpdaterInv

LEMMA JudgeInv ==
  ASSUME UpdaterInv, Judge
  PROVE  UpdaterInv'
<1>0. /\ UpdaterTypes /\ BackupsOK /\ InOrder /\ SnapshotOK /\ InForce
      /\ OnTrial /\ TargetInstalled /\ WayBackKept
  BY DEF UpdaterInv
<1>1. UpdaterTypes'
BY <1>0 DEF UpdaterTypes, VolumeData, Judge, Healthy, Unhealthy, Goto, Fault, Failed
<1>2. BackupsOK'
BY <1>0 DEF UpdaterTypes, BackupsOK, VolumeData, Volumes, Judge, Healthy, Unhealthy, Goto,
    Fault, Failed
<1>3. InOrder'
BY <1>0 DEF UpdaterTypes, InOrder, Judge, Healthy, Unhealthy, Goto, Fault, Failed
<1>4. SnapshotOK'
BY <1>0 DEF UpdaterTypes, SnapshotOK, Snapshot, DataOf, Judge, Healthy, Unhealthy, Goto,
    Fault, Failed
<1>5. InForce'
BY <1>0 DEF UpdaterTypes, InForce, DataOf, Judge, Healthy, Unhealthy, Goto, Fault, Failed
<1>6. OnTrial'
BY <1>0 DEF UpdaterTypes, OnTrial, Judge, Healthy, Unhealthy, Goto, Fault, Failed
<1>7. TargetInstalled'
BY <1>0 DEF UpdaterTypes, TargetInstalled, Installed, Judge, Healthy, Unhealthy, Goto,
    Fault, Failed
<1>8. WayBackKept'
BY <1>0 DEF UpdaterTypes, WayBackKept, PreviousKept, Installed, DataOf, Judge, Healthy,
    Unhealthy, Goto, Fault, Failed
<1> QED
  BY <1>1, <1>2, <1>3, <1>4, <1>5, <1>6, <1>7, <1>8 DEF UpdaterInv

LEMMA AbandonInv ==
  ASSUME UpdaterInv, Abandon
  PROVE  UpdaterInv'
<1>0. /\ UpdaterTypes /\ BackupsOK /\ InOrder /\ SnapshotOK /\ InForce
      /\ OnTrial /\ TargetInstalled /\ WayBackKept
  BY DEF UpdaterInv
<1>1. UpdaterTypes'
BY <1>0 DEF UpdaterTypes, VolumeData, Abandon, Exit
<1>2. BackupsOK'
BY <1>0 DEF UpdaterTypes, BackupsOK, VolumeData, Volumes, Abandon, Exit
<1>3. InOrder'
BY <1>0 DEF UpdaterTypes, InOrder, Abandon, Exit
<1>4. SnapshotOK'
BY <1>0 DEF UpdaterTypes, SnapshotOK, Snapshot, DataOf, Abandon, Exit
<1>5. InForce'
BY <1>0 DEF UpdaterTypes, InForce, DataOf, Abandon, Exit
<1>6. OnTrial'
BY <1>0 DEF UpdaterTypes, OnTrial, Abandon, Exit
<1>7. TargetInstalled'
BY <1>0 DEF UpdaterTypes, TargetInstalled, Installed, Abandon, Exit
<1>8. WayBackKept'
BY <1>0 DEF UpdaterTypes, WayBackKept, PreviousKept, Installed, DataOf, Abandon, Exit
<1> QED
  BY <1>1, <1>2, <1>3, <1>4, <1>5, <1>6, <1>7, <1>8 DEF UpdaterInv

LEMMA DownInv ==
  ASSUME UpdaterInv, Down
  PROVE  UpdaterInv'
<1>0. /\ UpdaterTypes /\ BackupsOK /\ InOrder /\ SnapshotOK /\ InForce
      /\ OnTrial /\ TargetInstalled /\ WayBackKept
  BY DEF UpdaterInv
<1>1. UpdaterTypes'
BY <1>0 DEF UpdaterTypes, VolumeData, Down, Goto, Fault
<1>2. BackupsOK'
BY <1>0 DEF UpdaterTypes, BackupsOK, VolumeData, Volumes, Down, Goto, Fault
<1>3. InOrder'
BY <1>0 DEF UpdaterTypes, InOrder, Down, Goto, Fault
<1>4. SnapshotOK'
BY <1>0 DEF UpdaterTypes, SnapshotOK, Snapshot, DataOf, Down, Goto, Fault
<1>5. InForce'
BY <1>0 DEF UpdaterTypes, InForce, DataOf, Down, Goto, Fault
<1>6. OnTrial'
BY <1>0 DEF UpdaterTypes, OnTrial, Down, Goto, Fault
<1>7. TargetInstalled'
BY <1>0 DEF UpdaterTypes, TargetInstalled, Installed, Down, Goto, Fault
<1>8. WayBackKept'
BY <1>0 DEF UpdaterTypes, WayBackKept, PreviousKept, Installed, DataOf, Down, Goto, Fault
<1> QED
  BY <1>1, <1>2, <1>3, <1>4, <1>5, <1>6, <1>7, <1>8 DEF UpdaterInv

LEMMA RestoreServerInv ==
  ASSUME UpdaterInv, Restore("server", "restore_server", "restore_web")
  PROVE  UpdaterInv'
<1>0. /\ UpdaterTypes /\ BackupsOK /\ InOrder /\ SnapshotOK /\ InForce
      /\ OnTrial /\ TargetInstalled /\ WayBackKept
  BY DEF UpdaterInv
<1>1. UpdaterTypes'
BY <1>0 DEF UpdaterTypes, VolumeData, BackupsOK, InOrder, SnapshotOK, InForce, OnTrial,
    TargetInstalled, WayBackKept, Volumes, Snapshot, DataOf, Installed, PreviousKept,
    Restore, Saved, Goto, Fault, NoData
<1>2. BackupsOK'
BY <1>0 DEF UpdaterTypes, BackupsOK, VolumeData, Volumes, Restore, Saved, Goto, Fault,
    NoData
<1>3. InOrder'
BY <1>0 DEF UpdaterTypes, InOrder, Restore, Saved, Goto, Fault, NoData
<1>4. SnapshotOK'
BY <1>0 DEF UpdaterTypes, SnapshotOK, Snapshot, DataOf, InForce, Volumes, Restore, Saved,
    Goto, Fault, NoData
<1>5. InForce'
BY <1>0 DEF UpdaterTypes, InForce, DataOf, Restore, Saved, Goto, Fault, NoData
<1>6. OnTrial'
BY <1>0 DEF UpdaterTypes, OnTrial, Restore, Saved, Goto, Fault, NoData
<1>7. TargetInstalled'
BY <1>0 DEF UpdaterTypes, TargetInstalled, Installed, Restore, Saved, Goto, Fault, NoData
<1>8. WayBackKept'
BY <1>0 DEF UpdaterTypes, WayBackKept, PreviousKept, Installed, DataOf, Restore, Saved,
    Goto, Fault, NoData
<1> QED
  BY <1>1, <1>2, <1>3, <1>4, <1>5, <1>6, <1>7, <1>8 DEF UpdaterInv

LEMMA RestoreWebInv ==
  ASSUME UpdaterInv, Restore("web", "restore_web", "up_again")
  PROVE  UpdaterInv'
<1>0. /\ UpdaterTypes /\ BackupsOK /\ InOrder /\ SnapshotOK /\ InForce
      /\ OnTrial /\ TargetInstalled /\ WayBackKept
  BY DEF UpdaterInv
<1>1. UpdaterTypes'
BY <1>0 DEF UpdaterTypes, VolumeData, SnapshotOK, BackupsOK, Snapshot, InOrder, Restore,
    Saved, Goto, Fault, NoData
<1>2. BackupsOK'
BY <1>0 DEF UpdaterTypes, BackupsOK, VolumeData, Volumes, Restore, Saved, Goto, Fault,
    NoData
<1>3. InOrder'
BY <1>0 DEF UpdaterTypes, InOrder, Restore, Saved, Goto, Fault, NoData
<1>4. SnapshotOK'
BY <1>0 DEF UpdaterTypes, SnapshotOK, Snapshot, DataOf, Restore, Saved, Goto, Fault,
    NoData
<1>5. InForce'
BY <1>0 DEF UpdaterTypes, InForce, DataOf, SnapshotOK, Snapshot, Volumes, Restore, Saved,
    Goto, Fault, NoData
<1>6. OnTrial'
BY <1>0 DEF UpdaterTypes, OnTrial, Restore, Saved, Goto, Fault, NoData
<1>7. TargetInstalled'
BY <1>0 DEF UpdaterTypes, TargetInstalled, Installed, Restore, Saved, Goto, Fault, NoData
<1>8. WayBackKept'
BY <1>0 DEF UpdaterTypes, WayBackKept, PreviousKept, Installed, DataOf, Restore, Saved,
    Goto, Fault, NoData
<1> QED
  BY <1>1, <1>2, <1>3, <1>4, <1>5, <1>6, <1>7, <1>8 DEF UpdaterInv

LEMMA UpAgainInv ==
  ASSUME UpdaterInv, UpAgain
  PROVE  UpdaterInv'
<1>0. /\ UpdaterTypes /\ BackupsOK /\ InOrder /\ SnapshotOK /\ InForce
      /\ OnTrial /\ TargetInstalled /\ WayBackKept
  BY DEF UpdaterInv
<1>1. UpdaterTypes'
BY <1>0 DEF UpdaterTypes, VolumeData, InOrder, UpAgain, Up, UpFails, Started, Fresh,
    NoData, Goto, Fault
<1>2. BackupsOK'
BY <1>0 DEF UpdaterTypes, BackupsOK, VolumeData, Volumes, UpAgain, Up, UpFails, Started,
    Fresh, NoData, Goto, Fault
<1>3. InOrder'
BY <1>0 DEF UpdaterTypes, InOrder, UpAgain, Up, UpFails, Started, Fresh, NoData, Goto,
    Fault
<1>4. SnapshotOK'
BY <1>0 DEF UpdaterTypes, SnapshotOK, Snapshot, DataOf, UpAgain, Up, UpFails, Started,
    Fresh, NoData, Goto, Fault
<1>5. InForce'
BY <1>0 DEF UpdaterTypes, InForce, DataOf, InOrder, Volumes, VolumeData, UpAgain, Up,
    UpFails, Started, Fresh, NoData, Goto, Fault
<1>6. OnTrial'
BY <1>0 DEF UpdaterTypes, OnTrial, UpAgain, Up, UpFails, Started, Fresh, NoData, Goto,
    Fault
<1>7. TargetInstalled'
BY <1>0 DEF UpdaterTypes, TargetInstalled, Installed, UpAgain, Up, UpFails, Started,
    Fresh, NoData, Goto, Fault
<1>8. WayBackKept'
BY <1>0 DEF UpdaterTypes, WayBackKept, PreviousKept, Installed, DataOf, UpAgain, Up,
    UpFails, Started, Fresh, NoData, Goto, Fault
<1> QED
  BY <1>1, <1>2, <1>3, <1>4, <1>5, <1>6, <1>7, <1>8 DEF UpdaterInv

LEMMA WaitAgainInv ==
  ASSUME UpdaterInv, WaitAgain
  PROVE  UpdaterInv'
<1>0. /\ UpdaterTypes /\ BackupsOK /\ InOrder /\ SnapshotOK /\ InForce
      /\ OnTrial /\ TargetInstalled /\ WayBackKept
  BY DEF UpdaterInv
<1>1. UpdaterTypes'
BY <1>0 DEF UpdaterTypes, VolumeData, WaitAgain, Exit
<1>2. BackupsOK'
BY <1>0 DEF UpdaterTypes, BackupsOK, VolumeData, Volumes, WaitAgain, Exit
<1>3. InOrder'
BY <1>0 DEF UpdaterTypes, InOrder, WaitAgain, Exit
<1>4. SnapshotOK'
BY <1>0 DEF UpdaterTypes, SnapshotOK, Snapshot, DataOf, WaitAgain, Exit
<1>5. InForce'
BY <1>0 DEF UpdaterTypes, InForce, DataOf, WaitAgain, Exit
<1>6. OnTrial'
BY <1>0 DEF UpdaterTypes, OnTrial, WaitAgain, Exit
<1>7. TargetInstalled'
BY <1>0 DEF UpdaterTypes, TargetInstalled, Installed, WaitAgain, Exit
<1>8. WayBackKept'
BY <1>0 DEF UpdaterTypes, WayBackKept, PreviousKept, Installed, DataOf, WaitAgain, Exit
<1> QED
  BY <1>1, <1>2, <1>3, <1>4, <1>5, <1>6, <1>7, <1>8 DEF UpdaterInv

LEMMA NamePreviousInv ==
  ASSUME UpdaterInv, NamePrevious
  PROVE  UpdaterInv'
<1>0. /\ UpdaterTypes /\ BackupsOK /\ InOrder /\ SnapshotOK /\ InForce
      /\ OnTrial /\ TargetInstalled /\ WayBackKept
  BY DEF UpdaterInv
<1>1. UpdaterTypes'
BY <1>0 DEF UpdaterTypes, VolumeData, NamePrevious, Goto
<1>2. BackupsOK'
BY <1>0 DEF UpdaterTypes, BackupsOK, VolumeData, Volumes, NamePrevious, Goto
<1>3. InOrder'
BY <1>0 DEF UpdaterTypes, InOrder, NamePrevious, Goto
<1>4. SnapshotOK'
BY <1>0 DEF UpdaterTypes, SnapshotOK, Snapshot, DataOf, NamePrevious, Goto
<1>5. InForce'
BY <1>0 DEF UpdaterTypes, InForce, DataOf, NamePrevious, Goto
<1>6. OnTrial'
BY <1>0 DEF UpdaterTypes, OnTrial, NamePrevious, Goto
<1>7. TargetInstalled'
BY <1>0 DEF UpdaterTypes, TargetInstalled, Installed, NamePrevious, Goto
<1>8. WayBackKept'
BY <1>0 DEF UpdaterTypes, WayBackKept, PreviousKept, Installed, DataOf, NamePrevious, Goto
<1> QED
  BY <1>1, <1>2, <1>3, <1>4, <1>5, <1>6, <1>7, <1>8 DEF UpdaterInv

LEMMA NameBackupInv ==
  ASSUME UpdaterInv, NameBackup
  PROVE  UpdaterInv'
<1>0. /\ UpdaterTypes /\ BackupsOK /\ InOrder /\ SnapshotOK /\ InForce
      /\ OnTrial /\ TargetInstalled /\ WayBackKept
  BY DEF UpdaterInv
<1>1. UpdaterTypes'
BY <1>0 DEF UpdaterTypes, VolumeData, NameBackup, Goto
<1>2. BackupsOK'
BY <1>0 DEF UpdaterTypes, BackupsOK, VolumeData, Volumes, NameBackup, Goto
<1>3. InOrder'
BY <1>0 DEF UpdaterTypes, InOrder, NameBackup, Goto
<1>4. SnapshotOK'
BY <1>0 DEF UpdaterTypes, SnapshotOK, Snapshot, DataOf, NameBackup, Goto
<1>5. InForce'
BY <1>0 DEF UpdaterTypes, InForce, DataOf, NameBackup, Goto
<1>6. OnTrial'
BY <1>0 DEF UpdaterTypes, OnTrial, NameBackup, Goto
<1>7. TargetInstalled'
BY <1>0 DEF UpdaterTypes, TargetInstalled, Installed, NameBackup, Goto
<1>8. WayBackKept'
BY <1>0 DEF UpdaterTypes, WayBackKept, PreviousKept, Installed, DataOf, NameBackup, Goto
<1> QED
  BY <1>1, <1>2, <1>3, <1>4, <1>5, <1>6, <1>7, <1>8 DEF UpdaterInv

LEMMA NameCurrentInv ==
  ASSUME UpdaterInv, NameCurrent
  PROVE  UpdaterInv'
<1>0. /\ UpdaterTypes /\ BackupsOK /\ InOrder /\ SnapshotOK /\ InForce
      /\ OnTrial /\ TargetInstalled /\ WayBackKept
  BY DEF UpdaterInv
<1>1. UpdaterTypes'
BY <1>0 DEF UpdaterTypes, VolumeData, BackupsOK, InOrder, SnapshotOK, InForce, OnTrial,
    TargetInstalled, WayBackKept, Volumes, Snapshot, DataOf, Installed, PreviousKept,
    NameCurrent, Goto
<1>2. BackupsOK'
BY <1>0 DEF UpdaterTypes, BackupsOK, VolumeData, Volumes, NameCurrent, Goto
<1>3. InOrder'
BY <1>0 DEF UpdaterTypes, InOrder, NameCurrent, Goto
<1>4. SnapshotOK'
BY <1>0 DEF UpdaterTypes, SnapshotOK, Snapshot, DataOf, NameCurrent, Goto
<1>5. InForce'
BY <1>0 DEF UpdaterTypes, InForce, DataOf, OnTrial, NameCurrent, Goto
<1>6. OnTrial'
BY <1>0 DEF UpdaterTypes, OnTrial, NameCurrent, Goto
<1>7. TargetInstalled'
BY <1>0 DEF UpdaterTypes, TargetInstalled, Installed, NameCurrent, Goto
<1>8. WayBackKept'
BY <1>0 DEF UpdaterTypes, WayBackKept, PreviousKept, Installed, DataOf, TargetInstalled,
    SnapshotOK, Snapshot, NameCurrent, Goto
<1> QED
  BY <1>1, <1>2, <1>3, <1>4, <1>5, <1>6, <1>7, <1>8 DEF UpdaterInv

LEMMA PruneInv ==
  ASSUME UpdaterInv, Prune
  PROVE  UpdaterInv'
<1>0. /\ UpdaterTypes /\ BackupsOK /\ InOrder /\ SnapshotOK /\ InForce
      /\ OnTrial /\ TargetInstalled /\ WayBackKept
  BY DEF UpdaterInv
<1>1. UpdaterTypes'
BY <1>0 DEF UpdaterTypes, VolumeData, Prune, Exit, Named
<1>2. BackupsOK'
BY <1>0 DEF UpdaterTypes, BackupsOK, VolumeData, Volumes, Prune, Exit, Named
<1>3. InOrder'
BY <1>0 DEF UpdaterTypes, InOrder, Prune, Exit, Named
<1>4. SnapshotOK'
BY <1>0 DEF UpdaterTypes, SnapshotOK, Snapshot, DataOf, Prune, Exit, Named
<1>5. InForce'
BY <1>0 DEF UpdaterTypes, InForce, DataOf, Prune, Exit, Named
<1>6. OnTrial'
BY <1>0 DEF UpdaterTypes, OnTrial, Prune, Exit, Named
<1>7. TargetInstalled'
BY <1>0 DEF UpdaterTypes, TargetInstalled, Installed, Prune, Exit, Named
<1>8. WayBackKept'
BY <1>0 DEF UpdaterTypes, WayBackKept, PreviousKept, Installed, DataOf, Prune, Exit, Named
<1> QED
  BY <1>1, <1>2, <1>3, <1>4, <1>5, <1>6, <1>7, <1>8 DEF UpdaterInv

LEMMA UpdaterInitInv == UpdaterInit => UpdaterInv
<1> SUFFICES ASSUME UpdaterInit
             PROVE  UpdaterInv
  OBVIOUS
<1>1. PICK first \in First :
        /\ newest = IF first = NoRelease THEN 1 ELSE first
        /\ names = [current |-> first, previous |-> NoRelease, backup |-> 0]
        /\ tree = [r \in Releases |-> IF r = first THEN "ready" ELSE "absent"]
        /\ images = {first} \ {NoRelease}
        /\ stack = [of |-> first, state |-> IF first = NoRelease THEN "gone" ELSE "up"]
        /\ data = [v \in Volumes |-> IF first = NoRelease THEN NoData ELSE Fresh(first)]
        /\ unit = (first # NoRelease)
  BY Zenon DEF UpdaterInit
<1>2. first \in Releases \/ (first = NoRelease /\ 1 \in Releases)
  BY FirstAssumption
<1>3. /\ backups = <<>> /\ op = Idle /\ count = 0 /\ runs = 0 /\ kept = {} /\ ~spoilt
  BY Zenon DEF UpdaterInit
<1>4. DOMAIN backups = {}
  BY <1>3
<1>5. UpdaterTypes
  <2>1. unit \in BOOLEAN
    BY <1>1, Zenon
  <2>2. data \in [Volumes -> VolumeData]
    BY <1>1, <1>2, <1>3 DEF VolumeData, NoData, Fresh
  <2> QED
    BY <1>1, <1>2, <1>3, <2>1, <2>2 DEF UpdaterTypes
<1>6. BackupsOK
  BY <1>3, <1>4 DEF BackupsOK
<1>7. InOrder
  BY <1>1, <1>2, <1>3 DEF InOrder, NoData
<1>8. SnapshotOK /\ OnTrial /\ TargetInstalled
  BY <1>3 DEF SnapshotOK, OnTrial, TargetInstalled
<1>9. InForce
  BY <1>1, <1>2, <1>3 DEF InForce, DataOf, Fresh
<1>10. WayBackKept
  BY <1>1, <1>2, <1>3 DEF WayBackKept, PreviousKept, Installed
<1> QED
  BY <1>5, <1>6, <1>7, <1>8, <1>9, <1>10 DEF UpdaterInv

LEMMA UpdaterNextInv == UpdaterInv /\ [UpdaterNext]_updaterVars => UpdaterInv'
<1> SUFFICES ASSUME UpdaterInv, [UpdaterNext]_updaterVars
             PROVE  UpdaterInv'
  OBVIOUS
<1>1. CASE UNCHANGED updaterVars
  BY <1>1 DEF updaterVars, UpdaterInv, UpdaterTypes, BackupsOK, InOrder, SnapshotOK, InForce,
              OnTrial, TargetInstalled, WayBackKept, VolumeData, Snapshot, DataOf, Installed,
              PreviousKept
<1>2. CASE ClientWrite \/ Publish \/ Kill \/ PowerCut \/ Start \/ Stop \/ Update
  BY <1>2, ClientWriteInv, PublishInv, KillInv, PowerCutInv, StartInv, StopInv, UpdateInv
<1>3. CASE Operation
  BY <1>3, StartUpInv, WaitStartInv, PrepareInv, BuildInv, DiscoverInv, StopStackInv,
     SaveServerInv, SaveWebInv, ResumeInv, UpCandidateInv, JudgeInv, AbandonInv, DownInv,
     RestoreServerInv, RestoreWebInv, UpAgainInv, WaitAgainInv, NamePreviousInv,
     NameBackupInv, NameCurrentInv, PruneInv, Zenon DEF Operation
<1> QED
  BY <1>1, <1>2, <1>3 DEF UpdaterNext

\* Whenever no update runs, and wherever runs have failed or been cut off but for the
\* steps that the data hang on, the release in force has its own data with every write it
\* has acknowledged, the snapshot has them while a candidate is on trial, and the release
\* before it can be gone back to.
THEOREM NothingIsLost == UpdaterSpec => []Sound
<1>1. UpdaterInv => Sound
  <2> SUFFICES ASSUME UpdaterInv
               PROVE  Sound
    OBVIOUS
  <2>0. /\ UpdaterTypes /\ SnapshotOK /\ InForce /\ WayBackKept
    BY DEF UpdaterInv
  <2>1. UpdaterTypeOK
    <3>1. \A v \in Volumes : data[v].schema \in {0} \cup Releases /\ data[v].writes \subseteq 1..count
      <4> SUFFICES ASSUME NEW v \in Volumes
                   PROVE  data[v].schema \in {0} \cup Releases /\ data[v].writes \subseteq 1..count
        OBVIOUS
      <4>1. data[v] \in VolumeData
        BY <2>0 DEF UpdaterTypes
      <4> QED
        BY <4>1 DEF VolumeData
    <3> QED
      BY <2>0, <3>1 DEF UpdaterTypes, UpdaterTypeOK
  <2>2. NothingLost
    BY <2>0 DEF InForce, SnapshotOK, Snapshot, NothingLost
  <2>3. WayBack
    BY <2>0 DEF WayBackKept, PreviousKept, WayBack
  <2> QED
    BY <2>1, <2>2, <2>3 DEF Sound
<1> QED
  BY <1>1, UpdaterInitInv, UpdaterNextInv, PTL DEF UpdaterSpec

HIDE ReleaseAssumption
HIDE DEF installation, history, Idle, Beginning, Saving, Trying, GoingBack, Recovered,
         Candidate, Steps
=============================================================================
