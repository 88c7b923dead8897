------------------------------- MODULE Watcher -------------------------------
(***************************************************************************)
(* Scrubbing of text surfaces: keynv watch, the watcher that rewrites a    *)
(* file after each change (apps/cli/src/watcher/*.ts), keynv scrub, which  *)
(* goes over all files once (apps/cli/src/commands/scrub.ts), and the      *)
(* rewrite both run on a file (packages/text-surfaces/src/rewrite.ts):     *)
(* read, redact, write a temporary file, rename it over the original.      *)
(* Tools append to the files meanwhile, rewrites overlap, keynv exec tells *)
(* the watcher of values, and processes die at any await.                  *)
(*                                                                         *)
(* The files are those of one directory.  A path names an inode; an open   *)
(* file keeps its inode when the path goes to another one.  An entry is    *)
(* what a tool appends at once.  The user gives one watch command after    *)
(* the other, and does not give a second while the first is at work.       *)
(***************************************************************************)
EXTENDS Naturals, Sequences, Functions

CONSTANTS
  Files,
  Slots,       \* rewrites that run at the same time
  Inodes,      \* bounds what the disk holds at a time
  Null,
  MaxEntries,  \* bound on what the tools append
  MaxSeconds,  \* bound on the clock
  MaxDeaths,   \* bound on the ends of the watcher process
  MaxScrubs,   \* bound on the runs of keynv scrub
  MaxEvents    \* bound on all three

ASSUME NullAssumption == Null \notin Inodes \cup Nat
ASSUME FileAssumption == \E p \in [Files -> Inodes] : IsInjective(p)
ASSUME BoundAssumption ==
  MaxEntries \in Nat /\ MaxSeconds \in Nat /\ MaxDeaths \in Nat
    /\ MaxScrubs \in Nat /\ MaxEvents \in Nat

VARIABLES
  path,      \* file -> the inode it names
  tmp,       \* temporary name -> the inode it names, or Null
  data,      \* inode -> its entries
  watcher,   \* how far the watcher process is
  pidfile,   \* the process that watcher.pid names, or Null
  reused,    \* that process is gone, and another program has its pid
  socket,    \* the process that was the last to listen on watcher.sock, or Null
  stopper,   \* keynv watch stop waits for the process to end
  registry,  \* the watcher knows the value that keynv exec has resolved
  rpc,       \* a request of keynv exec is on its way to the watcher
  timers,    \* files with a change not yet delivered, or with a debouncer
  task,      \* slot -> the rewrite that runs in it, or Null
  scrub,     \* keynv scrub: how far, and the files it has still to go over
  resolved,  \* keynv exec has given the value to a tool
  second,    \* the clock
  deaths,    \* ends of the process so far
  scrubs,    \* runs of keynv scrub so far
  count,     \* entries appended so far
  twice,     \* history: a watcher was started beside another
  late,      \* history: entries appended after a running rewrite had read
  shared,    \* history: two rewrites had one temporary name
  failed     \* history: files of which the watcher's rewrite failed, with no
             \*          other begun since

watchVars == <<path, tmp, data, watcher, pidfile, reused, socket, stopper, registry, rpc,
          timers, task, scrub, resolved, second, deaths, scrubs, count, twice, late,
          shared, failed>>

disk == <<path, tmp, data>>
life == <<watcher, pidfile, reused, socket, stopper, deaths, twice>>
knowledge == <<registry, rpc, resolved>>
scrubbing == <<scrub, scrubs>>
tools == <<count, late, shared, failed>>

\* "value" is the resolved value where no pattern matches it, "known" the same
\* appended while the watcher had it in its registry
Texts == {"pattern", "value", "known", "redacted"}

Entry == [from : Files, no : Nat, text : Texts]

\* The processes: the watchers, one after the other, and then the scrubs
Pids == 0..(MaxDeaths + MaxScrubs)
WatcherPid == deaths
ScrubPid == MaxDeaths + scrubs

\* A stamp and a pid: .keynv.tmp.${ts}.${process.pid}
Names == (0..MaxSeconds) \X Pids

Task == [pc : {"read", "open", "write", "rename", "unlink"}, file : Files,
         literals : BOOLEAN, text : Seq(Entry), name : Names, pid : Pids,
         inode : Inodes \cup {Null}]

Running(s) == task[s] # Null

\* The process is there and its chokidar reports changes.
Alive == watcher # "off"
Watching == watcher \in {"ready", "closing"}

Quiet == second + deaths + scrubs < MaxEvents

NoScrub == [pc |-> "none", todo |-> {}]

WatchInit ==
  /\ path = CHOOSE p \in [Files -> Inodes] : IsInjective(p)
  /\ tmp = [n \in Names |-> Null]
  /\ data = [i \in Inodes |-> <<>>]
  /\ watcher = "off" /\ pidfile = Null /\ reused = FALSE
  /\ socket = Null /\ stopper = FALSE
  /\ registry = FALSE /\ rpc = FALSE
  /\ timers = {}
  /\ task = [s \in Slots |-> Null]
  /\ scrub = NoScrub
  /\ resolved = FALSE
  /\ second = 0 /\ deaths = 0 /\ scrubs = 0 /\ count = 0
  /\ twice = FALSE /\ late = {} /\ shared = FALSE /\ failed = {}

----------------------------------------------------------------------------
(* The tools *)

\* A change of a file reaches scheduleRewrite.
Changed(i) == IF Watching THEN {f \in Files : path[f] = i} ELSE {}

\* Rewrites of f that will not see what is appended now
PastRead(f) ==
  {s \in Slots : Running(s) /\ task[s].file = f /\ task[s].pc # "read"}

ToolAppend(f, text) ==
  /\ count < MaxEntries
  /\ text \in {"value", "known"} => resolved /\ (text = "known" <=> registry)
  /\ count' = count + 1
  /\ data' = [data EXCEPT ![path[f]] =
                Append(@, [from |-> f, no |-> count', text |-> text])]
  /\ timers' = timers \cup Changed(path[f])
  /\ late' = late \cup {n \in {count'} : PastRead(f) # {}}
  /\ UNCHANGED <<path, tmp, life, knowledge, task, scrubbing, second, shared, failed>>

Tick ==
  /\ second < MaxSeconds /\ Quiet
  /\ second' = second + 1
  /\ UNCHANGED <<disk, life, knowledge, timers, task, scrubbing, tools>>

----------------------------------------------------------------------------
(* keynv exec tells the watcher of each value it has resolved, and starts  *)
(* the command that will use it: registerValueWithWatcher                  *)

\* Somebody listens on the socket.
Listening == Alive /\ socket = WatcherPid

\* Connected, the request is sent; otherwise the command is started at once.
Exec ==
  /\ ~rpc /\ ~registry
  /\ rpc' = Listening
  /\ resolved' = (resolved \/ ~Listening)
  /\ UNCHANGED <<disk, life, registry, timers, task, scrubbing, second, tools>>

\* What the registry gives a rewrite that begins now
Literals == registry

\* handleLine puts the value into the registry and acknowledges.
Register ==
  /\ rpc
  /\ registry' = TRUE
  /\ rpc' = FALSE /\ resolved' = TRUE
  /\ UNCHANGED <<disk, life, timers, task, scrubbing, second, tools>>

\* After 200 ms the command is started anyway; what was sent is still read.
StopWaiting ==
  /\ rpc /\ ~resolved
  /\ resolved' = TRUE
  /\ UNCHANGED <<disk, life, registry, rpc, timers, task, scrubbing, second, tools>>

----------------------------------------------------------------------------
(* The watcher process *)

\* The system gives the pid of an ended watcher to another program, which ends.
Stranger ==
  /\ pidfile # Null /\ ~(Alive /\ pidfile = WatcherPid)
  /\ reused' = ~reused
  /\ UNCHANGED <<watcher, pidfile, socket, stopper, deaths, twice>>
  /\ UNCHANGED <<disk, knowledge, timers, task, scrubbing, second, tools>>

\* keynv watch start: the pid file names a process that is there, or it does
\* not; kill(pid, 0) does not say which process it is.
Refused == pidfile # Null /\ (reused \/ (Alive /\ pidfile = WatcherPid))

\* A stale pid file is removed; startRpcServer removes what is at the path and
\* listens, or the watcher does without.
StartWatch ==
  /\ watcher \in {"off", "ready"} /\ ~stopper /\ ~Refused
  /\ pidfile' = Null
  /\ socket' \in {WatcherPid, Null}
  /\ watcher' = "starting"
  /\ twice' = (watcher # "off")
  /\ UNCHANGED <<disk, reused, stopper, deaths, knowledge, timers, task, scrubbing,
                 second, tools>>

\* writePidfile; chokidar then reports every file that is there (ignoreInitial:
\* false).
Watch ==
  /\ watcher = "starting"
  /\ pidfile' = WatcherPid
  /\ watcher' = "ready" /\ timers' = Files
  /\ UNCHANGED <<disk, reused, socket, stopper, deaths, twice, knowledge, task,
                 scrubbing, second, tools>>

\* The process is gone, with its registry, its timers, its connections and the
\* rewrites it was running.
ProcessGone ==
  /\ deaths < MaxDeaths /\ Quiet /\ deaths' = deaths + 1
  /\ watcher' = "off" /\ registry' = FALSE /\ timers' = {}
  /\ rpc' = FALSE /\ resolved' = (resolved \/ rpc)
  /\ task' = [s \in Slots |->
                IF Running(s) /\ task[s].pid = WatcherPid THEN Null ELSE task[s]]
  /\ UNCHANGED <<disk, reused, twice, scrubbing, second, tools>>

\* SIGKILL, the signal before there is a handler, the eight seconds of the
\* handler, a power cut
Die == Alive /\ ProcessGone /\ UNCHANGED <<pidfile, socket, stopper>>

\* SIGINT, or SIGTERM from keynv watch stop: stop() drops the debouncers, closes
\* the server and then chokidar, which reports changes until then.
Signal ==
  /\ watcher = "ready" /\ deaths < MaxDeaths /\ Quiet
  /\ watcher' = "closing" /\ timers' = {} /\ socket' = Null
  /\ UNCHANGED <<disk, pidfile, reused, deaths, twice, knowledge, task, scrubbing,
                 second, tools>>

\* removePidfile, and process.exit
ExitWatch ==
  /\ watcher = "closing" /\ ProcessGone
  /\ pidfile' = Null
  /\ UNCHANGED <<socket, stopper>>

\* keynv watch stop: not running, a stale pid file, or SIGTERM, to whatever
\* process has that pid
StopWatch ==
  /\ watcher \in {"off", "ready"} /\ ~stopper /\ pidfile # Null
  /\ \/ ~Refused /\ pidfile' = Null
          /\ UNCHANGED <<watcher, timers, reused, socket, stopper, deaths, twice>>
          /\ UNCHANGED <<disk, knowledge, task, scrubbing, second, tools>>
     \/ Refused /\ ~reused /\ stopper' = TRUE /\ Signal
     \/ reused /\ stopper' = TRUE
          /\ UNCHANGED <<watcher, timers, pidfile, reused, socket, deaths, twice>>
          /\ UNCHANGED <<disk, knowledge, task, scrubbing, second, tools>>

\* It polls until the process is gone (SIGKILL after the timeout is Die, or the
\* end of the stranger).
Stopped ==
  /\ stopper /\ ~Refused
  /\ stopper' = FALSE /\ pidfile' = Null
  /\ UNCHANGED <<disk, watcher, reused, socket, deaths, twice, knowledge, timers, task,
                 scrubbing, second, tools>>

Rewriting(f, pid, literals) ==
  [pc |-> "read", file |-> f, literals |-> literals, text |-> <<>>,
   name |-> <<0, 0>>, pid |-> pid, inode |-> Null]

\* A rewrite begins; it does not matter in which slot.
Begin(t) ==
  \E s \in Slots :
    /\ s = CHOOSE x \in Slots : Running(x) => \A y \in Slots : Running(y)
    /\ ~Running(s)
    /\ task' = [task EXCEPT ![s] = t]

\* The debounce time of f is over: its debouncer is dropped, and whatever
\* rewrites of f are running already, another one begins, with the values that
\* the registry has now.
Fire(f) ==
  /\ f \in timers
  /\ Begin(Rewriting(f, WatcherPid, Literals))
  /\ timers' = timers \ {f}
  /\ failed' = failed \ {f}
  /\ UNCHANGED <<disk, life, knowledge, scrubbing, second, count, late, shared>>

----------------------------------------------------------------------------
(* rewriteFile *)

\* Mutant of Matches: the registered values are not passed on as literals
MatchesPattern(e, literals) == e.text = "pattern"

Matches(e, literals) ==
  e.text = "pattern" \/ (literals /\ e.text \in {"value", "known"})

RedactText(text, literals) ==
  [k \in DOMAIN text |->
     IF Matches(text[k], literals) THEN [text[k] EXCEPT !.text = "redacted"]
                                   ELSE text[k]]

ByScrub(t) == t.pid > MaxDeaths

\* A rewrite that has read has this temporary name.
InUse(name) ==
  \E s \in Slots : Running(s) /\ task[s].pc # "read" /\ task[s].name = name

\* A rewrite ends: it is forgotten but for its result, which scheduleRewrite
\* only logs.
End(s, failures) ==
  /\ task' = [task EXCEPT ![s] = Null]
  /\ failed' = IF ByScrub(task[s]) THEN failed ELSE failed \cup failures

\* stat, readFile and redact; without a match there is nothing to do.
Read(s) ==
  LET t == task[s]
      text == data[path[t.file]]
      redacted == RedactText(text, t.literals)
  IN /\ t.pc = "read"
     /\ \/ /\ redacted = text
           /\ End(s, {})
           /\ UNCHANGED shared
        \/ /\ redacted # text
           /\ task' = [task EXCEPT ![s] =
                         [t EXCEPT !.pc = "open", !.text = redacted,
                                   !.name = <<second, t.pid>>]]
           /\ shared' = (shared \/ InUse(<<second, t.pid>>))
           /\ UNCHANGED failed
     /\ UNCHANGED <<disk, life, knowledge, timers, scrubbing, second, count, late>>

\* "stat-failed", "read-failed"; and keynv scrub leaves a file alone of which
\* it cannot make a backup.
Skip(s) ==
  /\ task[s].pc = "read"
  /\ End(s, {task[s].file})
  /\ UNCHANGED <<disk, life, knowledge, timers, scrubbing, second, count, late, shared>>

Named == {tmp[n] : n \in Names}
Opened == {task[s].inode : s \in {x \in Slots : Running(x)}}

Held == {path[f] : f \in Files} \cup Named \cup Opened

\* Mutant of Open: the file itself is emptied and written again
OpenInPlace(s) ==
  LET t == task[s]
      i == path[t.file]
  IN /\ t.pc = "open"
     /\ data' = [data EXCEPT ![i] = <<>>]
     /\ task' = [task EXCEPT ![s] = [t EXCEPT !.pc = "write", !.inode = i]]
     /\ UNCHANGED <<path, tmp, life, knowledge, timers, scrubbing, second, tools>>

\* open(tmpPath, 'w') creates the file or empties the one of that name.
Open(s) ==
  LET t == task[s]
      opened == IF tmp[t.name] # Null THEN tmp[t.name]
                                      ELSE CHOOSE i \in Inodes \ Held : TRUE
  IN /\ t.pc = "open"
     /\ tmp[t.name] # Null \/ Inodes \ Held # {}
     /\ tmp' = [tmp EXCEPT ![t.name] = opened]
     /\ data' = [data EXCEPT ![opened] = <<>>]
     /\ task' = [task EXCEPT ![s] = [t EXCEPT !.pc = "write", !.inode = opened]]
     /\ UNCHANGED <<path, life, knowledge, timers, scrubbing, second, tools>>

\* What a file holds after text has been written from its start
Overwritten(old, text) ==
  text \o SubSeq(old, Len(text) + 1, Len(old))

\* writeFile, sync and close, on the inode that open returned
Write(s) ==
  LET t == task[s]
  IN /\ t.pc = "write"
     /\ data' = [data EXCEPT ![t.inode] = Overwritten(@, t.text)]
     /\ timers' = timers \cup Changed(t.inode)
     /\ task' = [task EXCEPT ![s] = [t EXCEPT !.pc = "rename", !.inode = Null]]
     /\ UNCHANGED <<path, tmp, life, knowledge, scrubbing, second, tools>>

\* What no name and no open file holds any more is forgotten.
Forget(gone) == [i \in Inodes |-> IF i \in gone THEN <<>> ELSE data[i]]

\* rename(tmpPath, path) moves whatever that name is now; without it, it throws.
Rename(s) ==
  LET t == task[s]
  IN /\ t.pc = "rename" /\ tmp[t.name] # Null
     /\ path' = [path EXCEPT ![t.file] = tmp[t.name]]
     /\ tmp' = [tmp EXCEPT ![t.name] = Null]
     /\ data' = Forget({path[t.file]} \ (Named \cup Opened))
     /\ timers' = timers \cup (IF Watching THEN {t.file} ELSE {})
     /\ End(s, {})
     /\ UNCHANGED <<life, knowledge, scrubbing, second, count, late, shared>>

\* open, writeFile, sync or rename throws; some of the text may be written.
Throw(s) ==
  LET t == task[s]
  IN /\ \/ t.pc \in {"open", "rename"} /\ UNCHANGED <<data, timers>>
        \/ /\ t.pc = "write"
           /\ \E k \in 0..Len(t.text) :
                data' = [data EXCEPT ![t.inode] = Overwritten(@, SubSeq(t.text, 1, k))]
           /\ timers' = timers \cup Changed(t.inode)
     /\ task' = [task EXCEPT ![s] = [t EXCEPT !.pc = "unlink", !.inode = Null]]
     /\ UNCHANGED <<path, tmp, life, knowledge, scrubbing, second, tools>>

\* The clean-up of a rewrite that failed; its result is "skipped", and nothing
\* tries again before the file changes.
Unlink(s) ==
  LET t == task[s]
  IN /\ t.pc = "unlink"
     /\ tmp' = [tmp EXCEPT ![t.name] = Null]
     /\ data' = Forget({tmp[t.name]} \ Opened)
     /\ End(s, {t.file})
     /\ UNCHANGED <<path, life, knowledge, timers, scrubbing, second, count, late, shared>>

Rewrite(s) ==
  /\ Running(s)
  /\ \/ Read(s) \/ Skip(s) \/ Open(s) \/ Write(s) \/ Rename(s)
     \/ Throw(s) \/ Unlink(s)

----------------------------------------------------------------------------
(* keynv scrub *)

\* A match that scanFile counts
Leaks(f) == \E k \in DOMAIN data[path[f]] : Matches(data[path[f]][k], FALSE)

\* Scan all surfaces; without a match, and without consent (a prompt, --yes; a
\* dry run, --json alone), nothing is written.
Scrub ==
  /\ scrub = NoScrub /\ scrubs < MaxScrubs /\ Quiet
  /\ scrubs' = scrubs + 1
  /\ scrub' \in {NoScrub} \cup {s \in {[pc |-> "rewrite", todo |-> Files]} :
                                 \E f \in Files : Leaks(f)}
  /\ UNCHANGED <<disk, life, knowledge, timers, task, second, tools>>

\* Surface after surface and file after file.  A file written to within ten
\* seconds is skipped, as is one that cannot be read.
ScrubFile(f) ==
  /\ scrub.pc = "rewrite" /\ f \in scrub.todo
  /\ \A s \in Slots : Running(s) => ~ByScrub(task[s])
  /\ scrub' = [scrub EXCEPT !.todo = @ \ {f}]
  /\ Begin(Rewriting(f, ScrubPid, FALSE)) \/ UNCHANGED task
  /\ UNCHANGED <<disk, life, knowledge, timers, scrubs, second, tools>>

\* The results are printed; or it is interrupted.
ScrubEnd ==
  /\ scrub.pc = "rewrite"
  /\ scrub' = NoScrub
  /\ task' = [s \in Slots |-> IF Running(s) /\ ByScrub(task[s]) THEN Null ELSE task[s]]
  /\ UNCHANGED <<disk, life, knowledge, timers, scrubs, second, tools>>

----------------------------------------------------------------------------
ProcessNext ==
  \/ StartWatch \/ Watch \/ Die
  \/ (Signal /\ UNCHANGED stopper) \/ ExitWatch
  \/ StopWatch \/ Stopped \/ Stranger
  \/ \E f \in Files : Fire(f)

ScrubNext == Scrub \/ (\E f \in Files : ScrubFile(f)) \/ ScrubEnd

\* Nothing is said of two watchers at a time, nor of what follows after two
\* rewrites had one name: they are not followed further than their end.
WatchNext ==
  \/ /\ ~twice /\ ~shared
     /\ \/ \E f \in Files, text \in Texts \ {"redacted"} : ToolAppend(f, text)
        \/ Tick
        \/ Exec \/ Register \/ StopWaiting
        \/ ProcessNext
        \/ ScrubNext
  \/ \E s \in Slots : Rewrite(s)

WatchSpec == WatchInit /\ [][WatchNext]_watchVars

\* As long as a timer is due, or an await of a rewrite has to end, one of them does.
WatchFairSpec ==
  WatchSpec /\ WF_watchVars((\E f \in Files : Fire(f)) \/ (\E s \in Slots : Rewrite(s)))
----------------------------------------------------------------------------
(* Properties *)

WatchTypeOK ==
  /\ path \in [Files -> Inodes] /\ IsInjective(path)
  /\ tmp \in [Names -> Inodes \cup {Null}]
  /\ DOMAIN data = Inodes
  /\ \A i \in Inodes : \A k \in DOMAIN data[i] : data[i][k] \in Entry
  /\ watcher \in {"off", "starting", "ready", "closing"}
  /\ (rpc \/ registry => Alive)
  /\ timers \subseteq Files /\ (~Alive => timers = {})
  /\ \A s \in Slots : Running(s) =>
       /\ task[s].file \in Files /\ task[s].name \in Names
       /\ task[s].inode # Null <=> task[s].pc = "write"
  /\ second \in 0..MaxSeconds /\ deaths \in 0..MaxDeaths
  /\ count \in 0..MaxEntries /\ late \subseteq 1..count
  /\ reused \in BOOLEAN /\ failed \subseteq Files

Text(f) == data[path[f]]

\* Entry n is in a file.
Present(n) == \E f \in Files : \E k \in DOMAIN Text(f) : Text(f)[k].no = n

\* The "honest gap" of runWatcher is the only one: what is missing from a file
\* was appended between a read and a rename of it, wherever the process died.
OnlyLateLost == \A n \in (1..count) \ late : Present(n)

\* Entry n is as it was appended, with a text of the given ones, in a file
\* that does not wait for its next change because a rewrite of it failed.
Plain(n, texts) ==
  \E f \in Files \ failed : \E k \in DOMAIN Text(f) :
    Text(f)[k].no = n /\ Text(f)[k].text \in texts

\* keynv watch start finds the watcher that its pid file should name.
NotTwice == ~twice

\* What is there of a ready watcher can be found by keynv watch stop and status.
Findable == watcher \in {"ready", "closing"} /\ ~twice => pidfile = WatcherPid

Kept == WatchTypeOK /\ (~shared => OnlyLateLost) /\ NotTwice /\ Findable

\* A watcher that stays up rids the files of all that it can recognise, and
\* of what it has on its own registry, for good, although overlapping rewrites
\* may put an older text back for a while.  Two exceptions: rewrites that share
\* a name, and a file of which a rewrite failed (stat, read, open, write, sync or
\* rename), which nobody tries again before the file changes.
Scrubbed ==
  <>[](watcher = "ready" /\ ~shared) => \A n \in 1..MaxEntries :
     /\ <>[]~Plain(n, {"pattern"})
     /\ <>[](~Plain(n, {"known"}) \/ deaths > 0)
=============================================================================
