--------------------------- MODULE PrivilegedExec ---------------------------
(***************************************************************************)
(* How a secret reaches a command and not the agent that asked for it.     *)
(* `keynv exec` (apps/cli/src/commands/exec.ts, exec/) resolves aliases at *)
(* the server and redeems reference tokens at the local keynv-mcp process  *)
(* (apps/mcp/src), starts the command with the values in its environment   *)
(* and passes what it prints through the streaming redactor                *)
(* (packages/redactor).  The agent sees what exec prints and what the MCP  *)
(* tools answer.                                                           *)
(*                                                                         *)
(* A text is a sequence of pieces.  <<v, 1>> and <<v, 2>> are the halves   *)
(* of a secret value, so that a chunk may end within it; newlines and what *)
(* the redactor puts in are pieces too.  Values are single lines.  The     *)
(* halves of a value in Wide meet within a character of several bytes;     *)
(* <<v, 3>> and <<v, 4>> are such halves with that character marred.       *)
(***************************************************************************)
EXTENDS Integers, Sequences, SequencesExt, FiniteSets, FiniteSetsExt, Functions

CONSTANTS
  Procs,          \* invocations of keynv exec
  Servers,        \* processes of keynv-mcp
  Aliases, Values,
  Patterned,      \* values the pattern bank or the entropy test knows
  Wide,           \* values a chunk may end within a character of
  Specs,          \* how exec may be called, see StartExec
  Tokens,         \* reference tokens, in the order they are issued
  BufferLimit,    \* pieces after which an unterminated line is flushed
  Gone, NoServer,
  MaxChanges, MaxFaults, MaxStarts, MaxWrites

\* What --resolve may say
Options == UNION {Range(spec.resolve) : spec \in Specs}

\* DEFAULT_BUFFER_SIZE, or what the caller gives for it.
ASSUME LimitAssumption == BufferLimit \in Nat \ {0}

\* The file and --via-env name some variables, each by an alias; --resolve is a
\* list of variables with tokens.
ASSUME SpecAssumption ==
  \A spec \in Specs :
    /\ spec.file \in [DOMAIN spec.file -> Aliases] /\ IsFiniteSet(DOMAIN spec.file)
    /\ spec.via \in [DOMAIN spec.via -> Aliases] /\ IsFiniteSet(DOMAIN spec.via)
    /\ spec.resolve \in Seq(Options)

VARIABLES
  vault,          \* alias |-> value or Gone, as this user may read it
  up,             \* server |-> it runs
  store,          \* server |-> token |-> [alias, consumed]
  bound,          \* the server the socket path leads to
  issued,         \* token |-> its alias, for all tokens ever issued
  calls,          \* <<proc, name>> |-> a redemption in progress
  runs,           \* proc |-> the invocation
  told,           \* values the agent has been shown whole
  spent,          \* tokens for which a value has been answered
  changes, faults, starts, writes

vars == <<vault, up, store, bound, issued, calls, runs, told, spent,
          changes, faults, starts, writes>>
broker == <<up, store, bound, issued, starts>>

\* The function f, but x goes to y.
With(f, x, y) == [z \in DOMAIN f \cup {x} |-> IF z = x THEN y ELSE f[z]]

Nl   == <<"nl", 0>>
Mask == <<"redacted", 0>>
Whole(v) == <<<<v, 1>>, <<v, 2>>>>

Shown(text) ==
  {v \in Values : \E i \in 1 .. Len(text) - 1 :
                    text[i] = <<v, 1>> /\ text[i + 1] = <<v, 2>>}

-----------------------------------------------------------------------------
(* The redactor. *)

(* Every occurrence of a literal and of what a pattern knows is replaced.  *)
Redact(text, literals) ==
  LET hit(i) == \E v \in literals \cup Patterned, h \in 1 .. 2 :
                  /\ text[i] = <<v, h>>
                  /\ i + 3 - 2 * h \in DOMAIN text
                  /\ text[i + 3 - 2 * h] = <<v, 3 - h>>
  IN [i \in DOMAIN text |-> IF hit(i) THEN Mask ELSE text[i]]

RedactPatterns(text, literals) == Redact(text, {})

(* What the drivers say of a failed connection may hold the value.         *)
SanitizeResult(text, v) == Redact(text, {v})

(* chunk.toString: a character whose bytes came in two chunks is lost.     *)
Decoded(chunk) ==
  LET marred(i) == /\ chunk[i][1] \in Wide
                   /\ \/ i = 1 /\ chunk[i][2] = 2
                      \/ i = Len(chunk) /\ chunk[i][2] = 1
  IN [i \in DOMAIN chunk |-> IF marred(i) THEN <<chunk[i][1], chunk[i][2] + 2>> ELSE chunk[i]]

LineLength(text) ==
  LET ends == {i \in DOMAIN text : text[i] = Nl}
  IN IF ends = {} THEN 0 ELSE Max(ends)

FlushBufferUnread(buf, literals) == buf
FlushBufferThroughRedactor(buf, literals) == Redact(buf, literals)

TransformChunks(buf, chunk, literals) ==
  [out |-> Redact(buf \o Decoded(chunk), literals), buf |-> <<>>, cut |-> FALSE]

(* transform: the complete lines go out redacted, the rest is kept until   *)
(* its line ends, or goes out as well when it has grown to the limit.      *)
Transform(buf, chunk, literals) ==
  LET text == buf \o Decoded(chunk)
      n    == LineLength(text)
      rest == SubSeq(text, n + 1, Len(text))
  IN IF Len(rest) >= BufferLimit
     THEN [out |-> Redact(SubSeq(text, 1, n), literals)
                   \o FlushBufferThroughRedactor(rest, literals),
           buf |-> <<>>, cut |-> TRUE]
     ELSE [out |-> Redact(SubSeq(text, 1, n), literals), buf |-> rest, cut |-> FALSE]

-----------------------------------------------------------------------------
(* keynv-mcp. *)

(* A new process takes the socket path over, also from one that runs: the  *)
(* tokens are in the memory of the process that issued them.               *)
StartMcp ==
  /\ starts < MaxStarts
  /\ \E s \in Servers :
       /\ ~up[s]
       /\ up' = [up EXCEPT ![s] = TRUE]
       /\ store' = [store EXCEPT ![s] = <<>>]
       /\ bound' = s
  /\ starts' = starts + 1
  /\ UNCHANGED <<vault, issued, calls, runs, told, spent, changes, faults, writes>>

(* It ends with the agent: its tokens and what it was doing are gone, the  *)
(* socket file is left behind.                                             *)
StopMcp ==
  /\ faults < MaxFaults
  /\ \E s \in Servers :
       /\ up[s]
       /\ up' = [up EXCEPT ![s] = FALSE]
       /\ store' = [store EXCEPT ![s] = <<>>]
       /\ calls' = Restrict(calls, {k \in DOMAIN calls : calls[k].server # s})
  /\ faults' = faults + 1
  /\ UNCHANGED <<vault, bound, issued, runs, told, spent, changes, starts, writes>>

(* keynv.use_secret: the alias is listed for this user, a token is bound   *)
(* to it.                                                                  *)
IssueReferenceToken ==
  \E s \in Servers, a \in Aliases :
    LET t == Len(issued) + 1
    IN /\ up[s]
       /\ t \in Tokens
       /\ vault[a] # Gone
       /\ issued' = Append(issued, a)
       /\ store' = [store EXCEPT ![s] = With(@, t, [alias |-> a, consumed |-> FALSE])]
       /\ UNCHANGED <<vault, up, bound, calls, runs, told, spent, changes, faults, starts, writes>>

(* Sixty seconds after its issue a token is gone, whatever it was.         *)
ScheduleEviction ==
  \E s \in Servers : \E t \in DOMAIN store[s] :
    /\ store' = [store EXCEPT ![s] = Restrict(@, DOMAIN @ \ {t})]
    /\ UNCHANGED <<vault, up, bound, issued, calls, runs, told, spent,
                   changes, faults, starts, writes>>

(* keynv.test_connection reads the value itself and answers with what the  *)
(* tester says, cleaned.                                                   *)
TestConnection ==
  \E s \in Servers, a \in Aliases :
    /\ up[s]
    /\ vault[a] # Gone
    /\ told' = told \cup Shown(SanitizeResult(Whole(vault[a]), vault[a]))
    /\ UNCHANGED <<vault, broker, calls, runs, spent, changes, faults, writes>>

PeekReferenceTokenAny(s, t) == t \in DOMAIN store[s]

PeekReferenceToken(s, t) == t \in DOMAIN store[s] /\ ~store[s][t].consumed

(* What becomes of a redemption; nobody reads the answer when exec has     *)
(* given up.                                                               *)
Reply(k, step) ==
  IF step # "fetch" /\ runs[k[1]].step # "waiting" THEN Restrict(calls, DOMAIN calls \ {k})
  ELSE [calls EXCEPT ![k].step = step]

(* resolveTokenToValue up to the first request.  A token that is not known,*)
(* not fresh or used is refused.                                           *)
PeekStep(c) == IF PeekReferenceToken(c.server, c.token) THEN "fetch" ELSE "refused"

HandleLineConsuming(k) ==
  LET c == calls[k]
  IN /\ c.step = "sent"
     /\ calls' = Reply(k, PeekStep(c))
     /\ store' = IF PeekStep(c) = "fetch" THEN [store EXCEPT ![c.server][c.token].consumed = TRUE]
                 ELSE store
     /\ UNCHANGED <<vault, up, bound, issued, starts, runs, told, spent, changes, faults, writes>>

HandleLine(k) ==
  LET c == calls[k]
  IN /\ c.step = "sent"
     /\ calls' = Reply(k, PeekStep(c))
     /\ UNCHANGED <<vault, broker, runs, told, spent, changes, faults, writes>>

(* The server reads the value, or does not answer, or not with a value.    *)
FetchValue(k) ==
  LET c == calls[k]
      v == vault[issued[c.token]]
  IN /\ c.step = "fetch"
     /\ \/ /\ v # Gone
           /\ calls' = [calls EXCEPT ![k].step = "fetched", ![k].value = v]
           /\ UNCHANGED faults
        \/ /\ v = Gone \/ faults < MaxFaults
           /\ calls' = Reply(k, "refused")
           /\ faults' = IF v = Gone THEN faults ELSE faults + 1
     /\ UNCHANGED <<vault, broker, runs, told, spent, changes, writes>>

ConsumeReferenceToken(s, t) ==
  IF t \in DOMAIN store[s] THEN [store EXCEPT ![s][t].consumed = TRUE] ELSE store

(* The answer has arrived: the token is used up and the value goes back,   *)
(* whether or not exec still listens.                                      *)
AnswerValue(k) ==
  LET c == calls[k]
  IN /\ c.step = "fetched"
     /\ store' = ConsumeReferenceToken(c.server, c.token)
     /\ calls' = Reply(k, "answered")
     /\ spent' = spent \cup {c.token}
     /\ UNCHANGED <<vault, up, bound, issued, runs, told, changes, faults, starts, writes>>

-----------------------------------------------------------------------------
(* keynv exec.  A spec says what it is called with: `file`, the names of   *)
(* .keynv.env and their aliases; `via`, those of --via-env; `resolve`, the *)
(* names and tokens of --resolve in order; `bad`, that an option or the    *)
(* file is malformed or missing; `loggedIn`; `noRedact`.                   *)

NotRun ==
  [step |-> "idle", spec |-> <<>>, todo |-> <<>>, read |-> <<>>, env |-> <<>>,
   literals |-> {}, since |-> {}, pipe |-> <<>>, queue |-> <<>>, buf |-> <<>>,
   last |-> <<>>, late |-> {}]

(* What finally and clearSensitiveReferences leave of an invocation.       *)
Ended == [NotRun EXCEPT !.step = "ended"]

Become(p, r) == runs' = [runs EXCEPT ![p] = r]
Exit(p) == Become(p, Ended)
Elsewhere == UNCHANGED <<vault, broker, spent, changes>>

AliasesOf(spec) == SetToSeq(Range(spec.file) \cup Range(spec.via))
Truths == {<<a, vault[a]>> : a \in Aliases}

FileOverOption(spec, read) ==
  LET over(n) == IF n \in DOMAIN spec.file THEN spec.file[n] ELSE spec.via[n]
  IN [n \in DOMAIN spec.via \cup DOMAIN spec.file |-> read[over(n)]]

(* The file first, --via-env over it. *)
InjectedEnv(spec, read) ==
  LET over(n) == IF n \in DOMAIN spec.via THEN spec.via[n] ELSE spec.file[n]
  IN [n \in DOMAIN spec.via \cup DOMAIN spec.file |-> read[over(n)]]

InjectEnv(r) ==
  IF r.todo # <<>> THEN r
  ELSE [r EXCEPT !.step = "redeem", !.env = InjectedEnv(r.spec, r.read), !.read = <<>>,
                 !.literals = Range(r.read), !.todo = r.spec.resolve]

(* Options and files are looked at first; a session is needed only when    *)
(* there is an alias to resolve.                                           *)
Execute(p) ==
  /\ runs[p].step = "idle"
  /\ \E spec \in Specs :
       LET r == [NotRun EXCEPT !.step = "aliases", !.spec = spec, !.since = Truths,
                              !.todo = AliasesOf(spec)]
       IN /\ \A i \in DOMAIN spec.resolve : spec.resolve[i].token \in DOMAIN issued
          /\ Become(p,
               IF spec.bad \/ (r.todo # <<>> /\ ~spec.loggedIn) THEN Ended
               ELSE InjectEnv(r))
  /\ Elsewhere /\ UNCHANGED <<calls, faults, told, writes>>

(* resolveAllAliases: one alias after the other, the first that fails ends *)
(* exec before anything is started.                                        *)
ResolveAlias(p) ==
  LET r == runs[p]
      v == vault[Head(r.todo)]
  IN /\ r.step = "aliases"
     /\ \/ /\ v # Gone
           /\ Become(p, InjectEnv([r EXCEPT !.read = With(@, Head(r.todo), v), !.todo = Tail(@)]))
           /\ UNCHANGED faults
        \/ /\ v = Gone \/ faults < MaxFaults
           /\ Exit(p)
           /\ faults' = IF v = Gone THEN faults ELSE faults + 1
     /\ Elsewhere /\ UNCHANGED <<calls, told, writes>>

(* resolveReferenceToken: a connection to whoever has the socket path.     *)
ResolveReferenceToken(p) ==
  LET r == runs[p]
      c == [server |-> bound, token |-> Head(r.todo).token, step |-> "sent",
            value |-> Gone, again |-> Head(r.todo).token \in spent]
  IN /\ r.step = "redeem"
     /\ r.todo # <<>>
     /\ IF bound # NoServer /\ up[bound]
        THEN /\ calls' = With(calls, <<p, Len(r.todo)>>, c)
             /\ Become(p, [r EXCEPT !.step = "waiting"])
        ELSE Exit(p) /\ UNCHANGED calls
     /\ Elsewhere /\ UNCHANGED <<faults, told, writes>>

ReceiveAnswer(p) ==
  LET r == runs[p]
      k == <<p, Len(r.todo)>>
      c == calls[k]
  IN /\ r.step = "waiting"
     /\ k \in DOMAIN calls
     /\ \/ /\ c.step = "answered"
           /\ Become(p, [r EXCEPT !.step = "redeem", !.todo = Tail(@),
                           !.env = With(@, Head(r.todo).name, c.value),
                           !.literals = @ \cup {c.value}])
        \/ c.step = "refused" /\ Exit(p)
     /\ calls' = Restrict(calls, DOMAIN calls \ {k})
     /\ Elsewhere /\ UNCHANGED <<faults, told, writes>>

(* Five seconds without an answer, also when keynv-mcp has gone.  What it  *)
(* was doing for exec goes on.                                             *)
GiveUp(p) ==
  /\ runs[p].step = "waiting"
  /\ <<p, Len(runs[p].todo)>> \in DOMAIN calls => faults < MaxFaults
  /\ faults' = IF <<p, Len(runs[p].todo)>> \in DOMAIN calls THEN faults + 1 ELSE faults
  /\ Exit(p)
  /\ Elsewhere /\ UNCHANGED <<calls, told, writes>>

(* An unreadable --timeout is found out only now; the command may not      *)
(* exist.                                                                  *)
SpawnPrivileged(p) ==
  LET r == runs[p]
  IN /\ r.step = "redeem"
     /\ r.todo = <<>>
     /\ \/ Become(p, [r EXCEPT !.step = "running", !.since = {}])
        \/ Exit(p)
     /\ Elsewhere /\ UNCHANGED <<calls, faults, told, writes>>

(* The command prints its values, whole lines or not.                      *)
ChildWrites(p) ==
  LET r == runs[p]
  IN /\ r.step = "running"
     /\ writes < MaxWrites
     /\ \E v \in Range(r.env), end \in {<<>>, <<Nl>>} :
          Become(p, [r EXCEPT !.pipe = @ \o Whole(v) \o end])
     /\ writes' = writes + 1
     /\ Elsewhere /\ UNCHANGED <<calls, faults, told>>

(* pipe: the redactor is handed what the command printed in chunks of any  *)
(* length; they wait while whoever reads exec's output is slow.            *)
ReadChunk(p) ==
  LET r == runs[p]
  IN /\ r.pipe # <<>>
     /\ \E n \in DOMAIN r.pipe :
          Become(p, [r EXCEPT !.pipe = SubSeq(@, n + 1, Len(@)),
                              !.queue = Append(@, SubSeq(r.pipe, 1, n))])
     /\ Elsewhere /\ UNCHANGED <<calls, faults, told, writes>>

Forward(r, chunk) ==
  IF r.spec.noRedact THEN [out |-> chunk, buf |-> <<>>, cut |-> FALSE]
  ELSE Transform(r.buf, chunk, r.literals)

(* What reaches the agent; of what went before only the last piece can     *)
(* still matter, and none where a line was cut at the limit.  Not counted  *)
(* are the output under --no-redact, which is the user's wish, and values  *)
(* that were late.                                                         *)
LastPiece(r, t) ==
  IF t.cut THEN <<>> ELSE IF t.out = <<>> THEN r.last ELSE <<Last(t.out)>>
Tell(r, out) ==
  told' = IF r.spec.noRedact THEN told ELSE told \cup (Shown(r.last \o out) \ r.late)

TransformChunk(p) ==
  LET r == runs[p]
      t == Forward(r, Head(r.queue))
  IN /\ r.queue # <<>>
     /\ Become(p, [r EXCEPT !.queue = Tail(@), !.buf = t.buf, !.last = LastPiece(r, t)])
     /\ Tell(r, t.out)
     /\ Elsewhere /\ UNCHANGED <<calls, faults, writes>>

(* It ends by itself or is killed at the timeout; its pipes may still hold *)
(* what it printed.                                                        *)
ChildExits(p) ==
  /\ runs[p].step = "running"
  /\ Become(p, [runs[p] EXCEPT !.step = "exited", !.env = <<>>])
  /\ Elsewhere /\ UNCHANGED <<calls, faults, told, writes>>

ClearOnExit(r) == r.step = "exited"
PipesClosed(r) == r.step = "exited" /\ r.pipe = <<>>

(* `close`: the pipes have ended and the references are cleared, also for  *)
(* a redactor that has not come to all it was handed.  Of the values in    *)
(* that, only those of a known pattern are still recognised.               *)
Close(p) ==
  LET r == runs[p]
      waiting == Range(r.buf) \cup UNION {Range(r.queue[i]) : i \in DOMAIN r.queue}
  IN /\ PipesClosed(r)
     /\ Become(p, [r EXCEPT !.step = "closed", !.literals = {},
                            !.late = {v \in Values \ Patterned : \E x \in waiting : x[1] = v}])
     /\ Elsewhere /\ UNCHANGED <<calls, faults, told, writes>>

(* flush: what is left of a line goes out at the end, before or after the  *)
(* references are cleared.                                                 *)
Flush(p) ==
  LET r == runs[p]
  IN /\ r.pipe = <<>> /\ r.queue = <<>>
     /\ (r.step = "exited" /\ r.buf # <<>>) \/ r.step = "closed"
     /\ Tell(r, FlushBufferThroughRedactor(r.buf, r.literals))
     /\ IF r.step = "closed" THEN Exit(p)
        ELSE Become(p, [r EXCEPT !.buf = <<>>, !.last = <<>>])
     /\ Elsewhere /\ UNCHANGED <<calls, faults, writes>>

-----------------------------------------------------------------------------
(* Others rotate, delete or recreate secrets, or change who may read them. *)
ChangeSecret ==
  /\ changes < MaxChanges
  /\ \E a \in Aliases, v \in Values \cup {Gone} :
       /\ vault[a] # v
       /\ vault' = [vault EXCEPT ![a] = v]
       /\ runs' = [p \in Procs |->
                     IF runs[p].step \notin {"aliases", "redeem", "waiting"} THEN runs[p]
                     ELSE [runs[p] EXCEPT !.since = @ \cup {<<a, v>>}]]
  /\ changes' = changes + 1
  /\ UNCHANGED <<broker, calls, told, spent, faults, writes>>

Init ==
  /\ vault \in [Aliases -> Values]
  /\ up = [s \in Servers |-> FALSE]
  /\ store = [s \in Servers |-> <<>>]
  /\ bound = NoServer
  /\ issued = <<>>
  /\ calls = <<>>
  /\ runs = [p \in Procs |-> NotRun]
  /\ told = {}
  /\ spent = {}
  /\ changes = 0 /\ faults = 0 /\ starts = 0 /\ writes = 0

Next ==
  \/ StartMcp \/ StopMcp \/ IssueReferenceToken \/ ScheduleEviction \/ TestConnection
  \/ \E k \in DOMAIN calls : HandleLine(k) \/ FetchValue(k) \/ AnswerValue(k)
  \/ \E p \in Procs :
       \/ Execute(p) \/ ResolveAlias(p)
       \/ ResolveReferenceToken(p) \/ ReceiveAnswer(p) \/ GiveUp(p)
       \/ SpawnPrivileged(p) \/ ChildWrites(p) \/ ReadChunk(p) \/ TransformChunk(p)
       \/ ChildExits(p) \/ Close(p) \/ Flush(p)
  \/ ChangeSecret

Spec == Init /\ [][Next]_vars

-----------------------------------------------------------------------------
TypeOK ==
  /\ vault \in [Aliases -> Values \cup {Gone}]
  /\ issued \in Seq(Aliases)
  /\ \A s \in Servers : DOMAIN store[s] \subseteq DOMAIN issued
  /\ bound \in Servers \cup {NoServer}
  /\ \A k \in DOMAIN calls : calls[k].step \in {"sent", "fetch", "fetched", "answered", "refused"}
  /\ \A p \in Procs : runs[p].step \in
       {"idle", "aliases", "redeem", "waiting", "running", "exited", "closed", "ended"}
  /\ \A p \in Procs : Len(runs[p].buf) < BufferLimit

(* The agent is never told a value whole: neither what a command prints    *)
(* nor what a tool answers shows one, however the output is cut into       *)
(* chunks and whenever the command ends (spawnPrivileged,                  *)
(* createRedactStream, sanitizeResult).  Excepted are --no-redact, a value *)
(* that the limit of the line buffer cuts in two, and one of no known      *)
(* pattern that still waits for the redactor when the command's pipes have *)
(* closed; a character cut by a chunk mars its value.                      *)
AgentNeverTold == told = {}

(* A command starts with every variable it was to have, each with a value  *)
(* its alias had at some moment since exec was called, --resolve before    *)
(* --via-env before the file; otherwise it does not start.                 *)
StartsWithItsValues ==
  [][\A p \in Procs : runs[p].step # "running" /\ runs'[p].step = "running" =>
       LET r == runs[p]
           named(n) == {i \in DOMAIN r.spec.resolve : r.spec.resolve[i].name = n}
           meant(n) == IF named(n) # {} THEN issued[r.spec.resolve[Max(named(n))].token]
                       ELSE IF n \in DOMAIN r.spec.via THEN r.spec.via[n]
                       ELSE r.spec.file[n]
           names == DOMAIN r.spec.file \cup DOMAIN r.spec.via
                    \cup {r.spec.resolve[i].name : i \in DOMAIN r.spec.resolve}
       IN /\ DOMAIN runs'[p].env = names
          /\ \A n \in names : <<meant(n), runs'[p].env[n]>> \in r.since]_vars

(* A token that has given its value never gives one to a redemption that   *)
(* begins afterwards (consumeReferenceToken).                              *)
SpentTokensAreRefused ==
  \A k \in DOMAIN calls : calls[k].again => calls[k].step \notin {"fetched", "answered"}

(* A redemption that fails does not use the token up: as long as no value  *)
(* has been answered for it, it can be tried again (resolveTokenToValue).  *)
FailureKeepsToken ==
  \A s \in Servers : \A t \in DOMAIN store[s] : store[s][t].consumed => t \in spent

(* What the state of keynv-mcp may look like between two of its steps: a    *)
(* token is good for one value, and no less.                               *)
BrokerConsistent == TypeOK /\ SpentTokensAreRefused /\ FailureKeepsToken
=============================================================================
