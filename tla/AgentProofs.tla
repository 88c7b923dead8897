----------------------------- MODULE AgentProofs -----------------------------
(***************************************************************************)
(* Proofs about what reaches an agent: the values that commands are run    *)
(* with (PrivilegedExec), and the files it reads back (Watcher).           *)
(*                                                                         *)
(* PrivilegedExec: the agent is told no value, a command starts with all   *)
(* its variables, each with a value it had since exec was called, and a    *)
(* token is good for one value, and no less.                               *)
(*                                                                         *)
(* Watcher: scrubbing costs no entry but those appended between a read and *)
(* the rename that follows, unless two rewrites shared a temporary name.   *)
(* Of every entry the inductive invariant says that it is in its file and  *)
(* in whatever a running rewrite may put in the file's place.              *)
(***************************************************************************)
EXTENDS PrivilegedExec, Watcher,
        FiniteSetTheorems, SequenceTheorems, WellFoundedInduction, TLAPS

-----------------------------------------------------------------------------
(* PrivilegedExec: the inductive invariant *)

Steps == {"idle", "aliases", "redeem", "waiting", "running", "exited", "closed", "ended"}
Variables == {o.name : o \in Options}
             \cup UNION {DOMAIN spec.file \cup DOMAIN spec.via : spec \in Specs}
Pieces == {Nl, Mask} \cup (Values \X (1 .. 4))
Readings == UNION {[S -> Values] : S \in SUBSET Aliases}
Envs == UNION {[S -> Values] : S \in SUBSET Variables}

Runs ==
  [step: Steps, spec: Specs \cup {<<>>}, todo: Seq(Aliases) \cup Seq(Options),
   read: Readings, env: Envs, literals: SUBSET Values,
   since: SUBSET (Aliases \X (Values \cup {Gone})),
   pipe: Seq(Pieces), queue: Seq(Seq(Pieces)), buf: Seq(Pieces), last: Seq(Pieces),
   late: SUBSET Values]

Calls ==
  [server: Servers, token: Nat, step: {"sent", "fetch", "fetched", "answered", "refused"},
   value: Values \cup {Gone}, again: BOOLEAN]

Types ==
  /\ vault \in [Aliases -> Values \cup {Gone}]
  /\ up \in [Servers -> BOOLEAN]
  /\ bound \in Servers \cup {NoServer}
  /\ issued \in Seq(Aliases)
  /\ spent \subseteq DOMAIN issued
  /\ DOMAIN runs = Procs
  /\ \A p \in Procs : runs[p] \in Runs
  /\ \A k \in DOMAIN calls : k \in Procs \X Nat /\ calls[k] \in Calls

\* The tokens: each is in the store of at most one server, and is consumed there
\* exactly if a value was answered for it.
StoresOK ==
  /\ DOMAIN store = Servers
  /\ \A s \in Servers : \A t \in DOMAIN store[s] :
       /\ t \in DOMAIN issued
       /\ store[s][t] \in [alias: Aliases, consumed: BOOLEAN]
       /\ store[s][t].consumed <=> t \in spent
       /\ \A z \in Servers \ {s} : t \notin DOMAIN store[z]

\* The redemptions: one that began after its token was spent is not let past the
\* look at the token; one that was let past is about a token of its own server.
CallsOK ==
  \A k \in DOMAIN calls :
    /\ calls[k].token \in DOMAIN issued
    /\ calls[k].again => calls[k].token \in spent /\ calls[k].step \in {"sent", "refused"}
    /\ calls[k].step \in {"fetch", "fetched"} =>
         \A s \in Servers \ {calls[k].server} : calls[k].token \notin DOMAIN store[s]

\* A run that still gathers values knows what every alias has meant since.
Asked(p) ==
  runs[p].step \in {"aliases", "redeem", "waiting"} =>
    /\ runs[p].spec \in Specs
    /\ \A a \in Aliases : <<a, vault[a]>> \in runs[p].since
    /\ \A i \in DOMAIN runs[p].spec.resolve : runs[p].spec.resolve[i].token \in DOMAIN issued

\* What it has read is true since, and what it has not is still to do.
Reading(p) ==
  runs[p].step = "aliases" =>
    /\ runs[p].todo \in Seq(Aliases) /\ runs[p].todo # <<>>
    /\ \A n \in DOMAIN runs[p].spec.file :
         \/ runs[p].spec.file[n] \in DOMAIN runs[p].read
         \/ \E i \in DOMAIN runs[p].todo : runs[p].todo[i] = runs[p].spec.file[n]
    /\ \A n \in DOMAIN runs[p].spec.via :
         \/ runs[p].spec.via[n] \in DOMAIN runs[p].read
         \/ \E i \in DOMAIN runs[p].todo : runs[p].todo[i] = runs[p].spec.via[n]
    /\ \A a \in DOMAIN runs[p].read : <<a, runs[p].read[a]>> \in runs[p].since

\* Of --resolve the first so many are done.
Done(p) == Len(runs[p].spec.resolve) - Len(runs[p].todo)

Redeeming(p) ==
  runs[p].step \in {"redeem", "waiting"} =>
    /\ runs[p].todo \in Seq(Options)
    /\ Done(p) >= 0
    /\ \A i \in DOMAIN runs[p].todo : runs[p].todo[i] = runs[p].spec.resolve[Done(p) + i]
    /\ DOMAIN runs[p].env =
         DOMAIN runs[p].spec.file \cup DOMAIN runs[p].spec.via
         \cup {runs[p].spec.resolve[i].name : i \in 1 .. Done(p)}

\* A variable has what the last of --resolve with its name means; without one,
\* what --via-env means, and without either what the file means.
FromTokens(p) ==
  runs[p].step \in {"redeem", "waiting"} =>
    \A i \in 1 .. Done(p) :
      (\A m \in i + 1 .. Done(p) : runs[p].spec.resolve[m].name # runs[p].spec.resolve[i].name)
        => <<issued[runs[p].spec.resolve[i].token],
             runs[p].env[runs[p].spec.resolve[i].name]>> \in runs[p].since

FromAliases(p) ==
  runs[p].step \in {"redeem", "waiting"} =>
    \A n \in DOMAIN runs[p].spec.via \cup DOMAIN runs[p].spec.file :
      (\A i \in 1 .. Done(p) : runs[p].spec.resolve[i].name # n)
        => <<IF n \in DOMAIN runs[p].spec.via THEN runs[p].spec.via[n] ELSE runs[p].spec.file[n],
             runs[p].env[n]>> \in runs[p].since

\* A run has a redemption in progress only while it waits for one, that of the
\* next token, and what the redemption brings is true since.
Calling(p) ==
  /\ runs[p].step \in {"idle", "aliases", "redeem"} => \A k \in DOMAIN calls : k[1] # p
  /\ runs[p].step = "waiting" =>
       /\ runs[p].todo # <<>>
       /\ \A k \in DOMAIN calls : k[1] = p =>
            /\ k[2] = Len(runs[p].todo)
            /\ calls[k].token = runs[p].todo[1].token
            /\ calls[k].step \in {"fetched", "answered"} =>
                 /\ calls[k].value \in Values
                 /\ <<issued[calls[k].token], calls[k].value>> \in runs[p].since

\* Of a text the redactor knows every value, or the value is late.
Known(r, text) ==
  \A i \in DOMAIN text : text[i] = Nl \/ text[i][1] \in r.literals \cup Patterned \cup r.late

\* What a command may print is known, and what was passed on last was the end of
\* a line.
Hidden(p) ==
  LET r == runs[p] IN
  /\ \A n \in DOMAIN r.env : r.env[n] \in r.literals
  /\ Known(r, r.pipe) /\ Known(r, r.buf)
  /\ \A i \in DOMAIN r.queue : Known(r, r.queue[i])
  /\ Len(r.buf) < BufferLimit
  /\ r.step \notin {"running", "exited", "closed"} =>
       r.pipe = <<>> /\ r.queue = <<>> /\ r.buf = <<>> /\ r.last = <<>> /\ r.late = {}
  /\ r.step \in {"exited", "closed"} => r.env = <<>>
  /\ r.last \in {<<>>, <<Nl>>} \/ r.spec.noRedact

RunOK(p) ==
  /\ Asked(p) /\ Reading(p) /\ Redeeming(p)
  /\ FromTokens(p) /\ FromAliases(p) /\ Calling(p) /\ Hidden(p)
RunsOK == \A p \in Procs : RunOK(p)

IInv == Types /\ StoresOK /\ CallsOK /\ RunsOK /\ told = {}


-----------------------------------------------------------------------------
(* Facts about the operators. *)

\* A non-empty set of positions has a last one.
LEMMA LastPosition ==
  ASSUME NEW n \in Nat, NEW S \in SUBSET (1 .. n), S # {}
  PROVE  Max(S) \in S /\ \A i \in S : i <= Max(S)
<1> DEFINE T == {n - i : i \in S}
<1>1. T \subseteq Nat /\ T # {}
  OBVIOUS
<1>2. PICK t \in T : \A u \in T : <<u, t>> \notin OpToRel(<, Nat)
  <2> HIDE DEF T
  <2> QED
    BY <1>1, NatLessThanWellFounded, WFMin
<1>3. PICK m \in S : t = n - m
  OBVIOUS
<1>4. \A i \in S : i <= m
  <2> TAKE i \in S
  <2>1. n - i \in T /\ n - i \in Nat /\ t \in Nat
    BY <1>1
  <2>2. ~(n - i < t)
    <3> HIDE DEF T
    <3> QED
      BY <1>2, <2>1 DEF OpToRel
  <2> QED
    BY <1>3, <2>2
<1>5. \E x \in S : \A y \in S : x >= y
  BY <1>4
<1> QED
  BY <1>5 DEF Max

\* SetToSeq lists the elements of a finite set.
LEMMA Listed ==
  ASSUME NEW S, IsFiniteSet(S)
  PROVE  /\ SetToSeq(S) \in Seq(S)
         /\ \A a \in S : \E i \in DOMAIN SetToSeq(S) : SetToSeq(S)[i] = a
<1> DEFINE n == Cardinality(S)
<1>1. n \in Nat /\ ExistsBijection(1 .. n, S)
  BY FS_CardinalityType
<1>2. PICK f \in Bijection(1 .. n, S) : TRUE
  BY <1>1 DEF ExistsBijection
<1>3. f \in [1 .. n -> S] /\ IsInjective(f)
  BY <1>2 DEF Bijection, Injection, IsInjective
<1>4. SetToSeq(S) \in [1 .. n -> S] /\ IsInjective(SetToSeq(S))
  BY <1>3 DEF SetToSeq
<1> DEFINE g == SetToSeq(S)
<1> HIDE DEF n, g
<1>5. g \in Injection(1 .. n, S)
  BY <1>4 DEF Injection, IsInjective, g
<1>6. Cardinality(1 .. n) = n
  BY <1>1, FS_Interval
<1>7. g \in Surjection(1 .. n, S)
  BY <1>5, <1>6, FS_Injection DEF n
<1> QED
  BY <1>1, <1>4, <1>7 DEF Surjection, g

\* The head of a list, and what is left of it
LEMMA Rest ==
  ASSUME NEW S, NEW q \in Seq(S), q # <<>>
  PROVE  /\ Head(q) = q[1] /\ Head(q) \in S
         /\ Tail(q) \in Seq(S) /\ Len(Tail(q)) = Len(q) - 1
         /\ \A i \in 1 .. Len(q) - 1 : Tail(q)[i] = q[i + 1]
         /\ Len(q) \in Nat \ {0}
OBVIOUS

\* What goes out in whole lines is cut at the end of a line.
LEMMA LinesEnd ==
  ASSUME NEW text \in Seq(Pieces)
  PROVE  /\ LineLength(text) \in 0 .. Len(text)
         /\ LineLength(text) > 0 => text[LineLength(text)] = Nl
<1> DEFINE ends == {i \in DOMAIN text : text[i] = Nl}
<1>1. CASE ends = {}
  BY <1>1 DEF LineLength
<1>2. CASE ends # {}
  <2>1. Len(text) \in Nat /\ ends \in SUBSET (1 .. Len(text))
    OBVIOUS
  <2>2. Max(ends) \in ends
    <3> HIDE DEF ends
    <3> QED
      BY <1>2, <2>1, LastPosition
  <2>3. LineLength(text) = Max(ends)
    BY <1>2 DEF LineLength
  <2> QED
    BY <2>1, <2>2, <2>3
<1> QED
  BY <1>1, <1>2

\* Of a text only what the redactor does not know comes out.
LEMMA Redacted ==
  ASSUME NEW text \in Seq(Pieces), NEW L, NEW U,
         \A i \in DOMAIN text : text[i] = Nl \/ text[i][1] \in L \cup Patterned \cup U
  PROVE  /\ Redact(text, L) \in Seq(Pieces)
         /\ Len(Redact(text, L)) = Len(text)
         /\ \A i \in 1 .. Len(text) : text[i] = Nl => Redact(text, L)[i] = Nl
         /\ Shown(Redact(text, L)) \subseteq U
<1> DEFINE hit(i) == \E v \in L \cup Patterned, h \in 1 .. 2 :
                       /\ text[i] = <<v, h>>
                       /\ i + 3 - 2 * h \in DOMAIN text
                       /\ text[i + 3 - 2 * h] = <<v, 3 - h>>
           out == Redact(text, L)
<1>1. out = [i \in 1 .. Len(text) |-> IF hit(i) THEN Mask ELSE text[i]]
  <2>1. out = [i \in DOMAIN text |-> IF hit(i) THEN Mask ELSE text[i]]
    BY Zenon DEF Redact
  <2>2. DOMAIN text = 1 .. Len(text)
    OBVIOUS
  <2> HIDE DEF hit, out
  <2> QED
    BY <2>1, <2>2
<1>2. \A i \in 1 .. Len(text) : text[i] \in Pieces /\ Mask \in Pieces
  BY DEF Pieces
<1>3. out \in Seq(Pieces) /\ Len(out) = Len(text)
  <2> HIDE DEF hit, out
  <2> QED
    BY <1>1, <1>2
<1>4. ASSUME NEW i \in 1 .. Len(text), text[i] = Nl
      PROVE  out[i] = Nl
  <2>1. \A v : \A h \in 1 .. 2 : Nl # <<v, h>>
    BY DEF Nl
  <2>2. ~hit(i)
    BY <1>4, <2>1
  <2> HIDE DEF hit, out
  <2> QED
    BY <1>1, <1>4, <2>2
<1>5. Shown(out) \subseteq U
  <2> SUFFICES ASSUME NEW v \in Values, NEW i \in 1 .. Len(out) - 1, v \notin U,
                      out[i] = <<v, 1>>, out[i + 1] = <<v, 2>>
               PROVE  FALSE
    BY DEF Shown
  <2>1. i \in 1 .. Len(text) /\ i + 1 \in 1 .. Len(text)
    BY <1>3
  <2>2. Mask # <<v, 1>> /\ Mask # <<v, 2>> /\ Nl # <<v, 1>>
    BY DEF Mask, Nl
  <2>3. ~hit(i) /\ text[i] = <<v, 1>> /\ text[i + 1] = <<v, 2>>
    <3> HIDE DEF hit, out
    <3> QED
      BY <1>1, <2>1, <2>2
  <2>4. v \in L \cup Patterned
    BY <2>1, <2>2, <2>3
  <2>5. i + 3 - 2 * 1 = i + 1 /\ 3 - 1 = 2 /\ 1 \in 1 .. 2
    BY <2>1
  <2> QED
    BY <2>1, <2>3, <2>4, <2>5
<1> QED
  BY <1>3, <1>4, <1>5

\* After the end of a line, nothing can be put together with what follows.
LEMMA Joined ==
  ASSUME NEW x \in Seq(Pieces), NEW y \in Seq(Pieces), NEW U,
         Shown(x) \subseteq U, Shown(y) \subseteq U, x # <<>> => x[Len(x)] = Nl
  PROVE  Shown(x \o y) \subseteq U
<1> SUFFICES ASSUME NEW v \in Values, NEW i \in 1 .. Len(x \o y) - 1, v \notin U,
                    (x \o y)[i] = <<v, 1>>, (x \o y)[i + 1] = <<v, 2>>
             PROVE  FALSE
  BY DEF Shown
<1>1. CASE i + 1 <= Len(x)
  <2>1. i \in 1 .. Len(x) - 1 /\ x[i] = <<v, 1>> /\ x[i + 1] = <<v, 2>>
    BY <1>1
  <2> QED
    BY <2>1 DEF Shown
<1>2. CASE i = Len(x)
  <2>1. x[i] = <<v, 1>> /\ x # <<>>
    BY <1>2
  <2> QED
    BY <1>2, <2>1 DEF Nl
<1>3. CASE i > Len(x)
  <2>1. PICK j \in 1 .. Len(y) - 1 : y[j] = <<v, 1>> /\ y[j + 1] = <<v, 2>>
    <3> DEFINE k == i - Len(x)
    <3>1. k \in 1 .. Len(y) - 1
      BY <1>3
    <3>2. y[k] = <<v, 1>>
      BY <1>3
    <3>3. y[k + 1] = <<v, 2>>
      BY <1>3
    <3> HIDE DEF k
    <3> QED
      BY <3>1, <3>2, <3>3
  <2>2. v \in Shown(y)
    BY <2>1 DEF Shown
  <2> QED
    BY <2>2
<1> QED
  BY <1>1, <1>2, <1>3

\* What keynv.test_connection answers shows nothing.
LEMMA Sanitized ==
  ASSUME NEW v \in Values
  PROVE  Shown(SanitizeResult(Whole(v), v)) = {}
<1>1. <<v, 1>> \in Pieces /\ <<v, 2>> \in Pieces
  BY DEF Pieces
<1> DEFINE text == Whole(v)
<1>2. text \in Seq(Pieces) /\ \A i \in DOMAIN text : text[i][1] \in {v}
  BY <1>1 DEF Whole
<1> HIDE DEF text
<1>3. \A i \in DOMAIN text : text[i] = Nl \/ text[i][1] \in {v} \cup Patterned \cup {}
  BY <1>2
<1> DEFINE L == {v}
           U == {}
<1>4. \A i \in DOMAIN text : text[i] = Nl \/ text[i][1] \in L \cup Patterned \cup U
  BY <1>3
<1> HIDE DEF L, U
<1>5. Shown(Redact(text, L)) \subseteq U
  BY <1>2, <1>4, Redacted
<1> QED
  BY <1>5 DEF SanitizeResult, text, L, U

\* A chunk's values are the same when it is decoded.
LEMMA DecodedChunk ==
  ASSUME NEW chunk \in Seq(Pieces), NEW S,
         \A i \in DOMAIN chunk : chunk[i] = Nl \/ chunk[i][1] \in S
  PROVE  /\ Decoded(chunk) \in Seq(Pieces)
         /\ \A i \in DOMAIN Decoded(chunk) : Decoded(chunk)[i] = Nl \/ Decoded(chunk)[i][1] \in S
<1> DEFINE marred(i) == /\ chunk[i][1] \in Wide
                        /\ \/ i = 1 /\ chunk[i][2] = 2
                           \/ i = Len(chunk) /\ chunk[i][2] = 1
           new(i) == IF marred(i) THEN <<chunk[i][1], chunk[i][2] + 2>> ELSE chunk[i]
<1>1. Decoded(chunk) = [i \in 1 .. Len(chunk) |-> new(i)]
  <2>1. Decoded(chunk) = [i \in DOMAIN chunk |-> new(i)]
    BY Zenon DEF Decoded
  <2>2. DOMAIN chunk = 1 .. Len(chunk)
    OBVIOUS
  <2> HIDE DEF new
  <2> QED
    BY <2>1, <2>2
<1>2. ASSUME NEW i \in 1 .. Len(chunk)
      PROVE  new(i) \in Pieces /\ (new(i) = Nl \/ new(i)[1] \in S)
  <2>1. chunk[i] \in Pieces /\ (chunk[i] = Nl \/ chunk[i][1] \in S)
    OBVIOUS
  <2>2. CASE ~marred(i)
    BY <2>1, <2>2
  <2>3. CASE marred(i)
    <3>1. chunk[i][2] \in {1, 2}
      BY <2>3
    <3>2. chunk[i] # Nl /\ chunk[i] # Mask
      BY <3>1 DEF Nl, Mask
    <3>3. chunk[i][1] \in Values
      BY <2>1, <3>2 DEF Pieces
    <3>4. new(i) = <<chunk[i][1], chunk[i][2] + 2>> /\ chunk[i][2] + 2 \in 1 .. 4
      BY <2>3, <3>1
    <3> HIDE DEF new, marred
    <3> QED
      BY <2>1, <3>2, <3>3, <3>4 DEF Pieces
  <2> QED
    BY <2>2, <2>3
<1> HIDE DEF new
<1> QED
  BY <1>1, <1>2

\* However the output is cut into chunks, what the redactor passes on shows
\* nothing it knows; what it keeps is shorter than the limit and as well known; and
\* unless a line has grown to the limit, what it passes on ends with a line.
LEMMA Streamed ==
  ASSUME NEW buf \in Seq(Pieces), NEW chunk \in Seq(Pieces), NEW L, NEW U,
         \A i \in DOMAIN buf : buf[i] = Nl \/ buf[i][1] \in L \cup Patterned \cup U,
         \A i \in DOMAIN chunk : chunk[i] = Nl \/ chunk[i][1] \in L \cup Patterned \cup U
  PROVE  LET t == Transform(buf, chunk, L) IN
         /\ t.out \in Seq(Pieces) /\ t.buf \in Seq(Pieces) /\ t.cut \in BOOLEAN
         /\ \A i \in DOMAIN t.buf : t.buf[i] = Nl \/ t.buf[i][1] \in L \cup Patterned \cup U
         /\ Len(t.buf) < BufferLimit
         /\ Shown(t.out) \subseteq U
         /\ ~t.cut /\ t.out # <<>> => t.out[Len(t.out)] = Nl
<1> DEFINE S == L \cup Patterned \cup U
           new  == Decoded(chunk)
           text == buf \o new
           n    == LineLength(text)
           front == SubSeq(text, 1, n)
           rest == SubSeq(text, n + 1, Len(text))
           safe(x) == \A i \in DOMAIN x : x[i] = Nl \/ x[i][1] \in S
<1>0. new \in Seq(Pieces) /\ safe(new) /\ safe(buf)
  BY DecodedChunk
<1> HIDE DEF new, S
<1>1. text \in Seq(Pieces) /\ safe(text)
  BY <1>0
<1>2. n \in 0 .. Len(text) /\ (n > 0 => text[n] = Nl)
  BY <1>1, LinesEnd
<1> HIDE DEF n, text
<1>3. front \in Seq(Pieces) /\ Len(front) = n /\ (n > 0 => front[n] = Nl)
  BY <1>1, <1>2
<1>4. safe(front)
  BY <1>1, <1>2
<1>5. rest \in Seq(Pieces)
  BY <1>1, <1>2
<1>6. safe(rest)
  BY <1>1, <1>2
<1> HIDE DEF front, rest
<1> DEFINE lines == Redact(front, L)
           tail  == FlushBufferThroughRedactor(rest, L)
<1>7. /\ lines \in Seq(Pieces) /\ Shown(lines) \subseteq U
      /\ lines # <<>> => lines[Len(lines)] = Nl
  <2>1. /\ lines \in Seq(Pieces) /\ Shown(lines) \subseteq U /\ Len(lines) = Len(front)
        /\ \A i \in 1 .. Len(front) : front[i] = Nl => lines[i] = Nl
    BY <1>3, <1>4, Redacted DEF S
  <2> HIDE DEF lines
  <2> QED
    BY <1>2, <1>3, <2>1
<1>8. tail \in Seq(Pieces) /\ Shown(tail) \subseteq U
  BY <1>5, <1>6, Redacted DEF S, FlushBufferThroughRedactor
<1> HIDE DEF lines, tail
<1>9. lines \o tail \in Seq(Pieces) /\ Shown(lines \o tail) \subseteq U
  BY <1>7, <1>8, Joined
<1>10. Transform(buf, chunk, L) =
         IF Len(rest) >= BufferLimit THEN [out |-> lines \o tail, buf |-> <<>>, cut |-> TRUE]
         ELSE [out |-> lines, buf |-> rest, cut |-> FALSE]
  BY Zenon DEF Transform, lines, tail, front, rest, n, text, new
<1>11. CASE Len(rest) >= BufferLimit
  BY <1>9, <1>10, <1>11, LimitAssumption
<1>12. CASE ~(Len(rest) >= BufferLimit)
  <2>1. Transform(buf, chunk, L) = [out |-> lines, buf |-> rest, cut |-> FALSE]
    BY <1>10, <1>12
  <2>2. Len(rest) < BufferLimit
    BY <1>5, <1>12, LimitAssumption
  <2> QED
    BY <1>5, <1>6, <1>7, <2>1, <2>2 DEF S
<1> QED
  BY <1>11, <1>12


-----------------------------------------------------------------------------
(* The invariant holds at first, and every step keeps it. *)

\* A run that has not begun, or has ended
LEMMA EmptyRuns ==
  /\ NotRun \in Runs /\ Ended \in Runs
  /\ NotRun.step = "idle" /\ Ended.step = "ended"
  /\ \A r \in {NotRun, Ended} :
       /\ r.read = <<>> /\ r.env = <<>> /\ r.literals = {} /\ r.since = {}
       /\ r.pipe = <<>> /\ r.buf = <<>> /\ r.last = <<>> /\ r.queue = <<>> /\ r.late = {}
<1>1. /\ <<>> \in [{} -> Values] /\ {} \in SUBSET Aliases /\ {} \in SUBSET Variables
  OBVIOUS
<1>2. <<>> \in Readings /\ <<>> \in Envs
  BY <1>1 DEF Readings, Envs
<1>3. NotRun \in Runs
  BY <1>2 DEF NotRun, Runs, Steps
<1>4. Ended \in Runs
  BY <1>3 DEF Ended, Runs, Steps
<1> QED
  BY <1>3, <1>4 DEF Ended, NotRun

\* At first no process runs and nothing is asked for.
LEMMA InitKeeps == Init => IInv
<1> SUFFICES ASSUME Init PROVE IInv
  OBVIOUS
<1>1. \A p \in Procs : runs[p] = NotRun
  BY DEF Init
<1>2. Types
  BY <1>1, EmptyRuns DEF Init, Types
<1>3. StoresOK /\ CallsOK
  BY DEF Init, StoresOK, CallsOK
<1>4. ASSUME NEW p \in Procs PROVE RunOK(p)
  <2>1. runs[p] = NotRun /\ calls = <<>>
    BY <1>1 DEF Init
  <2>2. /\ Asked(p) /\ Reading(p) /\ Redeeming(p)
        /\ FromTokens(p) /\ FromAliases(p) /\ Calling(p)
    BY <2>1, EmptyRuns DEF Asked, Reading, Redeeming, FromTokens, FromAliases, Calling
  <2>3. Hidden(p)
    BY <2>1, EmptyRuns, LimitAssumption DEF Hidden, Known
  <2> QED
    BY <2>2, <2>3 DEF RunOK
<1> QED
  BY <1>2, <1>3, <1>4 DEF Init, IInv, RunsOK

\* A run is as it was if nothing it knows of has changed: others issue tokens
\* and redeem them, and its own redemptions may end with their server.
LEMMA Undisturbed ==
  ASSUME IInv, NEW p \in Procs, runs'[p] = runs[p], vault' = vault,
         \A t \in DOMAIN issued : t \in DOMAIN issued' /\ issued'[t] = issued[t],
         \A k \in DOMAIN calls' : k[1] = p => k \in DOMAIN calls /\ calls'[k] = calls[k]
  PROVE  RunOK(p)'
<1>0. /\ Types /\ CallsOK
      /\ Asked(p) /\ Reading(p) /\ Redeeming(p)
      /\ FromTokens(p) /\ FromAliases(p) /\ Calling(p) /\ Hidden(p)
  BY DEF IInv, RunsOK, RunOK
<1>1. Asked(p)'
  BY <1>0 DEF Asked
<1>2. Reading(p)'
  BY <1>0 DEF Reading
<1>3. Redeeming(p)' /\ FromTokens(p)' /\ FromAliases(p)'
  <2> SUFFICES ASSUME runs[p].step \in {"redeem", "waiting"}
               PROVE  Redeeming(p)' /\ FromTokens(p)' /\ FromAliases(p)'
    BY DEF Redeeming, FromTokens, FromAliases
  <2> DEFINE opt == runs[p].spec.resolve
  <2>1. opt \in Seq(Options) /\ runs[p].todo \in Seq(Options) /\ Done(p) >= 0
    BY <1>0, SpecAssumption DEF Asked, Redeeming
  <2>2. Done(p)' = Done(p) /\ Done(p) \in 0 .. Len(opt)
    <3>1. Done(p)' = Done(p) /\ Done(p) = Len(opt) - Len(runs[p].todo)
      BY DEF Done
    <3>2. Len(opt) \in Nat /\ Len(runs[p].todo) \in Nat
      BY <2>1
    <3> HIDE DEF opt
    <3>3. Done(p) \in 0 .. Len(opt)
      BY <2>1, <3>1, <3>2
    <3> QED
      BY <3>1, <3>3
  <2>3. \A i \in 1 .. Done(p) : issued'[opt[i].token] = issued[opt[i].token]
    BY <1>0, <2>1, <2>2 DEF Asked
  <2>4. Redeeming(p)'
    <3>1. /\ runs[p].todo \in Seq(Options) /\ Done(p) >= 0
          /\ \A i \in DOMAIN runs[p].todo : runs[p].todo[i] = runs[p].spec.resolve[Done(p) + i]
          /\ DOMAIN runs[p].env =
               DOMAIN runs[p].spec.file \cup DOMAIN runs[p].spec.via
               \cup {runs[p].spec.resolve[i].name : i \in 1 .. Done(p)}
      BY <1>0 DEF Redeeming
    <3>2. Done(p)' = Done(p) /\ runs'[p] = runs[p]
      BY <2>2
    <3> QED
      BY <3>1, <3>2 DEF Redeeming
  <2>5. FromTokens(p)'
    BY <1>0, <2>2, <2>3 DEF FromTokens
  <2>6. FromAliases(p)'
    BY <1>0, <2>2 DEF FromAliases
  <2> QED
    BY <2>4, <2>5, <2>6
<1>4. Calling(p)'
  BY <1>0 DEF Calling, CallsOK
<1>5. Hidden(p)'
  BY <1>0 DEF Hidden, Known
<1> QED
  BY <1>1, <1>2, <1>3, <1>4, <1>5 DEF RunOK


\* What keynv-mcp does by itself keeps the invariant: starting, ending, issuing
\* and evicting tokens, testing a connection.
LEMMA BrokerKeeps ==
  ASSUME IInv,
         StartMcp \/ StopMcp \/ IssueReferenceToken \/ ScheduleEviction \/ TestConnection
  PROVE  IInv'
<1>0. Types /\ StoresOK /\ CallsOK /\ told = {}
  BY DEF IInv
<1>1. /\ vault' = vault /\ runs' = runs /\ spent' = spent
      /\ \A k \in DOMAIN calls' : k \in DOMAIN calls /\ calls'[k] = calls[k]
      /\ \A t \in DOMAIN issued : t \in DOMAIN issued' /\ issued'[t] = issued[t]
      /\ issued' \in Seq(Aliases)
  <2>1. CASE StopMcp
    BY <1>0, <2>1 DEF StopMcp, Restrict, Types
  <2>2. CASE IssueReferenceToken
    <3>1. PICK a \in Aliases : issued' = Append(issued, a)
      BY <2>2 DEF IssueReferenceToken
    <3>2. issued \in Seq(Aliases)
      BY <1>0 DEF Types
    <3>3. issued' \in Seq(Aliases) /\ \A t \in DOMAIN issued : t \in DOMAIN issued' /\ issued'[t] = issued[t]
      BY <3>1, <3>2
    <3> QED
      BY <2>2, <3>3 DEF IssueReferenceToken
  <2>3. CASE StartMcp \/ ScheduleEviction \/ TestConnection
    BY <1>0, <2>3 DEF StartMcp, ScheduleEviction, TestConnection, broker, Types
  <2> QED
    BY <2>1, <2>2, <2>3
<1>2. Types'
  <2>1. up' \in [Servers -> BOOLEAN] /\ bound' \in Servers \cup {NoServer}
    BY <1>0 DEF Types, StartMcp, StopMcp, IssueReferenceToken, ScheduleEviction,
                TestConnection, broker
  <2> QED
    BY <1>0, <1>1, <2>1 DEF Types
<1>3. StoresOK' /\ CallsOK'
  <2>1. CASE StartMcp
    <3>1. PICK s \in Servers : store' = [store EXCEPT ![s] = <<>>]
      BY <2>1 DEF StartMcp
    <3>2. issued' = issued
      BY <2>1 DEF StartMcp
    <3> QED
      BY <1>0, <1>1, <3>1, <3>2 DEF StoresOK, CallsOK
  <2>2. CASE StopMcp
    <3>1. PICK s \in Servers : store' = [store EXCEPT ![s] = <<>>]
      BY <2>2 DEF StopMcp
    <3>2. issued' = issued
      BY <2>2 DEF StopMcp
    <3> QED
      BY <1>0, <1>1, <3>1, <3>2 DEF StoresOK, CallsOK
  <2>3. CASE IssueReferenceToken
    <3>1. PICK s \in Servers, a \in Aliases :
            /\ issued' = Append(issued, a)
            /\ store' = [store EXCEPT ![s] = With(@, Len(issued) + 1, [alias |-> a, consumed |-> FALSE])]
      BY <2>3 DEF IssueReferenceToken
    <3> DEFINE t == Len(issued) + 1
               row == [alias |-> a, consumed |-> FALSE]
    <3>2. t \notin DOMAIN issued /\ t \in DOMAIN issued'
      BY <1>0, <3>1 DEF Types
    <3>3. /\ DOMAIN store' = Servers
          /\ DOMAIN store'[s] = DOMAIN store[s] \cup {t}
          /\ store'[s][t] = row
          /\ \A u \in DOMAIN store[s] : u # t => store'[s][u] = store[s][u]
          /\ \A z \in Servers \ {s} : store'[z] = store[z]
      <4>1. /\ DOMAIN store' = Servers
            /\ store'[s] = With(store[s], t, row)
            /\ \A z \in Servers \ {s} : store'[z] = store[z]
        BY <1>0, <3>1 DEF StoresOK
      <4> HIDE DEF t, row
      <4> QED
        BY <4>1 DEF With
    <3>4. \A z \in Servers : t \notin DOMAIN store[z]
      BY <1>0, <3>2 DEF StoresOK
    <3>5. t \notin spent /\ row \in [alias: Aliases, consumed: BOOLEAN] /\ row.consumed = FALSE
      BY <1>0, <3>2 DEF Types
    <3> HIDE DEF t, row
    <3>6. StoresOK'
      <4>1. ASSUME NEW z \in Servers, NEW u \in DOMAIN store'[z]
            PROVE  /\ u \in DOMAIN issued'
                   /\ store'[z][u] \in [alias: Aliases, consumed: BOOLEAN]
                   /\ store'[z][u].consumed <=> u \in spent
                   /\ \A y \in Servers \ {z} : u \notin DOMAIN store'[y]
        <5>1. CASE u = t
          <6>1. z = s
            BY <3>3, <3>4, <4>1, <5>1
          <6> QED
            BY <3>2, <3>3, <3>4, <3>5, <5>1, <6>1
        <5>2. CASE u # t
          <6>1. u \in DOMAIN store[z] /\ store'[z][u] = store[z][u]
            BY <3>3, <4>1, <5>2
          <6>2. \A y \in Servers \ {z} : u \notin DOMAIN store'[y]
            BY <1>0, <3>3, <5>2, <6>1 DEF StoresOK
          <6> QED
            BY <1>0, <1>1, <6>1, <6>2 DEF StoresOK
        <5> QED
          BY <5>1, <5>2
      <4> QED
        BY <1>1, <3>3, <4>1 DEF StoresOK
    <3>7. CallsOK'
      <4>1. \A k \in DOMAIN calls : calls[k].token # t
        BY <1>0, <3>2 DEF CallsOK
      <4> QED
        BY <1>0, <1>1, <3>3, <4>1 DEF CallsOK
    <3> QED
      BY <3>6, <3>7
  <2>4. CASE ScheduleEviction
    <3>1. PICK s \in Servers : \E t \in DOMAIN store[s] :
            store' = [store EXCEPT ![s] = Restrict(@, DOMAIN @ \ {t})]
      BY <2>4 DEF ScheduleEviction
    <3>2. /\ DOMAIN store' = Servers
          /\ \A z \in Servers : \A u \in DOMAIN store'[z] :
               u \in DOMAIN store[z] /\ store'[z][u] = store[z][u]
      BY <1>0, <3>1 DEF StoresOK, Restrict
    <3>3. issued' = issued
      BY <2>4 DEF ScheduleEviction
    <3> QED
      BY <1>0, <1>1, <3>2, <3>3 DEF StoresOK, CallsOK
  <2>5. CASE TestConnection
    BY <1>0, <2>5 DEF TestConnection, broker, StoresOK, CallsOK
  <2> QED
    BY <2>1, <2>2, <2>3, <2>4, <2>5
<1>4. told' = {}
  <2>1. CASE TestConnection
    <3>1. PICK a \in Aliases :
            vault[a] # Gone /\ told' = told \cup Shown(SanitizeResult(Whole(vault[a]), vault[a]))
      BY <2>1 DEF TestConnection
    <3>2. vault[a] \in Values
      BY <1>0, <3>1 DEF Types
    <3> QED
      BY <1>0, <3>1, <3>2, Sanitized
  <2> QED
    BY <1>0, <2>1 DEF StartMcp, StopMcp, IssueReferenceToken, ScheduleEviction
<1>5. RunsOK'
  <2>1. ASSUME NEW p \in Procs PROVE RunOK(p)'
    BY <1>1, Undisturbed
  <2> QED
    BY <2>1 DEF RunsOK
<1> QED
  BY <1>2, <1>3, <1>4, <1>5 DEF IInv


\* What a reply makes of the redemptions
LEMMA Replied ==
  ASSUME Types, NEW k \in DOMAIN calls,
         NEW step \in {"fetch", "answered", "refused"}, calls' = Reply(k, step)
  PROVE  \A j \in DOMAIN calls' :
           /\ j \in DOMAIN calls
           /\ j # k => calls'[j] = calls[j]
           /\ j = k => /\ calls'[j] \in Calls
                       /\ calls'[j].step = step
                       /\ calls'[j].server = calls[k].server
                       /\ calls'[j].token = calls[k].token
                       /\ calls'[j].value = calls[k].value
                       /\ calls'[j].again = calls[k].again
<1>1. calls[k] \in Calls
  BY DEF Types
<1>2. CASE calls' = Restrict(calls, DOMAIN calls \ {k})
  BY <1>2 DEF Restrict
<1>3. CASE calls' = [calls EXCEPT ![k].step = step]
  <2> DEFINE c == [calls[k] EXCEPT !.step = step]
  <2>1. /\ c \in Calls /\ c.step = step /\ c.server = calls[k].server
        /\ c.token = calls[k].token /\ c.value = calls[k].value /\ c.again = calls[k].again
    BY <1>1 DEF Calls
  <2>2. calls' = [calls EXCEPT ![k] = c]
    BY <1>3
  <2> HIDE DEF c
  <2> QED
    BY <2>1, <2>2
<1> QED
  BY <1>2, <1>3 DEF Reply

\* A step of keynv-mcp that only moves a redemption on leaves the runs as they
\* are, if what it brings to a run that waits was true since.
LEMMA CallKeeps ==
  ASSUME IInv, NEW k \in DOMAIN calls, UNCHANGED <<vault, issued, runs>>,
         \A j \in DOMAIN calls' :
           /\ j \in DOMAIN calls
           /\ j # k => calls'[j] = calls[j]
           /\ j = k => /\ calls'[j].token = calls[k].token
                       /\ calls'[j].step \in {"fetched", "answered"} =>
                            \/ /\ calls[j].step \in {"fetched", "answered"}
                               /\ calls'[j].value = calls[k].value
                            \/ /\ calls'[j].value = vault[issued[calls[k].token]]
                               /\ calls'[j].value # Gone
  PROVE  RunsOK'
<1> SUFFICES ASSUME NEW p \in Procs PROVE RunOK(p)'
  BY DEF RunsOK
<1>0. Types /\ CallsOK /\ RunOK(p)
  BY DEF IInv, RunsOK
<1>1. CASE k[1] # p
  BY <1>1, Undisturbed
<1>2. CASE k[1] = p
  <2>1. /\ Asked(p) /\ Reading(p) /\ Redeeming(p)
        /\ FromTokens(p) /\ FromAliases(p) /\ Calling(p) /\ Hidden(p)
    BY <1>0 DEF RunOK
  <2>2. Asked(p)' /\ Reading(p)' /\ Hidden(p)'
    BY <2>1 DEF Asked, Reading, Hidden, Known
  <2>3. Redeeming(p)' /\ FromTokens(p)' /\ FromAliases(p)'
    <3>1. runs'[p] = runs[p] /\ Done(p)' = Done(p) /\ issued' = issued
      BY DEF Done
    <3>2. Redeeming(p)'
      BY <2>1, <3>1 DEF Redeeming
    <3>3. FromTokens(p)'
      BY <2>1, <3>1 DEF FromTokens
    <3>4. FromAliases(p)'
      BY <2>1, <3>1 DEF FromAliases
    <3> QED
      BY <3>2, <3>3, <3>4
  <2>4. runs[p].step \notin {"idle", "aliases", "redeem"}
    BY <1>2, <2>1 DEF Calling
  <2>5. ASSUME runs[p].step = "waiting", NEW j \in DOMAIN calls', j[1] = p
        PROVE  /\ j[2] = Len(runs[p].todo)
               /\ calls'[j].token = runs[p].todo[1].token
               /\ calls'[j].step \in {"fetched", "answered"} =>
                    /\ calls'[j].value \in Values
                    /\ <<issued[calls'[j].token], calls'[j].value>> \in runs[p].since
    <3>1. /\ j \in DOMAIN calls /\ j[2] = Len(runs[p].todo)
          /\ calls[j].token = runs[p].todo[1].token /\ calls'[j].token = calls[j].token
      BY <2>1, <2>5 DEF Calling
    <3>2. CASE calls'[j] = calls[j]
      BY <2>1, <2>5, <3>1, <3>2 DEF Calling
    <3>3. CASE j = k
      <4>1. issued[calls[k].token] \in Aliases
        BY <1>0 DEF Types, CallsOK
      <4>2. /\ vault[issued[calls[k].token]] \in Values \cup {Gone}
            /\ <<issued[calls[k].token], vault[issued[calls[k].token]]>> \in runs[p].since
        BY <1>0, <2>1, <2>5, <4>1 DEF Types, Asked
      <4> QED
        BY <2>1, <2>5, <3>1, <3>3, <4>2 DEF Calling
    <3> QED
      BY <3>1, <3>2, <3>3
  <2>6. Calling(p)'
    BY <2>1, <2>4, <2>5 DEF Calling
  <2> QED
    BY <2>2, <2>3, <2>6 DEF RunOK
<1> QED
  BY <1>1, <1>2


\* The look at the token: one that is spent is refused, one that is let past is
\* in no other server's store.
LEMMA HandleLineKeeps ==
  ASSUME IInv, NEW k \in DOMAIN calls, HandleLine(k)
  PROVE  IInv'
<1>0. Types /\ StoresOK /\ CallsOK /\ told = {}
  BY DEF IInv
<1> DEFINE step == PeekStep(calls[k])
<1>1. /\ UNCHANGED <<vault, up, store, bound, issued, runs, told, spent>>
      /\ calls[k].step = "sent" /\ calls' = Reply(k, step)
  BY DEF HandleLine, broker
<1>2. /\ step \in {"fetch", "refused"}
      /\ step = "fetch" => /\ calls[k].token \in DOMAIN store[calls[k].server]
                           /\ ~store[calls[k].server][calls[k].token].consumed
  BY DEF PeekStep, PeekReferenceToken
<1> HIDE DEF step
<1>3. \A j \in DOMAIN calls' :
        /\ j \in DOMAIN calls
        /\ j # k => calls'[j] = calls[j]
        /\ j = k => /\ calls'[j] \in Calls
                    /\ calls'[j].step = step
                    /\ calls'[j].server = calls[k].server
                    /\ calls'[j].token = calls[k].token
                    /\ calls'[j].value = calls[k].value
                    /\ calls'[j].again = calls[k].again
  BY <1>0, <1>1, <1>2, Replied
<1>4. Types' /\ StoresOK'
  BY <1>0, <1>1, <1>3 DEF Types, StoresOK
<1>5. CallsOK'
  <2>1. calls[k].server \in Servers
    BY <1>0 DEF Types, Calls
  <2>2. step = "fetch" =>
          /\ calls[k].token \notin spent
          /\ \A s \in Servers \ {calls[k].server} : calls[k].token \notin DOMAIN store[s]
    BY <1>0, <1>2, <2>1 DEF StoresOK
  <2> QED
    BY <1>0, <1>1, <1>2, <1>3, <2>2 DEF CallsOK
<1>6. RunsOK'
  BY <1>1, <1>2, <1>3, CallKeeps
<1> QED
  BY <1>0, <1>1, <1>4, <1>5, <1>6 DEF IInv

\* The server is asked for the value.
LEMMA FetchValueKeeps ==
  ASSUME IInv, NEW k \in DOMAIN calls, FetchValue(k)
  PROVE  IInv'
<1>0. Types /\ StoresOK /\ CallsOK /\ told = {}
  BY DEF IInv
<1> DEFINE v == vault[issued[calls[k].token]]
           c == [calls[k] EXCEPT !.step = "fetched", !.value = v]
<1>1. UNCHANGED <<vault, up, store, bound, issued, runs, told, spent>> /\ calls[k].step = "fetch"
  BY DEF FetchValue, broker
<1>2. v \in Values \cup {Gone} /\ calls[k] \in Calls
  BY <1>0 DEF Types, CallsOK
<1>3. \A j \in DOMAIN calls' :
        /\ j \in DOMAIN calls
        /\ j # k => calls'[j] = calls[j]
        /\ j = k => /\ calls'[j] \in Calls
                    /\ \/ calls'[j].step = "refused" /\ calls'[j].value = calls[k].value
                       \/ calls'[j].step = "fetched" /\ calls'[j].value = v /\ v # Gone
                    /\ calls'[j].server = calls[k].server
                    /\ calls'[j].token = calls[k].token
                    /\ calls'[j].again = calls[k].again
  <2>1. CASE calls' = Reply(k, "refused")
    BY <1>0, <2>1, Replied
  <2>2. CASE v # Gone /\ calls' = [calls EXCEPT ![k].step = "fetched", ![k].value = v]
    <3>1. calls' = [calls EXCEPT ![k] = c]
      BY <2>2
    <3>2. /\ c \in Calls /\ c.step = "fetched" /\ c.value = v /\ c.server = calls[k].server
          /\ c.token = calls[k].token /\ c.again = calls[k].again
      <4> HIDE DEF v
      <4> QED
        BY <1>2 DEF Calls
    <3> HIDE DEF c, v
    <3> QED
      BY <2>2, <3>1, <3>2
  <2> QED
    BY <2>1, <2>2 DEF FetchValue
<1> HIDE DEF v, c
<1>4. Types' /\ StoresOK'
  BY <1>0, <1>1, <1>3 DEF Types, StoresOK
<1>5. CallsOK'
  BY <1>0, <1>1, <1>3 DEF CallsOK
<1>6. RunsOK'
  BY <1>1, <1>3, CallKeeps DEF v
<1> QED
  BY <1>0, <1>1, <1>4, <1>5, <1>6 DEF IInv

\* The value is answered, and the token is used up.
LEMMA AnswerValueKeeps ==
  ASSUME IInv, NEW k \in DOMAIN calls, AnswerValue(k)
  PROVE  IInv'
<1>0. Types /\ StoresOK /\ CallsOK /\ told = {}
  BY DEF IInv
<1> DEFINE s == calls[k].server
           t == calls[k].token
<1>1. /\ UNCHANGED <<vault, up, bound, issued, runs, told>>
      /\ calls[k].step = "fetched" /\ calls' = Reply(k, "answered")
      /\ spent' = spent \cup {t} /\ store' = ConsumeReferenceToken(s, t)
  BY DEF AnswerValue
<1>2. \A j \in DOMAIN calls' :
        /\ j \in DOMAIN calls
        /\ j # k => calls'[j] = calls[j]
        /\ j = k => /\ calls'[j] \in Calls
                    /\ calls'[j].step = "answered"
                    /\ calls'[j].server = s
                    /\ calls'[j].token = t
                    /\ calls'[j].value = calls[k].value
                    /\ calls'[j].again = calls[k].again
  BY <1>0, <1>1, Replied
<1>3. /\ s \in Servers /\ t \in DOMAIN issued
      /\ \A z \in Servers \ {s} : t \notin DOMAIN store[z]
  BY <1>0, <1>1 DEF Types, Calls, CallsOK
<1> HIDE DEF s, t
<1>4. Types'
  BY <1>0, <1>1, <1>2, <1>3 DEF Types
<1>5. /\ DOMAIN store' = Servers
      /\ \A z \in Servers : DOMAIN store'[z] = DOMAIN store[z]
      /\ \A z \in Servers : \A u \in DOMAIN store[z] :
           /\ store'[z][u] \in [alias: Aliases, consumed: BOOLEAN]
           /\ store'[z][u].consumed <=> store[z][u].consumed \/ u = t
  <2>1. CASE t \in DOMAIN store[s]
    <3> DEFINE row == [store[s][t] EXCEPT !.consumed = TRUE]
               kept == [store[s] EXCEPT ![t] = row]
    <3>1. row \in [alias: Aliases, consumed: BOOLEAN] /\ row.consumed = TRUE
      <4>1. store[s][t] \in [alias: Aliases, consumed: BOOLEAN]
        BY <1>0, <1>3, <2>1 DEF StoresOK
      <4>2. [store[s][t] EXCEPT !.consumed = TRUE] \in [alias: Aliases, consumed: BOOLEAN]
        BY <4>1
      <4>3. [store[s][t] EXCEPT !.consumed = TRUE].consumed = TRUE
        BY <4>1
      <4> QED
        BY <4>2, <4>3
    <3>2. store' = [store EXCEPT ![s] = kept]
      BY <1>1, <2>1 DEF ConsumeReferenceToken
    <3> HIDE DEF row
    <3>3. /\ DOMAIN kept = DOMAIN store[s] /\ kept[t] = row
          /\ \A u \in DOMAIN store[s] : u # t => kept[u] = store[s][u]
      BY <2>1
    <3> HIDE DEF kept
    <3>4. store'[s] = kept /\ DOMAIN store' = Servers /\ \A z \in Servers \ {s} : store'[z] = store[z]
      BY <1>0, <1>3, <3>2 DEF StoresOK
    <3>5. \A u \in DOMAIN store[s] :
            /\ kept[u] \in [alias: Aliases, consumed: BOOLEAN]
            /\ kept[u].consumed <=> store[s][u].consumed \/ u = t
      BY <1>0, <1>3, <3>1, <3>3 DEF StoresOK
    <3>6. \A z \in Servers \ {s} : \A u \in DOMAIN store[z] : u # t
      BY <1>3
    <3> QED
      BY <1>0, <3>3, <3>4, <3>5, <3>6 DEF StoresOK
  <2>2. CASE t \notin DOMAIN store[s]
    <3>1. store' = store
      BY <1>1, <2>2 DEF ConsumeReferenceToken
    <3>2. \A z \in Servers : \A u \in DOMAIN store[z] : u # t
      BY <1>3, <2>2
    <3> QED
      BY <1>0, <3>1, <3>2 DEF StoresOK
  <2> QED
    BY <2>1, <2>2
<1>6. StoresOK'
  BY <1>0, <1>1, <1>5 DEF StoresOK
<1>7. CallsOK'
  BY <1>0, <1>1, <1>2, <1>3, <1>5 DEF CallsOK
<1>8. RunsOK'
  BY <1>1, <1>2, CallKeeps DEF t
<1> QED
  BY <1>0, <1>1, <1>4, <1>6, <1>7, <1>8 DEF IInv


\* A step of one run touches nothing else: its invariant is all there is to show.
LEMMA RunKeeps ==
  ASSUME IInv, NEW p \in Procs, NEW r \in Runs, Become(p, r),
         UNCHANGED <<vault, broker, spent>>, told' = {}, RunOK(p)',
         \A k \in DOMAIN calls' :
           \/ k \in DOMAIN calls /\ calls'[k] = calls[k]
           \/ /\ k[1] = p /\ k \in Procs \X Nat
              /\ calls'[k] \in Calls
              /\ calls'[k].step = "sent"
              /\ calls'[k].token \in DOMAIN issued
              /\ calls'[k].again => calls'[k].token \in spent
  PROVE  IInv'
<1>0. Types /\ StoresOK /\ CallsOK /\ told = {}
  BY DEF IInv
<1>1. /\ DOMAIN runs' = Procs /\ runs'[p] = r
      /\ \A q \in Procs \ {p} : runs'[q] = runs[q]
  BY <1>0 DEF Become, Types
<1>2. UNCHANGED <<vault, up, store, bound, issued, spent>>
  BY DEF broker
<1>3. Types' /\ StoresOK'
  BY <1>0, <1>1, <1>2 DEF Types, StoresOK
<1>4. CallsOK'
  BY <1>0, <1>2 DEF CallsOK
<1>5. \A q \in Procs \ {p} : RunOK(q)'
  BY <1>1, <1>2, Undisturbed
<1> QED
  BY <1>3, <1>4, <1>5 DEF IInv, RunsOK

\* An invocation that has ended is in order.
LEMMA ExitKeeps ==
  ASSUME IInv, NEW p \in Procs, Exit(p), UNCHANGED <<vault, broker, spent>>, told' = {},
         \A k \in DOMAIN calls' : k \in DOMAIN calls /\ calls'[k] = calls[k]
  PROVE  IInv'
<1>1. runs'[p] = Ended
  BY DEF IInv, Types, Exit, Become
<1>2. Ended.step = "ended"
  BY EmptyRuns
<1>3. /\ Asked(p)' /\ Reading(p)' /\ Redeeming(p)'
      /\ FromTokens(p)' /\ FromAliases(p)' /\ Calling(p)'
  BY <1>1, <1>2 DEF Asked, Reading, Redeeming, FromTokens, FromAliases, Calling
<1>4. Hidden(p)'
  BY <1>1, <1>2, EmptyRuns, LimitAssumption DEF Hidden, Known
<1>5. RunOK(p)'
  BY <1>3, <1>4 DEF RunOK
<1> QED
  BY <1>5, EmptyRuns, RunKeeps DEF Exit

\* With the last alias read the environment is put together: every variable of
\* the file and of --via-env has what its alias was read as.
LEMMA Injected ==
  ASSUME NEW p \in Procs, NEW r \in Runs, runs'[p] = InjectEnv(r),
         r.step = "aliases", r.spec \in Specs, r.todo \in Seq(Aliases),
         \A a \in Aliases : <<a, vault'[a]>> \in r.since,
         \A i \in DOMAIN r.spec.resolve : r.spec.resolve[i].token \in DOMAIN issued',
         \A n \in DOMAIN r.spec.file :
           \/ r.spec.file[n] \in DOMAIN r.read
           \/ \E i \in DOMAIN r.todo : r.todo[i] = r.spec.file[n],
         \A n \in DOMAIN r.spec.via :
           \/ r.spec.via[n] \in DOMAIN r.read
           \/ \E i \in DOMAIN r.todo : r.todo[i] = r.spec.via[n],
         \A a \in DOMAIN r.read : <<a, r.read[a]>> \in r.since,
         \A n \in DOMAIN r.env : r.env[n] \in r.literals,
         r.pipe = <<>>, r.buf = <<>>, r.last = <<>>, r.queue = <<>>, r.late = {},
         \A k \in DOMAIN calls' : k[1] # p
  PROVE  InjectEnv(r) \in Runs /\ RunOK(p)'
<1>1. CASE r.todo # <<>>
  <2>1. runs'[p] = r /\ InjectEnv(r) = r
    BY <1>1 DEF InjectEnv
  <2>2. /\ Asked(p)' /\ Reading(p)' /\ Redeeming(p)'
        /\ FromTokens(p)' /\ FromAliases(p)' /\ Calling(p)'
    BY <1>1, <2>1 DEF Asked, Reading, Redeeming, FromTokens, FromAliases, Calling
  <2>3. Hidden(p)'
    BY <1>1, <2>1, LimitAssumption DEF Hidden, Known
  <2> QED
    BY <2>1, <2>2, <2>3 DEF RunOK
<1>2. CASE r.todo = <<>>
  <2> DEFINE env == InjectedEnv(r.spec, r.read)
             literals == Range(r.read)
             over(n) == IF n \in DOMAIN r.spec.via THEN r.spec.via[n] ELSE r.spec.file[n]
             w == [r EXCEPT !.step = "redeem", !.env = env, !.read = <<>>,
                            !.literals = literals, !.todo = r.spec.resolve]
  <2>1. InjectEnv(r) = w
    BY <1>2 DEF InjectEnv
  <2>2. r.read \in Readings
    BY DEF Runs
  <2>3. \A a \in DOMAIN r.read : r.read[a] \in Values /\ r.read[a] \in literals
    BY <2>2 DEF Readings, Range
  <2>4. literals \subseteq Values
    BY <2>3 DEF Range
  <2>5. env = [n \in DOMAIN r.spec.via \cup DOMAIN r.spec.file |-> r.read[over(n)]]
    BY Zenon DEF InjectedEnv
  <2>6. \A n \in DOMAIN r.spec.via \cup DOMAIN r.spec.file : over(n) \in DOMAIN r.read
    BY <1>2
  <2>7. DOMAIN r.spec.via \cup DOMAIN r.spec.file \subseteq Variables
    <3> DEFINE names(spec) == DOMAIN spec.file \cup DOMAIN spec.via
    <3>1. names(r.spec) \in {names(spec) : spec \in Specs}
      OBVIOUS
    <3>2. names(r.spec) \subseteq UNION {names(spec) : spec \in Specs}
      <4> HIDE DEF names
      <4> QED
        BY <3>1
    <3>3. names(r.spec) \subseteq Variables
      BY <3>2 DEF Variables
    <3> QED
      BY <3>3
  <2> HIDE DEF env, literals, over
  <2>8. \A n \in DOMAIN env : env[n] \in Values /\ env[n] \in literals
    BY <2>3, <2>5, <2>6
  <2>9. env \in Envs
    <3>1. env \in [DOMAIN env -> Values]
      BY <2>5, <2>8
    <3> QED
      BY <2>5, <2>7, <3>1 DEF Envs
  <2>10. r.spec.resolve \in Seq(Options)
    BY SpecAssumption
  <2>11. <<>> \in Readings
    <3>1. <<>> \in [{} -> Values] /\ {} \in SUBSET Aliases
      OBVIOUS
    <3> QED
      BY <3>1 DEF Readings
  <2>12. /\ w \in Runs
         /\ w.step = "redeem" /\ w.spec = r.spec /\ w.todo = r.spec.resolve /\ w.env = env
         /\ w.literals = literals /\ w.since = r.since /\ w.pipe = r.pipe /\ w.buf = r.buf
         /\ w.last = r.last /\ w.queue = r.queue /\ w.late = r.late
    BY <2>4, <2>9, <2>10, <2>11 DEF Runs, Steps
  <2> HIDE DEF w
  <2>13. Done(p)' = 0 /\ runs'[p] = w
    BY <2>1, <2>10, <2>12 DEF Done
  <2>14. Asked(p)' /\ Reading(p)' /\ Calling(p)'
    BY <2>12, <2>13 DEF Asked, Reading, Calling
  <2>15. Redeeming(p)' /\ FromTokens(p)'
    BY <2>5, <2>10, <2>12, <2>13 DEF Redeeming, FromTokens
  <2>16. FromAliases(p)'
    <3>1. \A n \in DOMAIN env : <<over(n), env[n]>> \in r.since
      BY <2>5, <2>6
    <3> QED
      BY <2>5, <2>12, <2>13, <3>1 DEF FromAliases, over
  <2>17. Hidden(p)'
    BY <2>8, <2>12, <2>13, LimitAssumption DEF Hidden, Known
  <2> QED
    BY <2>1, <2>12, <2>14, <2>15, <2>16, <2>17 DEF RunOK
<1> QED
  BY <1>1, <1>2


\* The aliases of a call are listed without omission.
LEMMA AliasesListed ==
  ASSUME NEW spec \in Specs
  PROVE  /\ AliasesOf(spec) \in Seq(Aliases)
         /\ \A n \in DOMAIN spec.file : \E i \in DOMAIN AliasesOf(spec) : AliasesOf(spec)[i] = spec.file[n]
         /\ \A n \in DOMAIN spec.via : \E i \in DOMAIN AliasesOf(spec) : AliasesOf(spec)[i] = spec.via[n]
<1>1. ASSUME NEW f, f \in [DOMAIN f -> Aliases], IsFiniteSet(DOMAIN f)
      PROVE  IsFiniteSet(Range(f)) /\ Range(f) \subseteq Aliases /\ \A n \in DOMAIN f : f[n] \in Range(f)
  <2>1. f \in [DOMAIN f -> Range(f)] /\ \A a \in Range(f) : \E n \in DOMAIN f : f[n] = a
    BY <1>1 DEF Range
  <2>2. f \in Surjection(DOMAIN f, Range(f))
    BY <2>1 DEF Surjection
  <2>3. IsFiniteSet(Range(f))
    BY <1>1, <2>2, FS_Surjection
  <2> QED
    BY <1>1, <2>3 DEF Range
<1> DEFINE S == Range(spec.file) \cup Range(spec.via)
<1>2. /\ IsFiniteSet(S) /\ S \subseteq Aliases
      /\ \A n \in DOMAIN spec.file : spec.file[n] \in S
      /\ \A n \in DOMAIN spec.via : spec.via[n] \in S
  BY <1>1, FS_Union, SpecAssumption
<1> HIDE DEF S
<1>3. SetToSeq(S) \in Seq(S) /\ \A a \in S : \E i \in DOMAIN SetToSeq(S) : SetToSeq(S)[i] = a
  BY <1>2, Listed
<1>4. SetToSeq(S) \in Seq(Aliases)
  BY <1>2, <1>3
<1>5. AliasesOf(spec) = SetToSeq(S)
  BY DEF AliasesOf, S
<1> QED
  BY <1>2, <1>3, <1>4, <1>5

\* The call of exec: its options and files are looked at.
LEMMA ExecuteKeeps ==
  ASSUME IInv, NEW p \in Procs, Execute(p) PROVE IInv'
<1>0. Types /\ told = {} /\ Calling(p)
  BY DEF IInv, RunsOK, RunOK
<1>1. PICK spec \in Specs :
        /\ \A i \in DOMAIN spec.resolve : spec.resolve[i].token \in DOMAIN issued
        /\ LET r == [NotRun EXCEPT !.step = "aliases", !.spec = spec, !.since = Truths,
                                   !.todo = AliasesOf(spec)]
           IN Become(p, IF spec.bad \/ (r.todo # <<>> /\ ~spec.loggedIn) THEN Ended
                        ELSE InjectEnv(r))
  BY DEF Execute
<1> DEFINE r == [NotRun EXCEPT !.step = "aliases", !.spec = spec, !.since = Truths,
                               !.todo = AliasesOf(spec)]
<1>2. /\ runs[p].step = "idle" /\ UNCHANGED <<vault, broker, spent>> /\ UNCHANGED <<calls, told>>
      /\ issued' = issued
  BY DEF Execute, Elsewhere, broker
<1>3. CASE Become(p, Ended)
  BY <1>0, <1>2, <1>3, ExitKeeps DEF Exit
<1>4. CASE Become(p, InjectEnv(r))
  <2>1. Truths \subseteq Aliases \X (Values \cup {Gone}) /\ \A a \in Aliases : <<a, vault[a]>> \in Truths
    BY <1>0 DEF Truths, Types
  <2>2. NotRun \in Runs
    BY EmptyRuns
  <2>3. /\ r \in Runs
        /\ r.step = "aliases" /\ r.spec = spec /\ r.since = Truths /\ r.todo = AliasesOf(spec)
        /\ r.read = NotRun.read /\ r.env = NotRun.env /\ r.literals = NotRun.literals
        /\ r.pipe = NotRun.pipe /\ r.buf = NotRun.buf /\ r.last = NotRun.last /\ r.queue = NotRun.queue /\ r.late = NotRun.late
    BY <2>1, <2>2, AliasesListed DEF Runs, Steps
  <2> HIDE DEF r
  <2>4. /\ r.read = <<>> /\ r.env = <<>> /\ r.pipe = <<>> /\ r.buf = <<>> /\ r.last = <<>> /\ r.queue = <<>> /\ r.late = {}
    BY <2>3, EmptyRuns
  <2>5. runs'[p] = InjectEnv(r)
    BY <1>0, <1>4 DEF Types, Become
  <2>6. /\ \A n \in DOMAIN r.read : FALSE
        /\ \A n \in DOMAIN r.env : FALSE
    BY <2>4
  <2>7. \A k \in DOMAIN calls' : k[1] # p
    BY <1>0, <1>2 DEF Calling
  <2>8. InjectEnv(r) \in Runs /\ RunOK(p)'
    BY <1>1, <1>2, <2>1, <2>3, <2>4, <2>5, <2>6, <2>7, AliasesListed, Injected
  <2> QED
    BY <1>0, <1>2, <1>4, <2>8, RunKeeps
<1> QED
  BY <1>1, <1>3, <1>4

\* One alias is read, or exec ends.
LEMMA ResolveAliasKeeps ==
  ASSUME IInv, NEW p \in Procs, ResolveAlias(p) PROVE IInv'
<1>0. Types /\ told = {} /\ RunOK(p)
  BY DEF IInv, RunsOK
<1> DEFINE a == Head(runs[p].todo)
           v == vault[a]
           read == With(runs[p].read, a, v)
           r == [runs[p] EXCEPT !.read = read, !.todo = Tail(@)]
<1>1. /\ runs[p].step = "aliases" /\ UNCHANGED <<vault, broker, spent>> /\ UNCHANGED <<calls, told>>
      /\ vault' = vault /\ issued' = issued
      /\ (v # Gone /\ Become(p, InjectEnv(r))) \/ Exit(p)
  BY DEF ResolveAlias, Elsewhere, broker
<1>2. CASE Exit(p)
  BY <1>0, <1>1, <1>2, ExitKeeps
<1>3. CASE v # Gone /\ Become(p, InjectEnv(r))
  <2>1. Asked(p) /\ Reading(p) /\ Calling(p) /\ Hidden(p) /\ runs[p] \in Runs
    BY <1>0 DEF RunOK, Types
  <2>2. runs[p].todo \in Seq(Aliases) /\ runs[p].todo # <<>>
    BY <1>1, <2>1 DEF Reading
  <2>3. /\ a \in Aliases /\ Tail(runs[p].todo) \in Seq(Aliases) /\ a = runs[p].todo[1]
        /\ \A i \in DOMAIN runs[p].todo : i # 1 =>
             i - 1 \in DOMAIN Tail(runs[p].todo) /\ Tail(runs[p].todo)[i - 1] = runs[p].todo[i]
    <3> DEFINE q == runs[p].todo
    <3>1. q \in Seq(Aliases) /\ q # <<>> /\ a = Head(q)
      BY <2>2
    <3> HIDE DEF q, a, v, read, r
    <3>2. /\ Head(q) = q[1] /\ Head(q) \in Aliases
          /\ Tail(q) \in Seq(Aliases) /\ Len(Tail(q)) = Len(q) - 1
          /\ \A i \in 1 .. Len(q) - 1 : Tail(q)[i] = q[i + 1]
      BY <3>1, Rest
    <3>3. DOMAIN q = 1 .. Len(q) /\ Len(q) \in Nat /\ DOMAIN Tail(q) = 1 .. Len(q) - 1
      BY <3>1, <3>2
    <3>4. ASSUME NEW i \in DOMAIN q, i # 1
          PROVE  i - 1 \in DOMAIN Tail(q) /\ Tail(q)[i - 1] = q[i]
      <4>1. i - 1 \in 1 .. Len(q) - 1 /\ (i - 1) + 1 = i
        BY <3>3, <3>4
      <4> QED
        BY <3>2, <3>3, <4>1
    <3> QED
      BY <3>1, <3>2, <3>4 DEF q
  <2>4. v \in Values /\ <<a, v>> \in runs[p].since
    BY <1>0, <1>1, <1>3, <2>1, <2>3 DEF Types, Asked
  <2> HIDE DEF a, v
  <2>5. /\ DOMAIN read = DOMAIN runs[p].read \cup {a} /\ read[a] = v
        /\ \A b \in DOMAIN runs[p].read : b # a => read[b] = runs[p].read[b]
    BY DEF With
  <2>6. read \in Readings
    <3>1. PICK S \in SUBSET Aliases : runs[p].read \in [S -> Values]
      <4>1. runs[p].read \in Readings
        BY <2>1 DEF Runs
      <4> QED
        BY <4>1 DEF Readings
    <3>2. read \in [S \cup {a} -> Values] /\ S \cup {a} \in SUBSET Aliases
      BY <2>3, <2>4, <3>1 DEF With
    <3> HIDE DEF read
    <3> QED
      BY <3>2 DEF Readings
  <2> HIDE DEF read
  <2>7. /\ r \in Runs
        /\ r.read = read /\ r.todo = Tail(runs[p].todo) /\ r.step = runs[p].step
        /\ r.spec = runs[p].spec /\ r.env = runs[p].env /\ r.literals = runs[p].literals
        /\ r.since = runs[p].since /\ r.pipe = runs[p].pipe /\ r.buf = runs[p].buf
        /\ r.last = runs[p].last /\ r.queue = runs[p].queue /\ r.late = runs[p].late
    BY <2>1, <2>3, <2>6 DEF Runs
  <2> HIDE DEF r
  <2>8. runs'[p] = InjectEnv(r)
    BY <1>0, <1>3 DEF Types, Become
  <2>9. ASSUME NEW b, b \in DOMAIN runs[p].read \/ \E i \in DOMAIN runs[p].todo : runs[p].todo[i] = b
        PROVE  b \in DOMAIN r.read \/ \E i \in DOMAIN r.todo : r.todo[i] = b
    BY <2>3, <2>5, <2>7, <2>9
  <2>10. /\ \A n \in DOMAIN r.spec.file :
              \/ r.spec.file[n] \in DOMAIN r.read
              \/ \E i \in DOMAIN r.todo : r.todo[i] = r.spec.file[n]
         /\ \A n \in DOMAIN r.spec.via :
              \/ r.spec.via[n] \in DOMAIN r.read
              \/ \E i \in DOMAIN r.todo : r.todo[i] = r.spec.via[n]
    BY <1>1, <2>1, <2>7, <2>9 DEF Reading
  <2>11. \A b \in DOMAIN r.read : <<b, r.read[b]>> \in r.since
    BY <1>1, <2>1, <2>4, <2>5, <2>7 DEF Reading
  <2>12. /\ r.spec \in Specs
         /\ \A b \in Aliases : <<b, vault'[b]>> \in r.since
         /\ \A i \in DOMAIN r.spec.resolve : r.spec.resolve[i].token \in DOMAIN issued'
         /\ \A k \in DOMAIN calls' : k[1] # p
    BY <1>1, <2>1, <2>7 DEF Asked, Calling
  <2>13. /\ \A n \in DOMAIN r.env : r.env[n] \in r.literals
         /\ r.pipe = <<>> /\ r.buf = <<>> /\ r.last = <<>> /\ r.queue = <<>> /\ r.late = {}
    BY <1>1, <2>1, <2>7 DEF Hidden, Known
  <2>14. InjectEnv(r) \in Runs /\ RunOK(p)'
    BY <1>1, <2>3, <2>7, <2>8, <2>10, <2>11, <2>12, <2>13, Injected
  <2> QED
    BY <1>0, <1>1, <1>3, <2>14, RunKeeps
<1> QED
  BY <1>1, <1>2, <1>3



\* A connection to keynv-mcp: the redemption of the next token begins, and one that
\* begins after the token is spent is marked so.
LEMMA ResolveReferenceTokenKeeps ==
  ASSUME IInv, NEW p \in Procs, ResolveReferenceToken(p) PROVE IInv'
<1>0. Types /\ told = {} /\ RunOK(p)
  BY DEF IInv, RunsOK
<1> DEFINE k == <<p, Len(runs[p].todo)>>
           c == [server |-> bound, token |-> Head(runs[p].todo).token, step |-> "sent",
                 value |-> Gone, again |-> Head(runs[p].todo).token \in spent]
           r == [runs[p] EXCEPT !.step = "waiting"]
<1>1. /\ runs[p].step = "redeem" /\ runs[p].todo # <<>>
      /\ UNCHANGED <<vault, broker, spent>> /\ UNCHANGED told
      /\ vault' = vault /\ issued' = issued
      /\ \/ Exit(p) /\ calls' = calls
         \/ bound # NoServer /\ calls' = With(calls, k, c) /\ Become(p, r)
  BY DEF ResolveReferenceToken, Elsewhere, broker
<1>2. CASE Exit(p) /\ calls' = calls
  BY <1>0, <1>1, <1>2, ExitKeeps
<1>3. CASE bound # NoServer /\ calls' = With(calls, k, c) /\ Become(p, r)
  <2>1. /\ Asked(p) /\ Redeeming(p) /\ FromTokens(p) /\ FromAliases(p) /\ Calling(p) /\ Hidden(p)
        /\ runs[p] \in Runs
    BY <1>0 DEF RunOK, Types
  <2> DEFINE opt == runs[p].spec.resolve
  <2>2. /\ runs[p].todo \in Seq(Options) /\ opt \in Seq(Options)
        /\ Done(p) = Len(opt) - Len(runs[p].todo) /\ Done(p) >= 0
        /\ \A i \in DOMAIN runs[p].todo : runs[p].todo[i] = opt[Done(p) + i]
        /\ \A i \in DOMAIN opt : opt[i].token \in DOMAIN issued
    BY <1>1, <2>1, SpecAssumption DEF Redeeming, Asked, Done
  <2>3. /\ Head(runs[p].todo) = runs[p].todo[1] /\ Len(runs[p].todo) \in Nat \ {0}
    BY <1>1, <2>2, Rest
  <2>4. runs[p].todo[1].token \in DOMAIN issued
    <3>1. Len(opt) \in Nat /\ 1 \in DOMAIN runs[p].todo
      BY <2>2, <2>3
    <3> HIDE DEF opt
    <3>2. Done(p) + 1 \in 1 .. Len(opt)
      BY <2>2, <2>3, <3>1
    <3>3. runs[p].todo[1] = opt[Done(p) + 1]
      BY <2>2, <3>1
    <3>4. DOMAIN opt = 1 .. Len(opt)
      BY <2>2
    <3> QED
      BY <2>2, <3>2, <3>3, <3>4
  <2>5. /\ c \in Calls /\ c.step = "sent" /\ c.token = runs[p].todo[1].token
        /\ c.again => c.token \in spent
    <3>1. issued \in Seq(Aliases) /\ bound \in Servers
      BY <1>0, <1>3 DEF Types
    <3>2. runs[p].todo[1].token \in Nat
      BY <2>4, <3>1
    <3>3. (Head(runs[p].todo).token \in spent) \in BOOLEAN
      OBVIOUS
    <3>4. c \in Calls
      BY <2>3, <3>1, <3>2, <3>3 DEF Calls
    <3>5. c.again => c.token \in spent
      BY Zenon
    <3> QED
      BY <2>3, <3>4, <3>5
  <2> HIDE DEF c
  <2>6. /\ DOMAIN calls' = DOMAIN calls \cup {k} /\ calls'[k] = c
        /\ \A j \in DOMAIN calls : j # k => calls'[j] = calls[j]
    BY <1>3 DEF With
  <2>7. \A j \in DOMAIN calls : j[1] # p
    BY <1>1, <2>1 DEF Calling
  <2>8. k[1] = p /\ k[2] = Len(runs[p].todo) /\ k \in Procs \X Nat
    BY <2>3
  <2> HIDE DEF k
  <2>9. /\ r \in Runs /\ r.step = "waiting" /\ r.spec = runs[p].spec /\ r.todo = runs[p].todo
        /\ r.env = runs[p].env /\ r.literals = runs[p].literals /\ r.since = runs[p].since
        /\ r.pipe = runs[p].pipe /\ r.buf = runs[p].buf /\ r.last = runs[p].last
        /\ r.queue = runs[p].queue /\ r.late = runs[p].late
    BY <2>1 DEF Runs, Steps
  <2> HIDE DEF r
  <2>10. runs'[p] = r
    BY <1>0, <1>3 DEF Types, Become
  <2>11. Done(p)' = Done(p)
    BY <2>9, <2>10 DEF Done
  <2>12. Asked(p)' /\ Reading(p)'
    BY <1>1, <2>1, <2>9, <2>10 DEF Asked, Reading
  <2>13. Redeeming(p)'
    BY <1>1, <2>1, <2>9, <2>10, <2>11 DEF Redeeming
  <2>14. FromTokens(p)'
    BY <1>1, <2>1, <2>9, <2>10, <2>11 DEF FromTokens
  <2>15. FromAliases(p)'
    BY <1>1, <2>1, <2>9, <2>10, <2>11 DEF FromAliases
  <2>16. Calling(p)'
    BY <1>1, <2>5, <2>6, <2>7, <2>8, <2>9, <2>10 DEF Calling
  <2>17. Hidden(p)'
    BY <1>1, <2>1, <2>9, <2>10 DEF Hidden, Known
  <2>18. RunOK(p)'
    BY <2>12, <2>13, <2>14, <2>15, <2>16, <2>17 DEF RunOK
  <2>19. \A j \in DOMAIN calls' :
           \/ j \in DOMAIN calls /\ calls'[j] = calls[j]
           \/ /\ j[1] = p /\ j \in Procs \X Nat
              /\ calls'[j] \in Calls
              /\ calls'[j].step = "sent"
              /\ calls'[j].token \in DOMAIN issued
              /\ calls'[j].again => calls'[j].token \in spent
    BY <2>4, <2>5, <2>6, <2>8
  <2> QED
    BY <1>0, <1>1, <1>3, <2>9, <2>18, <2>19, RunKeeps
<1> QED
  BY <1>1, <1>2, <1>3

\* The answer is taken: one variable more has what its token means.
LEMMA ReceiveAnswerKeeps ==
  ASSUME IInv, NEW p \in Procs, ReceiveAnswer(p) PROVE IInv'
<1>0. Types /\ told = {} /\ RunOK(p)
  BY DEF IInv, RunsOK
<1> DEFINE todo == runs[p].todo
           k == <<p, Len(todo)>>
           v == calls[k].value
           name == Head(todo).name
           env == With(runs[p].env, name, v)
           r == [runs[p] EXCEPT !.step = "redeem", !.todo = Tail(@), !.env = env,
                                !.literals = @ \cup {v}]
<1>1. /\ runs[p].step = "waiting" /\ k \in DOMAIN calls
      /\ UNCHANGED <<vault, broker, spent>> /\ UNCHANGED told
      /\ vault' = vault /\ issued' = issued
      /\ calls' = Restrict(calls, DOMAIN calls \ {k})
      /\ \/ calls[k].step = "answered" /\ Become(p, r)
         \/ Exit(p)
  BY DEF ReceiveAnswer, Elsewhere, broker
<1>2. \A j \in DOMAIN calls' : j \in DOMAIN calls /\ j # k /\ calls'[j] = calls[j]
  <2> HIDE DEF k
  <2> QED
    BY <1>1 DEF Restrict
<1>3. CASE Exit(p)
  BY <1>0, <1>1, <1>2, <1>3, ExitKeeps
<1>4. CASE calls[k].step = "answered" /\ Become(p, r)
  <2>1. /\ Asked(p) /\ Redeeming(p) /\ FromTokens(p) /\ FromAliases(p) /\ Calling(p) /\ Hidden(p)
        /\ runs[p] \in Runs
    BY <1>0 DEF RunOK, Types
  <2> DEFINE opt == runs[p].spec.resolve
             n == Done(p)
  <2>2. /\ todo \in Seq(Options) /\ todo # <<>> /\ opt \in Seq(Options)
        /\ n = Len(opt) - Len(todo) /\ n >= 0
        /\ \A i \in DOMAIN todo : todo[i] = opt[n + i]
    BY <1>1, <2>1, SpecAssumption DEF Redeeming, Asked, Calling, Done
  <2>3. /\ k[1] = p /\ v \in Values
        /\ <<issued[todo[1].token], v>> \in runs[p].since
    BY <1>1, <1>4, <2>1 DEF Calling
  <2>4. \A j \in DOMAIN calls' : j[1] # p
    <3>1. ASSUME NEW j \in DOMAIN calls', j[1] = p PROVE FALSE
      <4>1. j \in DOMAIN calls /\ j # k
        BY <1>2, <3>1
      <4>2. j[2] = Len(todo) /\ j \in Procs \X Nat
        BY <1>0, <1>1, <2>1, <3>1, <4>1 DEF Calling, Types
      <4> QED
        BY <3>1, <4>1, <4>2
    <3> QED
      BY <3>1
  <2> HIDE DEF v, k
  <2>5. /\ Head(todo) = todo[1] /\ Len(todo) \in Nat \ {0} /\ Head(todo) \in Options
        /\ Tail(todo) \in Seq(Options) /\ Len(Tail(todo)) = Len(todo) - 1
        /\ \A i \in 1 .. Len(todo) - 1 : Tail(todo)[i] = todo[i + 1]
    <3> HIDE DEF todo
    <3> QED
      BY <2>2, Rest
  <2>6. /\ n \in Nat /\ n + 1 \in 1 .. Len(opt) /\ Len(opt) \in Nat
        /\ todo[1] = opt[n + 1] /\ DOMAIN todo = 1 .. Len(todo)
    <3>1. Len(opt) \in Nat /\ DOMAIN todo = 1 .. Len(todo)
      BY <2>2
    <3> HIDE DEF opt, n, todo
    <3> QED
      BY <2>2, <2>5, <3>1
  <2>7. name = opt[n + 1].name /\ name \in Variables
    BY <2>5, <2>6 DEF Variables
  <2> HIDE DEF name
  <2>8. /\ DOMAIN env = DOMAIN runs[p].env \cup {name} /\ env[name] = v
        /\ \A x \in DOMAIN runs[p].env : x # name => env[x] = runs[p].env[x]
    BY DEF With
  <2>9. env \in Envs
    <3>1. PICK S \in SUBSET Variables : runs[p].env \in [S -> Values]
      <4>1. runs[p].env \in Envs
        BY <2>1 DEF Runs
      <4> QED
        BY <4>1 DEF Envs
    <3>2. env \in [S \cup {name} -> Values] /\ S \cup {name} \in SUBSET Variables
      BY <2>3, <2>7, <3>1 DEF With
    <3> HIDE DEF env
    <3> QED
      BY <3>2 DEF Envs
  <2> HIDE DEF env
  <2>10. /\ r \in Runs /\ r.step = "redeem" /\ r.spec = runs[p].spec /\ r.todo = Tail(todo)
         /\ r.env = env /\ r.literals = runs[p].literals \cup {v} /\ r.since = runs[p].since
         /\ r.pipe = runs[p].pipe /\ r.buf = runs[p].buf /\ r.last = runs[p].last
         /\ r.queue = runs[p].queue /\ r.late = runs[p].late
    BY <2>1, <2>3, <2>5, <2>9 DEF Runs, Steps
  <2> HIDE DEF r
  <2>11. runs'[p] = r
    BY <1>0, <1>4 DEF Types, Become
  <2>12. Done(p)' = n + 1
    <3>1. Done(p)' = Len(opt) - Len(Tail(todo))
      BY <2>10, <2>11 DEF Done
    <3>2. Len(opt) \in Nat /\ Len(todo) \in Nat
      BY <2>5, <2>6
    <3> HIDE DEF opt, todo, n
    <3> QED
      BY <2>2, <2>5, <3>1, <3>2
  <2>13. Asked(p)' /\ Reading(p)'
    BY <1>1, <2>1, <2>10, <2>11 DEF Asked, Reading
  <2>14. Redeeming(p)'
    <3>1. \A i \in DOMAIN Tail(todo) : Tail(todo)[i] = opt[(n + 1) + i]
      <4> SUFFICES ASSUME NEW i \in DOMAIN Tail(todo) PROVE Tail(todo)[i] = opt[(n + 1) + i]
        OBVIOUS
      <4>1. DOMAIN Tail(todo) = 1 .. Len(todo) - 1
        BY <2>5
      <4> HIDE DEF opt, todo, n
      <4>2. i \in 1 .. Len(todo) - 1 /\ Len(todo) \in Nat
        BY <2>5, <4>1
      <4>3. i + 1 \in 1 .. Len(todo)
        BY <4>2
      <4>4. n + (i + 1) = (n + 1) + i
        BY <2>6, <4>2
      <4> QED
        BY <2>2, <2>5, <2>6, <4>2, <4>3, <4>4
    <3>2. DOMAIN env = DOMAIN runs[p].spec.file \cup DOMAIN runs[p].spec.via
                       \cup {opt[i].name : i \in 1 .. n + 1}
      <4>1. DOMAIN runs[p].env = DOMAIN runs[p].spec.file \cup DOMAIN runs[p].spec.via
                                 \cup {opt[i].name : i \in 1 .. n}
        BY <1>1, <2>1 DEF Redeeming
      <4>2. {opt[i].name : i \in 1 .. n + 1} = {opt[i].name : i \in 1 .. n} \cup {opt[n + 1].name}
        <5>1. 1 .. n + 1 = (1 .. n) \cup {n + 1}
          BY <2>6
        <5> HIDE DEF opt, n
        <5> QED
          BY <5>1
      <4> QED
        BY <2>7, <2>8, <4>1, <4>2
    <3>3. n + 1 >= 0
      BY <2>6
    <3> DEFINE rest == Tail(todo)
    <3>4. /\ runs'[p].todo = rest /\ runs'[p].env = env /\ runs'[p].spec.resolve = opt
          /\ runs'[p].spec.file = runs[p].spec.file /\ runs'[p].spec.via = runs[p].spec.via
          /\ rest \in Seq(Options)
      BY <2>5, <2>10, <2>11
    <3> HIDE DEF n, todo, opt, rest
    <3> QED
      BY <2>12, <3>1, <3>2, <3>3, <3>4 DEF Redeeming, rest
  <2>15. FromTokens(p)'
    <3> SUFFICES ASSUME NEW i \in 1 .. n + 1,
                        \A m \in i + 1 .. n + 1 : opt[m].name # opt[i].name
                 PROVE  <<issued[opt[i].token], env[opt[i].name]>> \in runs[p].since
      <4> HIDE DEF n
      <4> QED
        BY <1>1, <2>10, <2>11, <2>12 DEF FromTokens
    <3>1. CASE i = n + 1
      BY <2>3, <2>6, <2>7, <2>8, <3>1
    <3>2. CASE i # n + 1
      <4>1. /\ i \in 1 .. n /\ n + 1 \in i + 1 .. n + 1
            /\ \A m \in i + 1 .. n : m \in i + 1 .. n + 1
        <5> HIDE DEF n
        <5> QED
          BY <2>6, <3>2
      <4>2. opt[i].name # name
        BY <2>7, <4>1
      <4>3. <<issued[opt[i].token], runs[p].env[opt[i].name]>> \in runs[p].since
        BY <1>1, <2>1, <4>1 DEF FromTokens
      <4>4. opt[i].name \in DOMAIN runs[p].env
        BY <1>1, <2>1, <4>1 DEF Redeeming
      <4> QED
        BY <2>8, <4>2, <4>3, <4>4
    <3> QED
      BY <3>1, <3>2
  <2>16. FromAliases(p)'
    <3> SUFFICES ASSUME NEW x \in DOMAIN runs[p].spec.via \cup DOMAIN runs[p].spec.file,
                        \A i \in 1 .. n + 1 : opt[i].name # x
                 PROVE  <<IF x \in DOMAIN runs[p].spec.via THEN runs[p].spec.via[x]
                          ELSE runs[p].spec.file[x], env[x]>> \in runs[p].since
      <4> HIDE DEF n
      <4> QED
        BY <1>1, <2>10, <2>11, <2>12 DEF FromAliases
    <3>1. /\ n + 1 \in 1 .. n + 1
          /\ \A i \in 1 .. n : i \in 1 .. n + 1
      <4> HIDE DEF n
      <4> QED
        BY <2>6
    <3>2. x # name
      BY <2>7, <3>1
    <3>3. x \in DOMAIN runs[p].env
      BY <1>1, <2>1 DEF Redeeming
    <3>4. \A i \in 1 .. n : opt[i].name # x
      BY <3>1
    <3> QED
      BY <1>1, <2>1, <2>8, <3>2, <3>3, <3>4 DEF FromAliases
  <2>17. Calling(p)'
    BY <2>4, <2>10, <2>11 DEF Calling
  <2>18. Hidden(p)'
    <3>1. \A x \in DOMAIN env : env[x] \in runs[p].literals \cup {v}
      BY <2>1, <2>8 DEF Hidden, Known
    <3> QED
      BY <1>1, <2>1, <2>10, <2>11, <3>1 DEF Hidden, Known
  <2>19. RunOK(p)'
    BY <2>13, <2>14, <2>15, <2>16, <2>17, <2>18 DEF RunOK
  <2> QED
    BY <1>0, <1>1, <1>2, <1>4, <2>10, <2>19, RunKeeps
<1> QED
  BY <1>1, <1>3, <1>4



\* Once the command runs, what is hidden is all that matters of an invocation.
LEMMA RunningKeeps ==
  ASSUME IInv, NEW p \in Procs, NEW r \in Runs, Become(p, r),
         r.step \in {"running", "exited", "closed"}, UNCHANGED <<vault, broker, spent>>, told' = {},
         calls' = calls, Hidden(p)'
  PROVE  IInv'
<1>1. runs'[p] = r
  BY DEF IInv, Types, Become
<1>2. /\ Asked(p)' /\ Reading(p)' /\ Redeeming(p)'
      /\ FromTokens(p)' /\ FromAliases(p)' /\ Calling(p)'
  BY <1>1 DEF Asked, Reading, Redeeming, FromTokens, FromAliases, Calling
<1>3. RunOK(p)'
  BY <1>2 DEF RunOK
<1> QED
  BY <1>3, RunKeeps

\* No answer is waited for any longer, or the command is started.
LEMMA SpawnKeeps ==
  ASSUME IInv, NEW p \in Procs, GiveUp(p) \/ SpawnPrivileged(p) PROVE IInv'
<1>0. Types /\ told = {} /\ Hidden(p) /\ runs[p] \in Runs
  BY DEF IInv, RunsOK, RunOK, Types
<1> DEFINE r == [runs[p] EXCEPT !.step = "running", !.since = {}]
<1>1. /\ UNCHANGED <<vault, broker, spent>> /\ UNCHANGED <<calls, told>>
      /\ Exit(p) \/ (runs[p].step = "redeem" /\ Become(p, r))
  BY DEF GiveUp, SpawnPrivileged, Elsewhere
<1>2. CASE Exit(p)
  BY <1>0, <1>1, <1>2, ExitKeeps
<1>3. CASE runs[p].step = "redeem" /\ Become(p, r)
  <2>1. /\ r \in Runs /\ r.step = "running" /\ r.spec = runs[p].spec
        /\ r.env = runs[p].env /\ r.literals = runs[p].literals
        /\ r.pipe = runs[p].pipe /\ r.buf = runs[p].buf /\ r.last = runs[p].last
        /\ r.queue = runs[p].queue /\ r.late = runs[p].late
    BY <1>0 DEF Runs, Steps
  <2> HIDE DEF r
  <2>2. runs'[p] = r
    BY <1>0, <1>3 DEF Types, Become
  <2>3. Hidden(p)'
    BY <1>0, <1>3, <2>1, <2>2 DEF Hidden, Known
  <2> QED
    BY <1>0, <1>1, <1>3, <2>1, <2>3, RunningKeeps
<1> QED
  BY <1>1, <1>2, <1>3

\* The command prints what it has, and that the redactor knows.
LEMMA ChildWritesKeeps ==
  ASSUME IInv, NEW p \in Procs, ChildWrites(p) PROVE IInv'
<1>0. Types /\ told = {} /\ Hidden(p) /\ runs[p] \in Runs
  BY DEF IInv, RunsOK, RunOK, Types
<1>1. PICK v \in Range(runs[p].env), end \in {<<>>, <<Nl>>} :
        Become(p, [runs[p] EXCEPT !.pipe = @ \o Whole(v) \o end])
  BY DEF ChildWrites
<1>2. /\ runs[p].step = "running" /\ UNCHANGED <<vault, broker, spent>>
      /\ UNCHANGED told /\ calls' = calls
  BY DEF ChildWrites, Elsewhere
<1>3. v \in Values /\ v \in runs[p].literals
  <2>1. PICK n \in DOMAIN runs[p].env : runs[p].env[n] = v
    BY <1>1 DEF Range
  <2>2. runs[p].env \in Envs
    BY <1>0 DEF Runs
  <2> QED
    BY <1>0, <2>1, <2>2 DEF Hidden, Known, Envs
<1> DEFINE out == Whole(v) \o end
           pipe == runs[p].pipe \o Whole(v) \o end
           r == [runs[p] EXCEPT !.pipe = pipe]
<1>4. out \in Seq(Pieces) /\ \A i \in DOMAIN out : out[i] = Nl \/ out[i][1] = v
  <2>1. <<v, 1>> \in Pieces /\ <<v, 2>> \in Pieces /\ Nl \in Pieces
    BY <1>3 DEF Pieces
  <2>2. CASE end = <<>>
    BY <2>1, <2>2 DEF Whole
  <2>3. CASE end = <<Nl>>
    BY <2>1, <2>3 DEF Whole
  <2> QED
    BY <1>1, <2>2, <2>3
<1>5. pipe \in Seq(Pieces) /\ Known(runs[p], pipe)
  <2>1. runs[p].pipe \in Seq(Pieces)
    BY <1>0 DEF Runs
  <2>2. Known(runs[p], runs[p].pipe)
    BY <1>0 DEF Hidden
  <2>3. pipe = runs[p].pipe \o out
    <3> DEFINE x == runs[p].pipe
               y == Whole(v)
    <3>1. <<v, 1>> \in Pieces /\ <<v, 2>> \in Pieces /\ Nl \in Pieces
      BY <1>3 DEF Pieces
    <3>2. x \in Seq(Pieces) /\ y \in Seq(Pieces) /\ end \in Seq(Pieces)
      <4>1. end \in Seq(Pieces)
        <5>1. <<>> \in Seq(Pieces) /\ <<Nl>> \in Seq(Pieces)
          BY <3>1
        <5>2. end = <<>> \/ end = <<Nl>>
          BY <1>1
        <5> QED
          BY <5>1, <5>2
      <4>2. y \in Seq(Pieces)
        BY <3>1 DEF Whole
      <4> QED
        BY <2>1, <4>1, <4>2
    <3>3. pipe = (x \o y) \o end /\ out = y \o end
      OBVIOUS
    <3> HIDE DEF x, y, pipe, out
    <3>4. (x \o y) \o end = x \o (y \o end)
      BY <3>2
    <3> QED
      BY <3>3, <3>4 DEF x
  <2> HIDE DEF out, pipe
  <2> QED
    BY <1>3, <1>4, <2>1, <2>2, <2>3 DEF Known
<1> HIDE DEF pipe, out
<1>6. /\ r \in Runs /\ r.step = "running" /\ r.spec = runs[p].spec
      /\ r.env = runs[p].env /\ r.literals = runs[p].literals
      /\ r.pipe = pipe /\ r.buf = runs[p].buf /\ r.last = runs[p].last
      /\ r.queue = runs[p].queue /\ r.late = runs[p].late
  BY <1>0, <1>2, <1>5 DEF Runs
<1>7. Become(p, r)
  BY <1>1 DEF pipe
<1> HIDE DEF r
<1>8. runs'[p] = r
  BY <1>0, <1>7 DEF Types, Become
<1>9. Hidden(p)'
  BY <1>0, <1>2, <1>5, <1>6, <1>8 DEF Hidden, Known
<1> QED
  BY <1>0, <1>2, <1>6, <1>7, <1>9, RunningKeeps

\* The command has ended; what it printed is still to be read.
LEMMA ChildExitsKeeps ==
  ASSUME IInv, NEW p \in Procs, ChildExits(p) PROVE IInv'
<1>0. Types /\ told = {} /\ Hidden(p) /\ runs[p] \in Runs
  BY DEF IInv, RunsOK, RunOK, Types
<1> DEFINE r == [runs[p] EXCEPT !.step = "exited", !.env = <<>>]
<1>1. /\ runs[p].step = "running" /\ UNCHANGED <<vault, broker, spent>>
      /\ UNCHANGED told /\ calls' = calls /\ Become(p, r)
  BY DEF ChildExits, Elsewhere
<1>2. <<>> \in Envs
  <2>1. <<>> \in [{} -> Values] /\ {} \in SUBSET Variables
    OBVIOUS
  <2> QED
    BY <2>1 DEF Envs
<1>3. /\ r \in Runs /\ r.step = "exited" /\ r.spec = runs[p].spec
      /\ r.env = <<>> /\ r.literals = runs[p].literals
      /\ r.pipe = runs[p].pipe /\ r.buf = runs[p].buf /\ r.last = runs[p].last
      /\ r.queue = runs[p].queue /\ r.late = runs[p].late
  BY <1>0, <1>2 DEF Runs, Steps
<1> HIDE DEF r
<1>4. runs'[p] = r
  BY <1>0, <1>1 DEF Types, Become
<1>5. Hidden(p)'
  BY <1>0, <1>1, <1>3, <1>4 DEF Hidden, Known
<1> QED
  BY <1>0, <1>1, <1>3, <1>5, RunningKeeps


\* What the redactor is handed was in the pipe.
LEMMA ReadChunkKeeps ==
  ASSUME IInv, NEW p \in Procs, ReadChunk(p) PROVE IInv'
<1>0. Types /\ told = {} /\ Hidden(p) /\ runs[p] \in Runs
  BY DEF IInv, RunsOK, RunOK, Types
<1> DEFINE old == runs[p]
           chunk(n) == SubSeq(old.pipe, 1, n)
           left(n) == SubSeq(old.pipe, n + 1, Len(old.pipe))
           queue(n) == Append(old.queue, chunk(n))
           r(n) == [old EXCEPT !.pipe = left(n), !.queue = queue(n)]
<1>1. /\ old.pipe # <<>> /\ UNCHANGED <<vault, broker, spent>> /\ UNCHANGED told
      /\ calls' = calls
  BY DEF ReadChunk, Elsewhere
<1>2. PICK n \in DOMAIN old.pipe : Become(p, r(n))
  BY DEF ReadChunk
<1>3. /\ old.pipe \in Seq(Pieces) /\ old.queue \in Seq(Seq(Pieces))
      /\ Known(old, old.pipe) /\ \A i \in DOMAIN old.queue : Known(old, old.queue[i])
      /\ old.step \in {"running", "exited", "closed"}
  BY <1>0, <1>1 DEF Runs, Hidden
<1> HIDE DEF chunk, left, r
<1>4. /\ chunk(n) \in Seq(Pieces) /\ Known(old, chunk(n))
      /\ left(n) \in Seq(Pieces) /\ Known(old, left(n))
  <2> DEFINE q == old.pipe
             known(x) == \A i \in DOMAIN x :
                           x[i] = Nl \/ x[i][1] \in old.literals \cup Patterned \cup old.late
  <2>1. q \in Seq(Pieces) /\ n \in 1 .. Len(q) /\ known(q)
    BY <1>2, <1>3 DEF Known
  <2> HIDE DEF known
  <2>2. /\ Len(q) \in Nat
        /\ SubSeq(q, 1, n) \in Seq(Pieces) /\ Len(SubSeq(q, 1, n)) = n
        /\ \A i \in 1 .. n : SubSeq(q, 1, n)[i] = q[i]
    <3> HIDE DEF q
    <3> QED
      BY <2>1
  <2>3. /\ SubSeq(q, n + 1, Len(q)) \in Seq(Pieces) /\ Len(SubSeq(q, n + 1, Len(q))) = Len(q) - n
        /\ \A i \in 1 .. Len(q) - n : SubSeq(q, n + 1, Len(q))[i] = q[n + i]
    <3> HIDE DEF q
    <3> QED
      BY <2>1
  <2>4. \A i \in 1 .. n : i \in DOMAIN q
    <3> HIDE DEF q
    <3> QED
      BY <2>1
  <2>5. \A i \in 1 .. Len(q) - n : n + i \in DOMAIN q
    <3> HIDE DEF q
    <3> QED
      BY <2>1
  <2>6. DOMAIN SubSeq(q, 1, n) = 1 .. n /\ DOMAIN SubSeq(q, n + 1, Len(q)) = 1 .. Len(q) - n
    <3> HIDE DEF q
    <3> QED
      BY <2>1, <2>2, <2>3
  <2>7. known(SubSeq(q, 1, n))
    BY <2>1, <2>2, <2>4, <2>6 DEF known
  <2>8. known(SubSeq(q, n + 1, Len(q)))
    BY <2>1, <2>3, <2>5, <2>6 DEF known
  <2> QED
    BY <2>2, <2>3, <2>7, <2>8 DEF chunk, left, known, Known
<1>5. queue(n) \in Seq(Seq(Pieces)) /\ \A i \in DOMAIN queue(n) : Known(old, queue(n)[i])
  <2> DEFINE q == old.queue
             c == chunk(n)
             known(x) == Known(old, x)
  <2>1. q \in Seq(Seq(Pieces)) /\ c \in Seq(Pieces) /\ known(c) /\ \A i \in DOMAIN q : known(q[i])
    BY <1>3, <1>4
  <2> HIDE DEF q, c, known
  <2>2. Append(q, c) \in Seq(Seq(Pieces)) /\ \A i \in DOMAIN Append(q, c) : known(Append(q, c)[i])
    BY <2>1
  <2> QED
    BY <2>2 DEF q, c, known
<1> HIDE DEF queue
<1>6. /\ r(n) \in Runs /\ r(n).step = old.step /\ r(n).spec = old.spec
      /\ r(n).env = old.env /\ r(n).literals = old.literals /\ r(n).late = old.late
      /\ r(n).pipe = left(n) /\ r(n).queue = queue(n) /\ r(n).buf = old.buf /\ r(n).last = old.last
  <2>1. old \in Runs
    BY <1>0
  <2> HIDE DEF old
  <2> QED
    BY <1>4, <1>5, <2>1 DEF r, Runs
<1>7. runs'[p] = r(n)
  BY <1>0, <1>2 DEF Types, Become
<1>8. /\ Known(r(n), left(n)) /\ Known(r(n), old.buf)
      /\ \A i \in DOMAIN queue(n) : Known(r(n), queue(n)[i])
  BY <1>0, <1>4, <1>5, <1>6 DEF Known, Hidden
<1>9. Hidden(p)'
  BY <1>0, <1>3, <1>6, <1>7, <1>8 DEF Hidden
<1> QED
  BY <1>0, <1>1, <1>2, <1>3, <1>6, <1>9, RunningKeeps

\* What the agent is told is what the redactor passes on, joined to what it was
\* told last: no value comes of it but what is late.
LEMMA Telling ==
  ASSUME told = {}, NEW r, NEW out \in Seq(Pieces), Tell(r, out),
         r.last \in {<<>>, <<Nl>>} \/ r.spec.noRedact,
         ~r.spec.noRedact => Shown(out) \subseteq r.late
  PROVE  told' = {}
<1>1. CASE r.spec.noRedact
  BY <1>1 DEF Tell
<1>2. CASE ~r.spec.noRedact
  <2>0. Nl \in Pieces
    BY DEF Pieces
  <2>1. r.last \in Seq(Pieces)
    <3>1. <<>> \in Seq(Pieces) /\ <<Nl>> \in Seq(Pieces)
      BY <2>0
    <3>2. r.last = <<>> \/ r.last = <<Nl>>
      BY <1>2
    <3> QED
      BY <3>1, <3>2
  <2>2. Shown(r.last) \subseteq r.late /\ (r.last # <<>> => r.last[Len(r.last)] = Nl)
    BY <1>2 DEF Shown
  <2>3. Shown(r.last \o out) \subseteq r.late
    BY <1>2, <2>1, <2>2, Joined
  <2> QED
    BY <1>2, <2>3 DEF Tell
<1> QED
  BY <1>1, <1>2

\* A chunk goes through the redactor.
LEMMA TransformChunkKeeps ==
  ASSUME IInv, NEW p \in Procs, TransformChunk(p) PROVE IInv'
<1>0. Types /\ told = {} /\ Hidden(p) /\ runs[p] \in Runs
  BY DEF IInv, RunsOK, RunOK, Types
<1> DEFINE old == runs[p]
           chunk == Head(old.queue)
           queue == Tail(old.queue)
           t == Forward(old, chunk)
           last == LastPiece(old, t)
           r == [old EXCEPT !.queue = queue, !.buf = t.buf, !.last = last]
<1>1. /\ old.queue # <<>> /\ UNCHANGED <<vault, broker, spent>> /\ calls' = calls
      /\ Become(p, r) /\ Tell(old, t.out)
  BY DEF TransformChunk, Elsewhere
<1>2. /\ old.queue \in Seq(Seq(Pieces)) /\ old.buf \in Seq(Pieces) /\ old.last \in Seq(Pieces)
      /\ Known(old, old.buf) /\ \A i \in DOMAIN old.queue : Known(old, old.queue[i])
      /\ old.step \in {"running", "exited", "closed"}
      /\ old.last \in {<<>>, <<Nl>>} \/ old.spec.noRedact
  BY <1>0, <1>1 DEF Runs, Hidden
<1> HIDE DEF t, last, r
<1>3. /\ chunk \in Seq(Pieces) /\ Known(old, chunk)
      /\ queue \in Seq(Seq(Pieces)) /\ \A i \in DOMAIN queue : Known(old, queue[i])
  <2> DEFINE q == old.queue
             known(x) == Known(old, x)
  <2>1. q \in Seq(Seq(Pieces)) /\ q # <<>> /\ \A i \in DOMAIN q : known(q[i])
    BY <1>1, <1>2
  <2> HIDE DEF q, known
  <2>2. /\ Head(q) = q[1] /\ Head(q) \in Seq(Pieces)
        /\ Tail(q) \in Seq(Seq(Pieces)) /\ Len(Tail(q)) = Len(q) - 1
        /\ \A i \in 1 .. Len(q) - 1 : Tail(q)[i] = q[i + 1]
        /\ Len(q) \in Nat \ {0}
    BY <2>1, Rest
  <2>3. known(Head(q))
    BY <2>1, <2>2
  <2>4. \A i \in DOMAIN Tail(q) : known(Tail(q)[i])
    BY <2>1, <2>2
  <2> QED
    BY <2>2, <2>3, <2>4 DEF q, known
<1> HIDE DEF chunk, queue
<1>4. /\ t.out \in Seq(Pieces) /\ t.buf \in Seq(Pieces) /\ t.cut \in BOOLEAN
      /\ Known(old, t.buf) /\ Len(t.buf) < BufferLimit
      /\ ~old.spec.noRedact =>
           /\ Shown(t.out) \subseteq old.late
           /\ t.out # <<>> => t.cut \/ t.out[Len(t.out)] = Nl
  <2>1. CASE old.spec.noRedact
    <3>1. t = [out |-> chunk, buf |-> <<>>, cut |-> FALSE]
      BY <2>1 DEF t, Forward
    <3> QED
      BY <1>3, <2>1, <3>1, LimitAssumption DEF Known
  <2>2. CASE ~old.spec.noRedact
    <3> DEFINE x == old.buf
               L == old.literals
               U == old.late
    <3>1. t = Transform(x, chunk, L)
      BY <2>2 DEF t, Forward
    <3>2. /\ x \in Seq(Pieces) /\ \A i \in DOMAIN x : x[i] = Nl \/ x[i][1] \in L \cup Patterned \cup U
          /\ \A i \in DOMAIN chunk : chunk[i] = Nl \/ chunk[i][1] \in L \cup Patterned \cup U
      BY <1>2, <1>3 DEF Known
    <3> HIDE DEF x, L, U
    <3>3. LET u == Transform(x, chunk, L) IN
          /\ u.out \in Seq(Pieces) /\ u.buf \in Seq(Pieces) /\ u.cut \in BOOLEAN
          /\ \A i \in DOMAIN u.buf : u.buf[i] = Nl \/ u.buf[i][1] \in L \cup Patterned \cup U
          /\ Len(u.buf) < BufferLimit
          /\ Shown(u.out) \subseteq U
          /\ ~u.cut /\ u.out # <<>> => u.out[Len(u.out)] = Nl
      BY <1>3, <3>2, Streamed
    <3>4. \A i \in DOMAIN t.buf : t.buf[i] = Nl \/ t.buf[i][1] \in L \cup Patterned \cup U
      BY <3>1, <3>3
    <3>5. Known(old, t.buf)
      BY <3>4 DEF Known, L, U
    <3>6. Shown(t.out) \subseteq old.late
      BY <3>1, <3>3 DEF U
    <3> QED
      BY <3>1, <3>3, <3>5, <3>6
  <2> QED
    BY <2>1, <2>2
<1>5. last \in Seq(Pieces) /\ (last \in {<<>>, <<Nl>>} \/ old.spec.noRedact)
  <2> DEFINE out == t.out
  <2>1. out \in Seq(Pieces)
    BY <1>4
  <2>2. CASE t.cut \/ out = <<>>
    BY <1>2, <1>4, <2>2 DEF last, LastPiece
  <2>3. CASE ~t.cut /\ out # <<>>
    <3>1. last = <<out[Len(out)]>>
      BY <2>1, <2>3 DEF last, LastPiece, Last
    <3>2. out[Len(out)] \in Pieces
      <4> HIDE DEF out
      <4> QED
        BY <2>1, <2>3
    <3> QED
      BY <1>4, <2>3, <3>1, <3>2
  <2> QED
    BY <2>2, <2>3
<1>6. told' = {}
  BY <1>0, <1>1, <1>2, <1>4, Telling
<1>7. /\ r \in Runs /\ r.step = old.step /\ r.spec = old.spec
      /\ r.env = old.env /\ r.literals = old.literals /\ r.late = old.late
      /\ r.pipe = old.pipe /\ r.queue = queue /\ r.buf = t.buf /\ r.last = last
  <2>1. old \in Runs
    BY <1>0
  <2> HIDE DEF old
  <2> QED
    BY <1>3, <1>4, <1>5, <2>1 DEF r, Runs
<1>8. runs'[p] = r
  BY <1>0, <1>1 DEF Types, Become
<1>9. /\ Known(r, r.pipe) /\ Known(r, r.buf)
      /\ \A i \in DOMAIN r.queue : Known(r, r.queue[i])
  BY <1>0, <1>3, <1>4, <1>7 DEF Known, Hidden
<1>10. Hidden(p)'
  BY <1>0, <1>2, <1>4, <1>5, <1>7, <1>8, <1>9 DEF Hidden
<1> QED
  BY <1>0, <1>1, <1>2, <1>6, <1>7, <1>10, RunningKeeps

\* With the literals gone, a value that is still to be redacted is of a known
\* pattern, or late.
LEMMA CloseKeeps ==
  ASSUME IInv, NEW p \in Procs, Close(p) PROVE IInv'
<1>0. Types /\ told = {} /\ Hidden(p) /\ runs[p] \in Runs
  BY DEF IInv, RunsOK, RunOK, Types
<1> DEFINE old == runs[p]
           waiting == Range(old.buf) \cup UNION {Range(old.queue[i]) : i \in DOMAIN old.queue}
           missed == {v \in Values \ Patterned : \E x \in waiting : x[1] = v}
           r == [old EXCEPT !.step = "closed", !.literals = {}, !.late = missed]
<1>1. /\ old.step = "exited" /\ old.pipe = <<>> /\ UNCHANGED <<vault, broker, spent>>
      /\ UNCHANGED told /\ calls' = calls /\ Become(p, r)
  BY DEF Close, PipesClosed, Elsewhere
<1> DEFINE known(x) == \A i \in DOMAIN x : x[i] = Nl \/ x[i][1] \in {} \cup Patterned \cup missed
<1>2. ASSUME NEW x \in Seq(Pieces), Known(old, x), Range(x) \subseteq waiting
      PROVE  known(x)
  <2> SUFFICES ASSUME NEW i \in DOMAIN x, x[i] # Nl, x[i][1] \notin Patterned
               PROVE  x[i][1] \in missed
    OBVIOUS
  <2>1. x[i][1] \in old.literals \cup old.late
    BY <1>2 DEF Known
  <2>2. x[i][1] \in Values
    BY <1>0, <2>1 DEF Runs
  <2>3. x[i] \in waiting
    BY <1>2 DEF Range
  <2> HIDE DEF waiting
  <2> QED
    BY <2>2, <2>3
<1>3. /\ old.buf \in Seq(Pieces) /\ Known(old, old.buf)
      /\ \A i \in DOMAIN old.queue : old.queue[i] \in Seq(Pieces) /\ Known(old, old.queue[i])
  <2>1. old.queue \in Seq(Seq(Pieces))
    BY <1>0 DEF Runs
  <2> QED
    BY <1>0, <2>1 DEF Runs, Hidden
<1>4. known(old.buf) /\ \A i \in DOMAIN old.queue : known(old.queue[i])
  <2> HIDE DEF known, missed
  <2>1. Range(old.buf) \subseteq waiting
    OBVIOUS
  <2>2. \A i \in DOMAIN old.queue : Range(old.queue[i]) \subseteq waiting
    OBVIOUS
  <2> HIDE DEF waiting
  <2> QED
    BY <1>2, <1>3, <2>1, <2>2
<1>5. missed \subseteq Values
  OBVIOUS
<1> HIDE DEF missed
<1>6. /\ r \in Runs /\ r.step = "closed" /\ r.spec = old.spec
      /\ r.env = old.env /\ r.literals = {} /\ r.late = missed
      /\ r.pipe = old.pipe /\ r.queue = old.queue /\ r.buf = old.buf /\ r.last = old.last
  <2>1. old \in Runs
    BY <1>0
  <2> HIDE DEF old
  <2> QED
    BY <1>5, <2>1 DEF Runs, Steps
<1>7. old.env = <<>>
  BY <1>0, <1>1 DEF Hidden
<1> HIDE DEF r
<1>8. runs'[p] = r
  BY <1>0, <1>1 DEF Types, Become
<1>9. /\ Known(r, r.pipe) /\ Known(r, r.buf)
      /\ \A i \in DOMAIN r.queue : Known(r, r.queue[i])
  BY <1>1, <1>4, <1>6 DEF Known
<1>10. Hidden(p)'
  BY <1>0, <1>1, <1>6, <1>7, <1>8, <1>9 DEF Hidden
<1> QED
  BY <1>0, <1>1, <1>6, <1>10, RunningKeeps

\* What was left of a line goes out redacted as well.
LEMMA FlushKeeps ==
  ASSUME IInv, NEW p \in Procs, Flush(p) PROVE IInv'
<1>0. Types /\ told = {} /\ Hidden(p) /\ runs[p] \in Runs
  BY DEF IInv, RunsOK, RunOK, Types
<1> DEFINE old == runs[p]
           out == FlushBufferThroughRedactor(old.buf, old.literals)
           r == [old EXCEPT !.buf = <<>>, !.last = <<>>]
<1>1. /\ old.pipe = <<>> /\ old.queue = <<>> /\ Tell(old, out)
      /\ UNCHANGED <<vault, broker, spent>> /\ calls' = calls
      /\ Exit(p) \/ (old.step = "exited" /\ Become(p, r))
  BY DEF Flush, Elsewhere
<1>2. /\ old.buf \in Seq(Pieces) /\ old.last \in Seq(Pieces) /\ Known(old, old.buf)
      /\ old.last \in {<<>>, <<Nl>>} \/ old.spec.noRedact
  BY <1>0 DEF Runs, Hidden
<1>3. out \in Seq(Pieces) /\ Shown(out) \subseteq old.late
  BY <1>2, Redacted DEF Known, FlushBufferThroughRedactor
<1> HIDE DEF out
<1>4. told' = {}
  BY <1>0, <1>1, <1>2, <1>3, Telling
<1>5. CASE Exit(p)
  BY <1>1, <1>4, <1>5, ExitKeeps
<1>6. CASE old.step = "exited" /\ Become(p, r)
  <2>1. /\ r \in Runs /\ r.step = "exited" /\ r.spec = old.spec
        /\ r.env = old.env /\ r.literals = old.literals /\ r.late = old.late
        /\ r.pipe = <<>> /\ r.queue = <<>> /\ r.buf = <<>> /\ r.last = <<>>
    <3>1. old \in Runs
      BY <1>0
    <3>2. old.pipe = <<>> /\ old.queue = <<>> /\ old.step = "exited"
      BY <1>1, <1>6
    <3> HIDE DEF old
    <3> QED
      BY <3>1, <3>2 DEF Runs
  <2> HIDE DEF r
  <2>2. runs'[p] = r
    BY <1>0, <1>6 DEF Types, Become
  <2>3. r.env = <<>> /\ Known(r, <<>>)
    BY <1>0, <1>6, <2>1 DEF Hidden, Known
  <2>4. Hidden(p)'
    BY <2>1, <2>2, <2>3, LimitAssumption DEF Hidden
  <2> QED
    BY <1>0, <1>1, <1>4, <1>6, <2>1, <2>4, RunningKeeps
<1> QED
  BY <1>1, <1>5, <1>6

\* Others change a secret: a run that gathers values has one more that its alias
\* had since exec was called.
LEMMA ChangeSecretKeeps ==
  ASSUME IInv, ChangeSecret PROVE IInv'
<1>0. Types /\ StoresOK /\ CallsOK /\ RunsOK /\ told = {}
  BY DEF IInv
<1>1. PICK a \in Aliases, v \in Values \cup {Gone} :
        /\ vault' = [vault EXCEPT ![a] = v]
        /\ runs' = [p \in Procs |->
                      IF runs[p].step \notin {"aliases", "redeem", "waiting"} THEN runs[p]
                      ELSE [runs[p] EXCEPT !.since = @ \cup {<<a, v>>}]]
  BY DEF ChangeSecret
<1>2. UNCHANGED <<up, store, bound, issued, calls, told, spent>>
  BY DEF ChangeSecret, broker
<1>3. /\ vault' \in [Aliases -> Values \cup {Gone}] /\ vault'[a] = v
      /\ \A b \in Aliases : b # a => vault'[b] = vault[b]
  BY <1>0, <1>1 DEF Types
<1>4. ASSUME NEW p \in Procs
      PROVE  runs'[p] \in Runs /\ RunOK(p)'
  <2>1. /\ runs[p] \in Runs /\ Asked(p) /\ Reading(p) /\ Redeeming(p)
        /\ FromTokens(p) /\ FromAliases(p) /\ Calling(p) /\ Hidden(p)
    BY <1>0 DEF Types, RunsOK, RunOK
  <2>2. CASE runs[p].step \notin {"aliases", "redeem", "waiting"}
    <3>1. runs'[p] = runs[p]
      BY <1>1, <2>2
    <3>2. /\ Asked(p)' /\ Reading(p)' /\ Redeeming(p)' /\ FromTokens(p)' /\ FromAliases(p)'
      BY <2>2, <3>1 DEF Asked, Reading, Redeeming, FromTokens, FromAliases
    <3>3. Calling(p)'
      BY <1>2, <2>1, <2>2, <3>1 DEF Calling
    <3>4. Hidden(p)'
      BY <2>1, <3>1 DEF Hidden, Known
    <3> QED
      BY <2>1, <3>1, <3>2, <3>3, <3>4 DEF RunOK
  <2>3. CASE runs[p].step \in {"aliases", "redeem", "waiting"}
    <3> DEFINE old == runs[p]
               since == old.since \cup {<<a, v>>}
               r == [old EXCEPT !.since = since]
    <3>1. runs'[p] = r
      BY <1>1, <2>3
    <3>2. /\ r \in Runs /\ r.step = old.step /\ r.spec = old.spec /\ r.todo = old.todo
          /\ r.read = old.read /\ r.env = old.env /\ r.literals = old.literals
          /\ r.since = since /\ r.pipe = old.pipe /\ r.buf = old.buf
          /\ r.last = old.last /\ r.queue = old.queue /\ r.late = old.late
      <4>1. old \in Runs
        BY <2>1
      <4>2. since \subseteq Aliases \X (Values \cup {Gone})
        BY <4>1 DEF Runs
      <4> HIDE DEF old, since
      <4> QED
        BY <4>1, <4>2 DEF Runs
    <3>3. \A x \in old.since : x \in since
      OBVIOUS
    <3>4. Asked(p)'
      <4>1. \A b \in Aliases : <<b, vault'[b]>> \in since
        BY <1>3, <2>1, <2>3 DEF Asked
      <4> HIDE DEF since, r
      <4> QED
        BY <1>2, <2>1, <2>3, <3>1, <3>2, <4>1 DEF Asked
    <3> HIDE DEF since, r
    <3>5. Reading(p)'
      BY <2>1, <3>1, <3>2, <3>3 DEF Reading
    <3>6. Done(p)' = Done(p) /\ issued' = issued
      BY <1>2, <3>1, <3>2 DEF Done
    <3>7. Redeeming(p)'
      BY <2>1, <3>1, <3>2, <3>6 DEF Redeeming
    <3>8. FromTokens(p)'
      BY <2>1, <3>1, <3>2, <3>3, <3>6 DEF FromTokens
    <3>9. FromAliases(p)'
      BY <2>1, <3>1, <3>2, <3>3, <3>6 DEF FromAliases
    <3>10. Calling(p)'
      BY <1>2, <2>1, <3>1, <3>2, <3>3 DEF Calling
    <3>11. Hidden(p)'
      BY <2>1, <3>1, <3>2 DEF Hidden, Known
    <3> QED
      BY <3>1, <3>2, <3>4, <3>5, <3>7, <3>8, <3>9, <3>10, <3>11 DEF RunOK
  <2> QED
    BY <2>2, <2>3
<1>5. Types'
  BY <1>0, <1>1, <1>2, <1>3, <1>4 DEF Types
<1>6. StoresOK' /\ CallsOK'
  BY <1>0, <1>2 DEF StoresOK, CallsOK
<1> QED
  BY <1>0, <1>2, <1>4, <1>5, <1>6 DEF IInv, RunsOK

\* A step that changes nothing
LEMMA StutterKeeps == ASSUME IInv, UNCHANGED vars PROVE IInv'
<1>0. Types /\ StoresOK /\ CallsOK /\ RunsOK /\ told = {}
  BY DEF IInv
<1>1. Types' /\ StoresOK' /\ CallsOK'
  BY <1>0 DEF vars, Types, StoresOK, CallsOK
<1>2. ASSUME NEW p \in Procs PROVE RunOK(p)'
  BY Undisturbed DEF vars
<1> QED
  BY <1>0, <1>1, <1>2 DEF vars, IInv, RunsOK

\* Every step keeps the invariant.
LEMMA NextKeeps == ASSUME IInv, [Next]_vars PROVE IInv'
<1>1. CASE StartMcp \/ StopMcp \/ IssueReferenceToken \/ ScheduleEviction \/ TestConnection
  BY <1>1, BrokerKeeps
<1>2. ASSUME NEW k \in DOMAIN calls, HandleLine(k) \/ FetchValue(k) \/ AnswerValue(k)
      PROVE  IInv'
  BY <1>2, HandleLineKeeps, FetchValueKeeps, AnswerValueKeeps
<1>3. ASSUME NEW p \in Procs,
             \/ Execute(p) \/ ResolveAlias(p) \/ ResolveReferenceToken(p) \/ ReceiveAnswer(p)
             \/ GiveUp(p) \/ SpawnPrivileged(p) \/ ChildWrites(p) \/ ReadChunk(p)
             \/ TransformChunk(p) \/ ChildExits(p) \/ Close(p) \/ Flush(p)
      PROVE  IInv'
  BY <1>3, ExecuteKeeps, ResolveAliasKeeps, ResolveReferenceTokenKeeps, ReceiveAnswerKeeps,
     SpawnKeeps, ChildWritesKeeps, ReadChunkKeeps, TransformChunkKeeps,
     ChildExitsKeeps, CloseKeeps, FlushKeeps
<1>4. CASE ChangeSecret
  BY <1>4, ChangeSecretKeeps
<1>5. CASE UNCHANGED vars
  BY <1>5, StutterKeeps
<1> QED
  BY <1>1, <1>2, <1>3, <1>4, <1>5 DEF Next

-----------------------------------------------------------------------------
(* The theorems. *)

\* The invariant holds throughout.
LEMMA Invariance == Spec => []IInv
<1>1. IInv /\ [Next]_vars => IInv'
  BY NextKeeps
<1> QED
  BY <1>1, InitKeeps, PTL DEF Spec

\* The agent is never told a value (spawnPrivileged, createRedactStream,
\* sanitizeResult), whatever chunks the command's output comes in.
THEOREM AgentIsNotTold == Spec => []AgentNeverTold
<1>1. IInv => AgentNeverTold
  BY DEF IInv, AgentNeverTold
<1> QED
  BY <1>1, Invariance, PTL

\* A spent token is refused to whoever comes later, and a redemption that fails
\* leaves its token good (resolveTokenToValue, consumeReferenceToken).
THEOREM BrokerIsConsistent == Spec => []BrokerConsistent
<1>1. ASSUME IInv PROVE BrokerConsistent
  <2>1. Types /\ StoresOK /\ CallsOK /\ RunsOK
    BY <1>1 DEF IInv
  <2>2. TypeOK
    <3>1. \A s \in Servers : DOMAIN store[s] \subseteq DOMAIN issued
      BY <2>1 DEF StoresOK
    <3>2. \A k \in DOMAIN calls : calls[k].step \in {"sent", "fetch", "fetched", "answered", "refused"}
      BY <2>1 DEF Types, Calls
    <3>3. \A p \in Procs : runs[p].step \in Steps
      BY <2>1 DEF Types, Runs
    <3>4. \A p \in Procs : Len(runs[p].buf) < BufferLimit
      BY <2>1 DEF RunsOK, RunOK, Hidden, Known
    <3> QED
      BY <2>1, <3>1, <3>2, <3>3, <3>4 DEF TypeOK, Types, Steps
  <2>3. SpentTokensAreRefused
    BY <2>1 DEF CallsOK, SpentTokensAreRefused
  <2>4. FailureKeepsToken
    BY <2>1 DEF StoresOK, FailureKeepsToken
  <2> QED
    BY <2>2, <2>3, <2>4 DEF BrokerConsistent
<1> QED
  BY <1>1, Invariance, PTL


\* Only spawnPrivileged starts the command.
LEMMA OnlySpawnStarts ==
  ASSUME IInv, [Next]_vars, NEW p \in Procs,
         runs[p].step # "running", runs'[p].step = "running"
  PROVE  SpawnPrivileged(p) /\ runs'[p] = [runs[p] EXCEPT !.step = "running", !.since = {}]
<1>0. Types
  BY DEF IInv
<1>1. \A q \in Procs : \A r : Become(q, r) => runs'[q] = r /\ (q # p => runs'[p] = runs[p])
  BY <1>0 DEF Types, Become
<1>2. Ended.step = "ended" /\ \A q \in Procs : runs[q] \in Runs
  BY <1>0, EmptyRuns DEF Types
<1>3. \A q \in Procs : Exit(q) => runs'[p] = runs[p] \/ runs'[p].step = "ended"
  BY <1>1, <1>2 DEF Exit
<1>4. CASE StartMcp \/ StopMcp \/ IssueReferenceToken \/ ScheduleEviction \/ TestConnection
           \/ UNCHANGED vars
  BY <1>4 DEF StartMcp, StopMcp, IssueReferenceToken, ScheduleEviction, TestConnection, vars
<1>5. ASSUME NEW k \in DOMAIN calls, HandleLine(k) \/ FetchValue(k) \/ AnswerValue(k)
      PROVE  FALSE
  BY <1>5 DEF HandleLine, FetchValue, AnswerValue
<1>6. CASE ChangeSecret
  <2>1. PICK a \in Aliases, v \in Values \cup {Gone} :
          runs' = [q \in Procs |->
                     IF runs[q].step \notin {"aliases", "redeem", "waiting"} THEN runs[q]
                     ELSE [runs[q] EXCEPT !.since = @ \cup {<<a, v>>}]]
    BY <1>6 DEF ChangeSecret
  <2>2. runs'[p].step = runs[p].step
    BY <1>2, <2>1 DEF Runs
  <2> QED
    BY <2>2
<1>7. ASSUME NEW q \in Procs, Execute(q) PROVE FALSE
  <2>1. PICK spec \in Specs :
          \/ Become(q, Ended)
          \/ Become(q, InjectEnv([NotRun EXCEPT !.step = "aliases", !.spec = spec, !.since = Truths,
                                                !.todo = AliasesOf(spec)]))
    BY <1>7 DEF Execute
  <2> DEFINE r == [NotRun EXCEPT !.step = "aliases", !.spec = spec, !.since = Truths,
                                 !.todo = AliasesOf(spec)]
  <2>2. r.step = "aliases" /\ InjectEnv(r).step \in {"aliases", "redeem"}
    <3>1. r.step = "aliases"
      BY DEF NotRun
    <3>2. InjectEnv(r) = r \/ InjectEnv(r).step = "redeem"
      BY DEF InjectEnv, NotRun
    <3> QED
      BY <3>1, <3>2
  <2> HIDE DEF r
  <2> QED
    BY <1>1, <1>2, <2>1, <2>2 DEF r
<1>8. ASSUME NEW q \in Procs, ResolveAlias(q) PROVE FALSE
  <2> DEFINE r == [runs[q] EXCEPT !.read = With(@, Head(runs[q].todo), vault[Head(runs[q].todo)]),
                                  !.todo = Tail(@)]
  <2>1. runs[q].step = "aliases" /\ (Exit(q) \/ Become(q, InjectEnv(r)))
    BY <1>8 DEF ResolveAlias
  <2>2. InjectEnv(r).step \in {"aliases", "redeem"}
    <3>1. /\ r.step = "aliases"
          /\ [r EXCEPT !.step = "redeem", !.env = InjectedEnv(r.spec, r.read), !.read = <<>>,
                       !.literals = Range(r.read), !.todo = r.spec.resolve].step = "redeem"
      BY <1>2, <2>1 DEF Runs
    <3> HIDE DEF r
    <3> QED
      BY <3>1 DEF InjectEnv
  <2> HIDE DEF r
  <2> QED
    BY <1>1, <1>3, <2>1, <2>2
<1>9. ASSUME NEW q \in Procs, ResolveReferenceToken(q) PROVE FALSE
  <2>1. Exit(q) \/ Become(q, [runs[q] EXCEPT !.step = "waiting"])
    BY <1>9 DEF ResolveReferenceToken
  <2>2. [runs[q] EXCEPT !.step = "waiting"].step = "waiting"
    BY <1>2 DEF Runs
  <2> QED
    BY <1>1, <1>3, <2>1, <2>2
<1>10. ASSUME NEW q \in Procs, ReceiveAnswer(q) PROVE FALSE
  <2> DEFINE c == calls[<<q, Len(runs[q].todo)>>]
             r == [runs[q] EXCEPT !.step = "redeem", !.todo = Tail(@),
                                  !.env = With(@, Head(runs[q].todo).name, c.value),
                                  !.literals = @ \cup {c.value}]
  <2>1. Exit(q) \/ Become(q, r)
    BY <1>10 DEF ReceiveAnswer
  <2>2. r.step = "redeem"
    BY <1>2 DEF Runs
  <2> HIDE DEF r
  <2> QED
    BY <1>1, <1>3, <2>1, <2>2
<1>11. ASSUME NEW q \in Procs, GiveUp(q) PROVE FALSE
  BY <1>3, <1>11 DEF GiveUp
<1>12. ASSUME NEW q \in Procs, SpawnPrivileged(q)
       PROVE  /\ SpawnPrivileged(p)
              /\ runs'[p] = [runs[p] EXCEPT !.step = "running", !.since = {}]
  <2>1. Become(q, [runs[q] EXCEPT !.step = "running", !.since = {}]) \/ Exit(q)
    BY <1>12 DEF SpawnPrivileged
  <2> QED
    BY <1>1, <1>3, <1>12, <2>1
<1>13. ASSUME NEW q \in Procs, ChildWrites(q) PROVE FALSE
  <2>1. runs[q].step = "running" /\ \E r : Become(q, r)
    BY <1>13 DEF ChildWrites
  <2> QED
    BY <1>1, <2>1
<1>14. ASSUME NEW q \in Procs, ReadChunk(q) PROVE FALSE
  <2>1. PICK x, y : Become(q, [runs[q] EXCEPT !.pipe = x, !.queue = y])
    BY <1>14, Zenon DEF ReadChunk
  <2>2. [runs[q] EXCEPT !.pipe = x, !.queue = y].step = runs[q].step
    BY <1>2 DEF Runs
  <2> QED
    BY <1>1, <2>1, <2>2
<1>16. ASSUME NEW q \in Procs, TransformChunk(q) PROVE FALSE
  <2>1. PICK x, y, z : Become(q, [runs[q] EXCEPT !.queue = x, !.buf = y, !.last = z])
    BY <1>16, Zenon DEF TransformChunk
  <2>2. [runs[q] EXCEPT !.queue = x, !.buf = y, !.last = z].step = runs[q].step
    BY <1>2 DEF Runs
  <2> QED
    BY <1>1, <2>1, <2>2
<1>17. ASSUME NEW q \in Procs, Close(q) PROVE FALSE
  <2>1. PICK x : Become(q, [runs[q] EXCEPT !.step = "closed", !.literals = {}, !.late = x])
    BY <1>17, Zenon DEF Close
  <2>2. [runs[q] EXCEPT !.step = "closed", !.literals = {}, !.late = x].step = "closed"
    BY <1>2 DEF Runs
  <2> QED
    BY <1>1, <2>1, <2>2
<1>18. ASSUME NEW q \in Procs, Flush(q) PROVE FALSE
  <2> DEFINE r == [runs[q] EXCEPT !.buf = <<>>, !.last = <<>>]
  <2>1. Exit(q) \/ Become(q, r)
    BY <1>18 DEF Flush
  <2>2. r.step = runs[q].step
    BY <1>2 DEF Runs
  <2> HIDE DEF r
  <2> QED
    BY <1>1, <1>3, <2>1, <2>2
<1>15. ASSUME NEW q \in Procs, ChildExits(q) PROVE FALSE
  <2>1. runs[q].step = "running" /\ \E r : Become(q, r)
    BY <1>15 DEF ChildExits
  <2>2. q # p
    BY <2>1
  <2> QED
    BY <1>1, <2>1, <2>2
<1> QED
  BY <1>4, <1>5, <1>6, <1>7, <1>8, <1>9, <1>10, <1>11, <1>12, <1>13, <1>14, <1>15,
     <1>16, <1>17, <1>18 DEF Next

\* A command that starts has all its variables, and each has a value that what it
\* stands for had since exec was called (resolveAllAliases, resolveReferenceToken,
\* spawnPrivileged); --resolve goes before --via-env, and that before the file.
THEOREM StartsComplete == Spec => StartsWithItsValues
<1> DEFINE named(q, n) == {i \in DOMAIN runs[q].spec.resolve : runs[q].spec.resolve[i].name = n}
           meant(q, n) == IF named(q, n) # {} THEN issued[runs[q].spec.resolve[Max(named(q, n))].token]
                          ELSE IF n \in DOMAIN runs[q].spec.via THEN runs[q].spec.via[n]
                          ELSE runs[q].spec.file[n]
           names(q) == DOMAIN runs[q].spec.file \cup DOMAIN runs[q].spec.via
                       \cup {runs[q].spec.resolve[i].name : i \in DOMAIN runs[q].spec.resolve}
           complete(q) == /\ DOMAIN runs'[q].env = names(q)
                          /\ \A n \in names(q) : <<meant(q, n), runs'[q].env[n]>> \in runs[q].since
           begins(q) == runs[q].step # "running" /\ runs'[q].step = "running"
<1>1. ASSUME IInv, [Next]_vars, NEW p \in Procs, begins(p)
      PROVE  complete(p)
  <2>1. SpawnPrivileged(p) /\ runs'[p] = [runs[p] EXCEPT !.step = "running", !.since = {}]
    BY <1>1, OnlySpawnStarts
  <2>2. /\ runs[p] \in Runs /\ runs[p].step = "redeem" /\ runs[p].todo = <<>>
        /\ Asked(p) /\ Redeeming(p) /\ FromTokens(p) /\ FromAliases(p)
    BY <1>1, <2>1 DEF IInv, Types, RunsOK, RunOK, SpawnPrivileged
  <2> DEFINE opt == runs[p].spec.resolve
             env == runs[p].env
  <2>3. runs'[p].env = env
    BY <2>1, <2>2 DEF Runs
  <2>4. opt \in Seq(Options) /\ Len(opt) \in Nat /\ DOMAIN opt = 1 .. Len(opt)
    BY <2>2, SpecAssumption DEF Asked
  <2>5. Done(p) = Len(opt)
    BY <2>2, <2>4 DEF Done
  <2>6. DOMAIN env = names(p)
    BY <2>2, <2>4, <2>5 DEF Redeeming
  <2>7. ASSUME NEW n \in names(p)
        PROVE  <<meant(p, n), env[n]>> \in runs[p].since
    <3> DEFINE S == named(p, n)
    <3>1. CASE S # {}
      <4>1. S \in SUBSET (1 .. Len(opt))
        BY <2>4
      <4>2. Max(S) \in S /\ \A i \in S : i <= Max(S)
        <5> HIDE DEF S
        <5> QED
          BY <2>4, <3>1, <4>1, LastPosition
      <4> DEFINE m == Max(S)
      <4>3. meant(p, n) = issued[opt[m].token]
        BY <3>1
      <4>4. m \in 1 .. Len(opt) /\ opt[m].name = n
        BY <2>4, <4>2
      <4>5. \A i \in S : i <= m
        BY <4>2
      <4> HIDE DEF m
      <4>6. ASSUME NEW i \in m + 1 .. Len(opt) PROVE opt[i].name # n
        <5>1. i \in DOMAIN opt /\ ~(i <= m)
          BY <2>4, <4>4
        <5>2. i \notin S
          <6> HIDE DEF S
          <6> QED
            BY <4>5, <5>1
        <5> QED
          BY <5>1, <5>2
      <4>7. <<issued[opt[m].token], env[opt[m].name]>> \in runs[p].since
        BY <2>2, <2>5, <4>4, <4>6 DEF FromTokens
      <4> QED
        BY <4>3, <4>4, <4>7
    <3>2. CASE S = {}
      <4>1. \A i \in 1 .. Len(opt) : opt[i].name # n
        BY <2>4, <3>2
      <4>2. n \in DOMAIN runs[p].spec.via \cup DOMAIN runs[p].spec.file
        BY <2>4, <4>1
      <4>3. <<IF n \in DOMAIN runs[p].spec.via THEN runs[p].spec.via[n] ELSE runs[p].spec.file[n],
              env[n]>> \in runs[p].since
        BY <2>2, <2>5, <4>1, <4>2 DEF FromAliases
      <4> QED
        BY <3>2, <4>3
    <3> QED
      BY <3>1, <3>2
  <2> QED
    BY <2>3, <2>6, <2>7
<1>2. ASSUME IInv, [Next]_vars
      PROVE  \A p \in Procs : begins(p) => complete(p)
  BY <1>1, <1>2
<1>3. IInv /\ [Next]_vars =>
        [\A p \in Procs : runs[p].step # "running" /\ runs'[p].step = "running" =>
           LET r == runs[p]
               labels(n) == {i \in DOMAIN r.spec.resolve : r.spec.resolve[i].name = n}
               means(n) == IF labels(n) # {} THEN issued[r.spec.resolve[Max(labels(n))].token]
                           ELSE IF n \in DOMAIN r.spec.via THEN r.spec.via[n]
                           ELSE r.spec.file[n]
               all == DOMAIN r.spec.file \cup DOMAIN r.spec.via
                      \cup {r.spec.resolve[i].name : i \in DOMAIN r.spec.resolve}
           IN /\ DOMAIN runs'[p].env = all
              /\ \A n \in all : <<means(n), runs'[p].env[n]>> \in r.since]_vars
  BY <1>2
<1> QED
  BY <1>3, Invariance, PTL DEF Spec, StartsWithItsValues

-----------------------------------------------------------------------------
(* Watcher: the inductive invariant *)

\* The types that the disk and the rewrites need
WatchTypes ==
  /\ path \in [Files -> Inodes] /\ tmp \in [Names -> Inodes \cup {Null}]
  /\ data \in [Inodes -> Seq(Entry)]
  /\ task \in [Slots -> Task \cup {Null}]
  /\ count \in 0..MaxEntries /\ late \subseteq 1..count
  /\ second \in 0..MaxSeconds

\* The life of the process, its pid file and its socket
LifeOK ==
  /\ deaths \in 0..MaxDeaths /\ scrubs \in 0..MaxScrubs
  /\ watcher \in {"off", "starting", "ready", "closing"}
  /\ registry \in BOOLEAN /\ reused \in BOOLEAN /\ (rpc \/ registry => Alive)
  /\ timers \subseteq Files /\ (~Alive => timers = {})
  /\ Watching => pidfile = WatcherPid
  /\ ~twice

\* No inode has two names.
OneName ==
  /\ \A f, g \in Files : path[f] = path[g] => f = g
  /\ \A m, n \in Names : tmp[m] = tmp[n] /\ tmp[m] # Null => m = n
  /\ \A f \in Files, n \in Names : path[f] # tmp[n]

PastReading(s) == Running(s) /\ task[s].pc # "read"

FilesOpen == \A s \in Slots : Running(s) => (task[s].inode # Null <=> task[s].pc = "write")

\* As long as no two rewrites have one name, a rewrite finds its temporary file
\* where it left it.
OwnName ==
  \A s \in Slots : PastReading(s) =>
    /\ \A x \in Slots \ {s} : PastReading(x) => task[x].name # task[s].name
    /\ task[s].pc = "write" => tmp[task[s].name] = task[s].inode
    /\ task[s].pc = "rename" => tmp[task[s].name] # Null

\* It has not failed yet.
Replacing(s) == PastReading(s) /\ task[s].pc # "unlink"

\* What a rewrite will put in place of its file
Copy(s) == IF task[s].pc = "rename" THEN data[tmp[task[s].name]] ELSE task[s].text

Holds(text, n) == \E k \in DOMAIN text : text[k].no = n

\* Entry n is in f, and in whatever may replace f.
Safe(f, n) ==
  /\ Holds(Text(f), n)
  /\ \A s \in Slots : Replacing(s) /\ task[s].file = f => Holds(Copy(s), n)

EntriesSafe == \A n \in (1..count) \ late : \E f \in Files : Safe(f, n)

DiskOK == OneName /\ FilesOpen /\ (~shared => OwnName /\ EntriesSafe)

WatchInv == WatchTypes /\ LifeOK /\ DiskOK

WatchIInv == WatchInv /\ failed \subseteq Files

-----------------------------------------------------------------------------
(* What a rewrite does to the entries *)

LEMMA RedactOK ==
  ASSUME NEW text \in Seq(Entry), NEW literals
  PROVE  /\ RedactText(text, literals) \in Seq(Entry)
         /\ \A n : Holds(text, n) => Holds(RedactText(text, literals), n)
<1> DEFINE r == RedactText(text, literals)
<1>1. DOMAIN r = 1 .. Len(text) /\ Len(text) \in Nat /\ DOMAIN text = 1 .. Len(text)
  BY DEF RedactText
<1>2. ASSUME NEW k \in DOMAIN text
      PROVE  r[k] \in Entry /\ r[k].no = text[k].no
  <2>1. text[k] \in Entry
    BY <1>1
  <2>2. r[k] = text[k] \/ r[k] = [text[k] EXCEPT !.text = "redacted"]
    BY DEF RedactText
  <2> HIDE DEF r
  <2> QED
    BY <2>1, <2>2 DEF Entry, Texts
<1> HIDE DEF r
<1>3. r \in Seq(Entry)
  <2>1. r \in [1 .. Len(text) -> Entry]
    <3>1. r = [k \in DOMAIN text |-> r[k]]
      BY <1>1 DEF r, RedactText
    <3> QED
      BY <1>1, <1>2, <3>1
  <2> QED
    BY <1>1, <2>1
<1>4. \A n : Holds(text, n) => Holds(r, n)
  BY <1>1, <1>2 DEF Holds
<1> QED
  BY <1>3, <1>4 DEF r

LEMMA AppendOK ==
  ASSUME NEW text \in Seq(Entry), NEW e \in Entry
  PROVE  /\ Append(text, e) \in Seq(Entry)
         /\ \A n : Holds(text, n) => Holds(Append(text, e), n)
         /\ Holds(Append(text, e), e.no)
<1>1. /\ Append(text, e) \in Seq(Entry) /\ DOMAIN Append(text, e) = 1 .. Len(text) + 1
      /\ Len(text) \in Nat /\ DOMAIN text = 1 .. Len(text)
      /\ Append(text, e)[Len(text) + 1] = e
      /\ \A k \in 1 .. Len(text) : Append(text, e)[k] = text[k]
  OBVIOUS
<1>2. \A n : Holds(text, n) => Holds(Append(text, e), n)
  <2> SUFFICES ASSUME NEW n, NEW k \in DOMAIN text, text[k].no = n
               PROVE  Holds(Append(text, e), n)
    BY DEF Holds
  <2>1. k \in 1 .. Len(text) + 1 /\ Append(text, e)[k].no = n
    BY <1>1
  <2> QED
    BY <1>1, <2>1 DEF Holds
<1>3. Len(text) + 1 \in DOMAIN Append(text, e)
  BY <1>1
<1> QED
  BY <1>1, <1>2, <1>3 DEF Holds

LEMMA OverwrittenOK ==
  ASSUME NEW text \in Seq(Entry), NEW old \in Seq(Entry)
  PROVE  /\ Overwritten(old, text) \in Seq(Entry)
         /\ \A n : Holds(text, n) => Holds(Overwritten(old, text), n)
<1> DEFINE rest == SubSeq(old, Len(text) + 1, Len(old))
           r == text \o rest
<1>1. rest \in Seq(Entry)
  OBVIOUS
<1> HIDE DEF rest
<1>2. /\ r \in Seq(Entry) /\ DOMAIN r = 1 .. Len(text) + Len(rest) /\ Len(rest) \in Nat
      /\ Len(text) \in Nat /\ DOMAIN text = 1 .. Len(text)
      /\ \A k \in 1 .. Len(text) : r[k] = text[k]
  BY <1>1
<1> HIDE DEF r
<1>3. \A n : Holds(text, n) => Holds(r, n)
  <2> SUFFICES ASSUME NEW n, NEW k \in DOMAIN text, text[k].no = n
               PROVE  Holds(r, n)
    BY DEF Holds
  <2>1. k \in DOMAIN r /\ r[k].no = n
    BY <1>2
  <2> QED
    BY <2>1 DEF Holds
<1> QED
  BY <1>2, <1>3 DEF Overwritten, r, rest

-----------------------------------------------------------------------------
(* Steps that leave the disk alone *)


LEMMA DiskAlone ==
  ASSUME WatchInv, UNCHANGED <<disk, count, late, shared>>, task' \in [Slots -> Task \cup {Null}],
         \A s \in Slots : task'[s] # Null /\ task'[s] # task[s] =>
                             task'[s].pc = "read" /\ task'[s].inode = Null
  PROVE  DiskOK'
<1>0. UNCHANGED <<path, tmp, data, count, late, shared>>
  BY DEF disk
<1>1. OneName'
  BY <1>0 DEF WatchInv, DiskOK, OneName
<1>2. FilesOpen'
  BY DEF WatchInv, DiskOK, FilesOpen, Running
<1>3. \A s \in Slots : PastReading(s)' => PastReading(s) /\ task'[s] = task[s]
  BY DEF PastReading, Running
<1>4. \A s \in Slots : PastReading(s)' => Copy(s)' = Copy(s)
  BY <1>0, <1>3 DEF Copy
<1>5. OwnName => OwnName'
  BY <1>0, <1>3 DEF OwnName
<1>6. \A f \in Files : Text(f)' = Text(f)
  BY <1>0 DEF Text
<1>7. \A f \in Files : \A n : Safe(f, n) => Safe(f, n)'
  BY <1>3, <1>4, <1>6 DEF Safe, Replacing
<1>8. EntriesSafe => EntriesSafe'
  BY <1>0, <1>7 DEF EntriesSafe
<1> QED
  BY <1>0, <1>1, <1>2, <1>5, <1>8 DEF WatchInv, DiskOK

-----------------------------------------------------------------------------
(* The steps of the processes and of the clock *)

LEMMA PidsThere ==
  ASSUME WatchInv
  PROVE  /\ deaths \in Nat /\ scrubs \in Nat /\ second \in Nat /\ count \in Nat
         /\ WatcherPid \in Pids /\ ScrubPid \in Pids
         /\ <<0, 0>> \in Names /\ \A pid \in Pids : <<second, pid>> \in Names
<1>1. /\ deaths \in 0..MaxDeaths /\ scrubs \in 0..MaxScrubs /\ second \in 0..MaxSeconds
      /\ count \in 0..MaxEntries
      /\ MaxDeaths \in Nat /\ MaxScrubs \in Nat /\ MaxSeconds \in Nat /\ MaxEntries \in Nat
  BY BoundAssumption DEF WatchInv, LifeOK, WatchTypes
<1>2. WatcherPid \in Pids /\ ScrubPid \in Pids /\ 0 \in Pids
  BY <1>1 DEF Pids, WatcherPid, ScrubPid
<1>3. second \in 0..MaxSeconds /\ 0 \in 0..MaxSeconds
  BY <1>1
<1> QED
  BY <1>1, <1>2, <1>3 DEF Names

LEMMA RewritingOK ==
  ASSUME WatchInv, NEW f \in Files, NEW pid \in Pids, NEW literals \in BOOLEAN
  PROVE  /\ Rewriting(f, pid, literals) \in Task
         /\ Rewriting(f, pid, literals).pc = "read" /\ Rewriting(f, pid, literals).inode = Null
<1>1. <<0, 0>> \in Names /\ <<>> \in Seq(Entry)
  BY PidsThere
<1>2. Rewriting(f, pid, literals) \in Task
  BY <1>1, Zenon DEF Rewriting, Task
<1> QED
  BY <1>2 DEF Rewriting

LEMMA BeginOK ==
  ASSUME WatchInv, NEW t \in Task, t.pc = "read", t.inode = Null, Begin(t),
         UNCHANGED <<disk, count, late, shared, second>>
  PROVE  WatchTypes' /\ DiskOK'
<1>1. PICK s \in Slots : task' = [task EXCEPT ![s] = t]
  BY DEF Begin
<1>2. task \in [Slots -> Task \cup {Null}]
  BY DEF WatchInv, WatchTypes
<1>3. /\ task' \in [Slots -> Task \cup {Null}]
      /\ \A x \in Slots : task'[x] = t \/ task'[x] = task[x]
  BY <1>1, <1>2
<1>4. DiskOK'
  BY <1>3, DiskAlone
<1>5. WatchTypes'
  BY <1>3 DEF WatchInv, WatchTypes, disk
<1> QED
  BY <1>4, <1>5

LEMMA FewerOK ==
  ASSUME WatchInv, UNCHANGED <<disk, count, late, shared>>, second' \in 0..MaxSeconds,
         task' \in [Slots -> Task \cup {Null}],
         \A s \in Slots : task'[s] \in {Null, task[s]}
  PROVE  WatchTypes' /\ DiskOK'
<1>1. DiskOK'
  BY DiskAlone
<1>2. WatchTypes'
  BY DEF WatchInv, WatchTypes, disk
<1> QED
  BY <1>1, <1>2

LEMMA StillOK ==
  ASSUME WatchInv, UNCHANGED <<disk, task, second, tools>>
  PROVE  WatchTypes' /\ DiskOK'
<1>1. task \in [Slots -> Task \cup {Null}] /\ second \in 0..MaxSeconds
  BY DEF WatchInv, WatchTypes
<1> QED
  BY <1>1, FewerOK DEF tools

LEMMA TickInv == ASSUME WatchInv, Tick PROVE WatchInv'
<1>1. second' \in 0..MaxSeconds
  BY PidsThere, BoundAssumption DEF Tick
<1>2. task \in [Slots -> Task \cup {Null}]
  BY DEF WatchInv, WatchTypes
<1>3. LifeOK'
  BY DEF WatchInv, LifeOK, Tick, life, knowledge, scrubbing, Alive, Watching, WatcherPid
<1> QED
  BY <1>1, <1>2, <1>3, FewerOK DEF WatchInv, Tick, tools

LEMMA ExecInv == ASSUME WatchInv, Exec \/ Register \/ StopWaiting PROVE WatchInv'
<1>1. WatchTypes' /\ DiskOK'
  BY StillOK DEF Exec, Register, StopWaiting
<1>2. UNCHANGED <<life, timers, scrubbing>>
  BY DEF Exec, Register, StopWaiting
<1>3. registry' \in BOOLEAN /\ (rpc' \/ registry' => Alive)
  <2>1. registry \in BOOLEAN /\ (rpc \/ registry => Alive)
    BY DEF WatchInv, LifeOK
  <2>2. CASE Exec
    BY <2>1, <2>2 DEF Exec, Listening
  <2>3. CASE Register
    BY <2>1, <2>3 DEF Register
  <2>4. CASE StopWaiting
    BY <2>1, <2>4 DEF StopWaiting
  <2> QED
    BY <2>2, <2>3, <2>4
<1>4. LifeOK'
  BY <1>2, <1>3 DEF WatchInv, LifeOK, life, scrubbing, Alive, Watching, WatcherPid
<1> QED
  BY <1>1, <1>4 DEF WatchInv

LEMMA StartWatchInv == ASSUME WatchInv, StartWatch PROVE WatchInv'
<1>1. WatchTypes' /\ DiskOK'
  BY StillOK DEF StartWatch
<1>2. watcher = "off"
  <2>1. WatcherPid # Null
    BY PidsThere, NullAssumption DEF WatcherPid
  <2> QED
    BY <2>1 DEF WatchInv, LifeOK, StartWatch, Refused, Watching, Alive, WatcherPid
<1>3. LifeOK'
  BY <1>2 DEF WatchInv, LifeOK, StartWatch, knowledge, scrubbing, Alive, Watching, WatcherPid
<1> QED
  BY <1>1, <1>3 DEF WatchInv

LEMMA WatchStepInv == ASSUME WatchInv, Watch PROVE WatchInv'
<1>1. WatchTypes' /\ DiskOK'
  BY StillOK DEF Watch
<1>2. LifeOK'
  BY DEF WatchInv, LifeOK, Watch, knowledge, scrubbing, Alive, Watching, WatcherPid
<1> QED
  BY <1>1, <1>2 DEF WatchInv

LEMMA GoneInv == ASSUME WatchInv, ProcessGone PROVE WatchInv'
<1>1. task \in [Slots -> Task \cup {Null}] /\ second \in 0..MaxSeconds
  BY DEF WatchInv, WatchTypes
<1>2. /\ task' \in [Slots -> Task \cup {Null}]
      /\ \A s \in Slots : task'[s] \in {Null, task[s]}
  BY <1>1 DEF ProcessGone
<1>3. WatchTypes' /\ DiskOK'
  BY <1>1, <1>2, FewerOK DEF ProcessGone, tools
<1>4. deaths' \in 0..MaxDeaths
  BY PidsThere, BoundAssumption DEF ProcessGone
<1>5. LifeOK'
  BY <1>4 DEF WatchInv, LifeOK, ProcessGone, scrubbing, Alive, Watching
<1> QED
  BY <1>3, <1>5 DEF WatchInv

LEMMA SignalInv == ASSUME WatchInv, Signal PROVE WatchInv'
<1>1. WatchTypes' /\ DiskOK'
  BY StillOK DEF Signal
<1>2. LifeOK'
  BY DEF WatchInv, LifeOK, Signal, knowledge, scrubbing, Alive, Watching, WatcherPid
<1> QED
  BY <1>1, <1>2 DEF WatchInv

LEMMA StopWatchInv == ASSUME WatchInv, StopWatch PROVE WatchInv'
<1>1. CASE Signal
  BY <1>1, SignalInv
<1>2. CASE ~Refused /\ UNCHANGED <<watcher, timers, reused, socket, stopper, deaths, twice>>
           /\ UNCHANGED <<disk, knowledge, task, scrubbing, second, tools>>
  <2>1. WatchTypes' /\ DiskOK'
    BY <1>2, StillOK
  <2>2. watcher = "off"
    BY <1>2 DEF WatchInv, LifeOK, StopWatch, Refused, Watching, Alive
  <2>3. LifeOK'
    BY <1>2, <2>2 DEF WatchInv, LifeOK, knowledge, scrubbing, Alive, Watching, WatcherPid
  <2> QED
    BY <2>1, <2>3 DEF WatchInv
<1>3. CASE /\ UNCHANGED <<watcher, timers, pidfile, reused, socket, deaths, twice>>
           /\ UNCHANGED <<disk, knowledge, task, scrubbing, second, tools>>
  <2>1. WatchTypes' /\ DiskOK'
    BY <1>3, StillOK
  <2>2. LifeOK'
    BY <1>3 DEF WatchInv, LifeOK, knowledge, scrubbing, Alive, Watching, WatcherPid
  <2> QED
    BY <2>1, <2>2 DEF WatchInv
<1> QED
  BY <1>1, <1>2, <1>3 DEF StopWatch

LEMMA StrangerInv == ASSUME WatchInv, Stranger PROVE WatchInv'
<1>1. WatchTypes' /\ DiskOK'
  BY StillOK DEF Stranger
<1>2. LifeOK'
  BY DEF WatchInv, LifeOK, Stranger, knowledge, scrubbing, Alive, Watching, WatcherPid
<1> QED
  BY <1>1, <1>2 DEF WatchInv

LEMMA StoppedInv == ASSUME WatchInv, Stopped PROVE WatchInv'
<1>1. WatchTypes' /\ DiskOK'
  BY StillOK DEF Stopped
<1>2. ~Watching
  <2>1. WatcherPid # Null
    BY PidsThere, NullAssumption DEF WatcherPid
  <2> QED
    BY <2>1 DEF WatchInv, LifeOK, Stopped, Refused, Watching, Alive
<1>3. LifeOK'
  BY <1>2 DEF WatchInv, LifeOK, Stopped, knowledge, scrubbing, Alive, Watching, WatcherPid
<1> QED
  BY <1>1, <1>3 DEF WatchInv

LEMMA FireInv == ASSUME WatchInv, NEW f \in Files, Fire(f) PROVE WatchInv'
<1> DEFINE t == Rewriting(f, WatcherPid, Literals)
<1>1. t \in Task /\ t.pc = "read" /\ t.inode = Null
  BY PidsThere, RewritingOK DEF WatchInv, LifeOK, Literals
<1>2. Begin(t)
  BY DEF Fire
<1> HIDE DEF t
<1>3. WatchTypes' /\ DiskOK'
  BY <1>1, <1>2, BeginOK DEF Fire, tools
<1>4. LifeOK'
  BY DEF WatchInv, LifeOK, Fire, life, knowledge, scrubbing, Alive, Watching, WatcherPid
<1> QED
  BY <1>3, <1>4 DEF WatchInv

LEMMA ScrubInv == ASSUME WatchInv, Scrub PROVE WatchInv'
<1>1. WatchTypes' /\ DiskOK'
  BY StillOK DEF Scrub
<1>2. scrubs' \in 0..MaxScrubs
  BY PidsThere, BoundAssumption DEF Scrub
<1>3. LifeOK'
  BY <1>2 DEF WatchInv, LifeOK, Scrub, life, knowledge, Alive, Watching, WatcherPid
<1> QED
  BY <1>1, <1>3 DEF WatchInv

LEMMA ScrubFileInv == ASSUME WatchInv, NEW f \in Files, ScrubFile(f) PROVE WatchInv'
<1> DEFINE t == Rewriting(f, ScrubPid, FALSE)
<1>1. t \in Task /\ t.pc = "read" /\ t.inode = Null
  BY PidsThere, RewritingOK
<1>2. Begin(t) \/ UNCHANGED task
  BY DEF ScrubFile
<1> HIDE DEF t
<1>3. WatchTypes' /\ DiskOK'
  <2>1. CASE Begin(t)
    BY <1>1, <2>1, BeginOK DEF ScrubFile, tools
  <2>2. CASE UNCHANGED task
    BY <2>2, StillOK DEF ScrubFile
  <2> QED
    BY <1>2, <2>1, <2>2
<1>5. LifeOK'
  BY DEF WatchInv, LifeOK, ScrubFile, life, knowledge, Alive, Watching, WatcherPid
<1> QED
  BY <1>3, <1>5 DEF WatchInv

LEMMA ScrubEndInv == ASSUME WatchInv, ScrubEnd PROVE WatchInv'
<1>1. task \in [Slots -> Task \cup {Null}] /\ second \in 0..MaxSeconds
  BY DEF WatchInv, WatchTypes
<1>2. /\ task' \in [Slots -> Task \cup {Null}]
      /\ \A s \in Slots : task'[s] \in {Null, task[s]}
  BY <1>1 DEF ScrubEnd
<1>3. WatchTypes' /\ DiskOK'
  BY <1>1, <1>2, FewerOK DEF ScrubEnd, tools
<1>4. LifeOK'
  BY DEF WatchInv, LifeOK, ScrubEnd, life, knowledge, Alive, Watching, WatcherPid
<1> QED
  BY <1>3, <1>4 DEF WatchInv

-----------------------------------------------------------------------------
(* The steps that read and write *)

LEMMA ToolAppendInv ==
  ASSUME WatchInv, NEW f \in Files, NEW text \in Texts, ToolAppend(f, text)
  PROVE  WatchInv'
<1> PICK n : n = count + 1
  OBVIOUS
<1> DEFINE e == [from |-> f, no |-> n, text |-> text]
           i == path[f]
<1>0. /\ UNCHANGED <<path, tmp, watcher, pidfile, reused, twice, deaths, registry, rpc, task, scrubs,
                     second, shared>>
      /\ count < MaxEntries /\ count' = n /\ data' = [data EXCEPT ![i] = Append(data[i], e)]
      /\ timers' = timers \cup Changed(i) /\ late' = late \cup {m \in {n} : PastRead(f) # {}}
  BY DEF ToolAppend, life, knowledge, scrubbing
<1>1. /\ count \in Nat /\ n \in 1..MaxEntries /\ n \in Nat /\ e \in Entry /\ i \in Inodes
      /\ data \in [Inodes -> Seq(Entry)] /\ data[i] \in Seq(Entry) /\ e.no = n
  <2>1. count \in Nat /\ n \in 1..MaxEntries /\ n \in Nat
    BY <1>0, PidsThere, BoundAssumption
  <2>2. e \in Entry /\ e.no = n
    BY <2>1 DEF Entry
  <2>3. i \in Inodes /\ data \in [Inodes -> Seq(Entry)] /\ data[i] \in Seq(Entry)
    BY DEF WatchInv, WatchTypes
  <2> QED
    BY <2>1, <2>2, <2>3
<1> HIDE DEF e
<1>2. /\ Append(data[i], e) \in Seq(Entry) /\ Holds(Append(data[i], e), n)
      /\ \A m : Holds(data[i], m) => Holds(Append(data[i], e), m)
  BY <1>1, AppendOK
<1>3. WatchTypes'
  <2>1. data' \in [Inodes -> Seq(Entry)]
    BY <1>0, <1>1, <1>2
  <2>2. count' \in 0..MaxEntries /\ late' \subseteq 1..count'
    <3>1. late \subseteq 1..count /\ late' \subseteq late \cup {n}
      BY <1>0 DEF WatchInv, WatchTypes
    <3>2. 1..count \subseteq 1..n /\ n \in 1..n /\ n \in 0..MaxEntries
      BY <1>0, <1>1, BoundAssumption
    <3> QED
      BY <1>0, <3>1, <3>2
  <2> QED
    BY <1>0, <2>1, <2>2 DEF WatchInv, WatchTypes
<1>4. LifeOK'
  BY <1>0 DEF WatchInv, LifeOK, Changed, Alive, Watching, WatcherPid
<1>5. OneName' /\ FilesOpen' /\ (OwnName => OwnName')
  BY <1>0 DEF WatchInv, DiskOK, OneName, FilesOpen, OwnName, PastReading, Running
<1>6. ASSUME ~shared PROVE EntriesSafe'
  <2>1. OwnName /\ EntriesSafe /\ OneName
    BY <1>0, <1>6 DEF WatchInv, DiskOK
  <2>2. \A s \in Slots : PastReading(s)' <=> PastReading(s)
    BY <1>0 DEF PastReading, Running
  <2>3. \A s \in Slots : PastReading(s) => Copy(s)' = Copy(s)
    <3> SUFFICES ASSUME NEW s \in Slots, PastReading(s), task[s].pc = "rename"
                 PROVE  data'[tmp[task[s].name]] = data[tmp[task[s].name]]
      BY <1>0 DEF Copy
    <3>1. tmp[task[s].name] # Null /\ task[s].name \in Names
      BY <2>1 DEF OwnName, PastReading, Running, WatchInv, WatchTypes, Task
    <3>2. tmp[task[s].name] # i
      BY <2>1, <3>1 DEF OneName
    <3> QED
      BY <1>0, <3>2 DEF WatchInv, WatchTypes
  <2>4. \A g \in Files : \A m : Holds(Text(g), m) => Holds(Text(g), m)'
    <3> SUFFICES ASSUME NEW g \in Files, NEW m, Holds(data[path[g]], m)
                 PROVE  Holds(data'[path[g]], m)
      BY <1>0 DEF Text
    <3>1. path[g] \in Inodes
      BY DEF WatchInv, WatchTypes
    <3>2. CASE path[g] = i
      BY <1>0, <1>1, <1>2, <3>2
    <3>3. CASE path[g] # i
      BY <1>0, <1>1, <3>1, <3>3
    <3> QED
      BY <3>2, <3>3
  <2>5. \A g \in Files : \A m : Safe(g, m) => Safe(g, m)'
    BY <1>0, <2>2, <2>3, <2>4 DEF Safe, Holds, Replacing
  <2>6. n \notin late' => Safe(f, n)'
    <3> HAVE n \notin late'
    <3>1. PastRead(f) = {}
      BY <1>0
    <3>2. \A s \in Slots : PastReading(s) => task[s].file # f
      BY <3>1 DEF PastRead, PastReading
    <3>3. Holds(Text(f), n)'
      BY <1>0, <1>1, <1>2 DEF Text, Holds, WatchInv, WatchTypes
    <3> QED
      BY <1>0, <2>2, <3>2, <3>3 DEF Safe, Holds, Replacing
  <2>7. ASSUME NEW m \in (1..count') \ late' PROVE \E g \in Files : Safe(g, m)'
    <3>1. m = n \/ m \in (1..count) \ late
      BY <1>0, <1>1
    <3> QED
      BY <2>1, <2>5, <2>6, <2>7, <3>1 DEF EntriesSafe
  <2> QED
    BY <2>7 DEF EntriesSafe
<1> QED
  BY <1>0, <1>3, <1>4, <1>5, <1>6 DEF WatchInv, DiskOK

LEMMA RewriteLife ==
  ASSUME WatchInv, UNCHANGED <<life, knowledge, scrubbing>>,
         timers' \subseteq timers \cup (IF Watching THEN Files ELSE {})
  PROVE  LifeOK'
BY DEF WatchInv, LifeOK, life, knowledge, scrubbing, Alive, Watching, WatcherPid

\* One rewrite goes on, the others are as they were.
LEMMA OthersStay ==
  ASSUME WatchInv, NEW s \in Slots, NEW u, task' = [task EXCEPT ![s] = u]
  PROVE  /\ task'[s] = u
         /\ \A x \in Slots \ {s} : task'[x] = task[x] /\ (PastReading(x)' <=> PastReading(x))
BY DEF WatchInv, WatchTypes, PastReading, Running

LEMMA TaskThere ==
  ASSUME WatchInv, NEW s \in Slots, Running(s)
  PROVE  /\ task[s] \in Task /\ task[s].file \in Files /\ task[s].text \in Seq(Entry)
         /\ task[s].name \in Names /\ path[task[s].file] \in Inodes
         /\ task[s].inode \in Inodes \cup {Null} /\ task[s].pid \in Pids
         /\ \A i \in Inodes : data[i] \in Seq(Entry)
<1>1. task[s] \in Task
  BY DEF WatchInv, WatchTypes, Running
<1> QED
  BY <1>1 DEF WatchInv, WatchTypes, Task

LEMMA ReadInv == ASSUME WatchInv, NEW s \in Slots, Running(s), Read(s) PROVE WatchInv'
<1> DEFINE t == task[s]
           redacted == RedactText(data[path[t.file]], t.literals)
           name == <<second, t.pid>>
           u == [t EXCEPT !.pc = "open", !.text = redacted, !.name = name]
<1>0. /\ UNCHANGED <<path, tmp, data, life, knowledge, timers, scrubbing, count, late, second>>
      /\ t.pc = "read"
  BY DEF Read, disk
<1>1. LifeOK'
  BY <1>0, RewriteLife
<1>2. task \in [Slots -> Task \cup {Null}] /\ second \in 0..MaxSeconds
  BY DEF WatchInv, WatchTypes
<1>3. CASE task' = [task EXCEPT ![s] = Null] /\ UNCHANGED shared
  <2>1. task' \in [Slots -> Task \cup {Null}] /\ \A x \in Slots : task'[x] \in {Null, task[x]}
    BY <1>2, <1>3
  <2> QED
    BY <1>0, <1>1, <1>2, <1>3, <2>1, FewerOK DEF WatchInv, disk
<1>4. CASE task' = [task EXCEPT ![s] = u] /\ shared' = (shared \/ InUse(name))
  <2>0. /\ t \in Task /\ data[path[t.file]] \in Seq(Entry) /\ name \in Names
    BY TaskThere, PidsThere
  <2>1. /\ redacted \in Seq(Entry)
        /\ \A n : Holds(data[path[t.file]], n) => Holds(redacted, n)
    BY <2>0, RedactOK
  <2> HIDE DEF redacted, name
  <2>2. u \in Task
    BY <2>0, <2>1 DEF Task
  <2>3. u.pc = "open" /\ u.text = redacted /\ u.name = name /\ u.file = t.file /\ u.inode = t.inode
    BY <2>0 DEF Task
  <2> HIDE DEF u
  <2>4. /\ task'[s] = u
        /\ \A x \in Slots \ {s} : task'[x] = task[x] /\ (PastReading(x)' <=> PastReading(x))
    BY <1>4, OthersStay
  <2>5. WatchTypes'
    <3>1. task' \in [Slots -> Task \cup {Null}]
      BY <1>2, <1>4, <2>2
    <3> QED
      BY <1>0, <3>1 DEF WatchInv, WatchTypes
  <2>6. OneName'
    BY <1>0 DEF WatchInv, DiskOK, OneName
  <2>7. FilesOpen'
    BY <1>0, <2>3, <2>4 DEF WatchInv, DiskOK, FilesOpen, Running
  <2>8. ASSUME ~shared' PROVE OwnName' /\ EntriesSafe'
    <3>1. ~shared /\ ~InUse(name) /\ OwnName /\ EntriesSafe
      BY <1>4, <2>8 DEF WatchInv, DiskOK
    <3>2. \A x \in Slots \ {s} : PastReading(x) => task[x].name # name
      BY <3>1 DEF InUse, PastReading
    <3>3. OwnName'
      BY <1>0, <2>3, <2>4, <3>1, <3>2 DEF OwnName
    <3>4. ASSUME NEW f \in Files, NEW n, Safe(f, n) PROVE Safe(f, n)'
      <4>1. Holds(Text(f), n)'
        BY <1>0, <3>4 DEF Safe, Text
      <4>2. ASSUME NEW x \in Slots, Replacing(x)', task'[x].file = f PROVE Holds(Copy(x), n)'
        <5>1. CASE x = s
          BY <2>1, <2>3, <2>4, <3>4, <4>2, <5>1 DEF Copy, Safe, Text
        <5>2. CASE x # s
          BY <1>0, <2>4, <3>4, <4>2, <5>2 DEF Copy, Safe, Replacing
        <5> QED
          BY <5>1, <5>2
      <4> QED
        BY <4>1, <4>2 DEF Safe
    <3>5. EntriesSafe'
      BY <1>0, <3>1, <3>4 DEF EntriesSafe
    <3> QED
      BY <3>3, <3>5
  <2> QED
    BY <1>1, <2>5, <2>6, <2>7, <2>8 DEF WatchInv, DiskOK
<1> QED
  BY <1>3, <1>4 DEF Read, End

LEMMA SkipInv == ASSUME WatchInv, NEW s \in Slots, Skip(s) PROVE WatchInv'
<1>1. /\ UNCHANGED <<disk, life, knowledge, timers, scrubbing, second, count, late, shared>>
      /\ task' = [task EXCEPT ![s] = Null]
  BY DEF Skip, End
<1>2. task \in [Slots -> Task \cup {Null}] /\ second \in 0..MaxSeconds
  BY DEF WatchInv, WatchTypes
<1>3. task' \in [Slots -> Task \cup {Null}] /\ \A x \in Slots : task'[x] \in {Null, task[x]}
  BY <1>1, <1>2
<1>4. LifeOK'
  BY <1>1, RewriteLife
<1> QED
  BY <1>1, <1>2, <1>3, <1>4, FewerOK DEF WatchInv

LEMMA OpenInv == ASSUME WatchInv, NEW s \in Slots, Running(s), Open(s) PROVE WatchInv'
<1> DEFINE t == task[s]
           opened == IF tmp[t.name] # Null THEN tmp[t.name] ELSE CHOOSE i \in Inodes \ Held : TRUE
           u == [t EXCEPT !.pc = "write", !.inode = opened]
<1>0. /\ UNCHANGED <<path, life, knowledge, timers, scrubbing, count, late, shared, second>>
      /\ tmp' = [tmp EXCEPT ![t.name] = opened] /\ data' = [data EXCEPT ![opened] = <<>>]
      /\ task' = [task EXCEPT ![s] = u] /\ t.pc = "open"
      /\ tmp[t.name] # Null \/ Inodes \ Held # {}
  BY DEF Open, tools
<1>1. t \in Task /\ t.name \in Names
  BY TaskThere
<1>2. /\ opened \in Inodes /\ \A f \in Files : path[f] # opened
      /\ \A m \in Names \ {t.name} : tmp[m] # opened
  <2>1. CASE tmp[t.name] # Null
    BY <1>1, <2>1 DEF WatchInv, WatchTypes, DiskOK, OneName
  <2>2. CASE tmp[t.name] = Null
    <3>1. opened \in Inodes \ Held
      BY <1>0, <2>2
    <3> HIDE DEF opened
    <3> QED
      BY <3>1 DEF Held, Named
  <2> QED
    BY <2>1, <2>2
<1> HIDE DEF opened
<1>3. opened # Null
  BY <1>2, NullAssumption
<1>4. u \in Task
  BY <1>1, <1>2 DEF Task
<1>5. u.pc = "write" /\ u.text = t.text /\ u.name = t.name /\ u.file = t.file /\ u.inode = opened
  BY <1>1 DEF Task
<1> HIDE DEF u
<1>6. /\ task'[s] = u
      /\ \A x \in Slots \ {s} : task'[x] = task[x] /\ (PastReading(x)' <=> PastReading(x))
  BY <1>0, OthersStay
<1>7. /\ tmp'[t.name] = opened
      /\ \A m \in Names \ {t.name} : tmp'[m] = tmp[m]
      /\ \A i \in Inodes \ {opened} : data'[i] = data[i]
  BY <1>0, <1>1 DEF WatchInv, WatchTypes
<1>8. WatchTypes'
  <2>1. task' \in [Slots -> Task \cup {Null}] /\ tmp' \in [Names -> Inodes \cup {Null}]
    BY <1>0, <1>2, <1>4 DEF WatchInv, WatchTypes
  <2>2. data' \in [Inodes -> Seq(Entry)]
    <3>1. <<>> \in Seq(Entry) /\ data \in [Inodes -> Seq(Entry)]
      BY DEF WatchInv, WatchTypes
    <3> QED
      BY <1>0, <1>2, <3>1
  <2> QED
    BY <1>0, <2>1, <2>2 DEF WatchInv, WatchTypes
<1>9. LifeOK'
  BY <1>0, RewriteLife
<1>10. OneName'
  BY <1>0, <1>2, <1>7 DEF WatchInv, DiskOK, OneName
<1>11. FilesOpen'
  BY <1>3, <1>5, <1>6 DEF WatchInv, DiskOK, FilesOpen, Running
<1>12. ASSUME ~shared' PROVE OwnName' /\ EntriesSafe'
  <2>1. ~shared /\ OwnName /\ EntriesSafe
    BY <1>0, <1>12 DEF WatchInv, DiskOK
  <2>2. \A x \in Slots \ {s} : PastReading(x) =>
          /\ task[x].name # t.name /\ task[x].name \in Names
          /\ tmp'[task[x].name] = tmp[task[x].name]
    <3> SUFFICES ASSUME NEW x \in Slots \ {s}, PastReading(x)
                 PROVE  task[x].name # t.name /\ task[x].name \in Names
      BY <1>7
    <3>1. PastReading(s)
      BY <1>0 DEF PastReading
    <3> QED
      BY <2>1, <3>1, TaskThere DEF OwnName, PastReading
  <2>3. OwnName'
    BY <1>5, <1>6, <1>7, <2>1, <2>2 DEF OwnName
  <2>4. \A f \in Files : Text(f)' = Text(f)
    BY <1>0, <1>2, <1>7 DEF Text, WatchInv, WatchTypes
  <2>5. \A x \in Slots : PastReading(x)' => PastReading(x) /\ Copy(x)' = Copy(x)
    <3> SUFFICES ASSUME NEW x \in Slots, PastReading(x)'
                 PROVE  PastReading(x) /\ Copy(x)' = Copy(x)
      OBVIOUS
    <3>1. CASE x = s
      BY <1>0, <1>5, <1>6, <3>1 DEF Copy, PastReading
    <3>2. CASE x # s
      <4>1. PastReading(x) /\ task'[x] = task[x]
        BY <1>6, <3>2
      <4>2. CASE task[x].pc = "rename"
        <5>1. /\ tmp[task[x].name] # Null /\ task[x].name \in Names \ {t.name}
          BY <2>1, <2>2, <3>2, <4>1, <4>2 DEF OwnName
        <5>2. tmp[task[x].name] \in Inodes \ {opened}
          BY <1>2, <5>1 DEF WatchInv, WatchTypes
        <5> QED
          BY <1>7, <4>1, <4>2, <5>1, <5>2 DEF Copy
      <4>3. CASE task[x].pc # "rename"
        BY <4>1, <4>3 DEF Copy
      <4> QED
        BY <4>1, <4>2, <4>3
    <3> QED
      BY <3>1, <3>2
  <2>6. \A x \in Slots : Replacing(x)' =>
          /\ PastReading(x)' /\ task'[x].file = task[x].file
          /\ task[x].pc # "unlink"
    BY <1>0, <1>5, <1>6 DEF Replacing
  <2>7. \A f \in Files : \A n : Safe(f, n) => Safe(f, n)'
    BY <2>4, <2>5, <2>6 DEF Safe, Replacing
  <2> QED
    BY <1>0, <2>1, <2>3, <2>7 DEF EntriesSafe
<1> QED
  BY <1>8, <1>9, <1>10, <1>11, <1>12 DEF WatchInv, DiskOK

LEMMA WriteInv == ASSUME WatchInv, NEW s \in Slots, Running(s), Write(s) PROVE WatchInv'
<1> DEFINE t == task[s]
           i == t.inode
           u == [t EXCEPT !.pc = "rename", !.inode = Null]
<1>0. /\ UNCHANGED <<path, tmp, life, knowledge, scrubbing, count, late, shared, second>>
      /\ data' = [data EXCEPT ![i] = Overwritten(data[i], t.text)]
      /\ timers' = timers \cup Changed(i)
      /\ task' = [task EXCEPT ![s] = u] /\ t.pc = "write"
  BY DEF Write, tools
<1>1. t \in Task /\ t.name \in Names /\ t.text \in Seq(Entry) /\ i \in Inodes /\ data[i] \in Seq(Entry)
  BY <1>0, TaskThere DEF WatchInv, DiskOK, FilesOpen
<1>2. /\ Overwritten(data[i], t.text) \in Seq(Entry)
      /\ \A n : Holds(t.text, n) => Holds(Overwritten(data[i], t.text), n)
  BY <1>1, OverwrittenOK
<1>3. u \in Task
  BY <1>1 DEF Task
<1>4. u.pc = "rename" /\ u.name = t.name /\ u.file = t.file /\ u.inode = Null
  BY <1>1 DEF Task
<1> HIDE DEF u
<1>5. /\ task'[s] = u
      /\ \A x \in Slots \ {s} : task'[x] = task[x] /\ (PastReading(x)' <=> PastReading(x))
  BY <1>0, OthersStay
<1>6. /\ data'[i] = Overwritten(data[i], t.text)
      /\ \A j \in Inodes \ {i} : data'[j] = data[j]
  BY <1>0, <1>1 DEF WatchInv, WatchTypes
<1>7. WatchTypes'
  <2>1. task' \in [Slots -> Task \cup {Null}] /\ data' \in [Inodes -> Seq(Entry)]
    BY <1>0, <1>2, <1>3 DEF WatchInv, WatchTypes
  <2> QED
    BY <1>0, <2>1 DEF WatchInv, WatchTypes
<1>8. LifeOK'
  BY <1>0, RewriteLife DEF Changed
<1>9. OneName'
  BY <1>0 DEF WatchInv, DiskOK, OneName
<1>10. FilesOpen'
  BY <1>4, <1>5 DEF WatchInv, DiskOK, FilesOpen, Running
<1>11. ASSUME ~shared' PROVE OwnName' /\ EntriesSafe'
  <2>1. ~shared /\ OwnName /\ EntriesSafe /\ OneName
    BY <1>0, <1>11 DEF WatchInv, DiskOK
  <2>2. tmp[t.name] = i /\ i # Null
    BY <1>0, <1>1, <2>1, NullAssumption DEF OwnName, PastReading
  <2>3. OwnName'
    <3>1. PastReading(s)
      BY <1>0 DEF PastReading
    <3> QED
      BY <1>0, <1>4, <1>5, <2>1, <2>2, <3>1 DEF OwnName
  <2>4. \A f \in Files : Text(f)' = Text(f)
    BY <1>0, <1>1, <1>6, <2>1, <2>2 DEF Text, OneName, WatchInv, WatchTypes
  <2>5. ASSUME NEW x \in Slots, PastReading(x)', NEW n, Holds(Copy(x), n)
        PROVE  Holds(Copy(x)', n)
    <3>1. CASE x = s
      <4>1. Copy(x) = t.text
        BY <1>0, <3>1 DEF Copy
      <4>2. Copy(x)' = Overwritten(data[i], t.text)
        BY <1>0, <1>4, <1>5, <1>6, <2>2, <3>1 DEF Copy
      <4> QED
        BY <1>2, <2>5, <4>1, <4>2
    <3>2. CASE x # s
      <4>1. PastReading(x) /\ task'[x] = task[x]
        BY <1>5, <2>5, <3>2
      <4>2. CASE task[x].pc = "rename"
        <5>1. /\ tmp[task[x].name] # Null /\ task[x].name \in Names /\ task[x].name # t.name
          BY <1>0, <2>1, <3>2, <4>1, <4>2, TaskThere DEF OwnName, PastReading
        <5>2. tmp[task[x].name] # i
          BY <1>1, <2>1, <2>2, <5>1 DEF OneName
        <5>3. tmp[task[x].name] \in Inodes \ {i}
          BY <5>1, <5>2 DEF WatchInv, WatchTypes
        <5> QED
          BY <1>0, <1>6, <2>5, <4>1, <4>2, <5>3 DEF Copy
      <4>3. CASE task[x].pc # "rename"
        BY <2>5, <4>1, <4>3 DEF Copy
      <4> QED
        BY <4>2, <4>3
    <3> QED
      BY <3>1, <3>2
  <2>6. \A x \in Slots : Replacing(x)' =>
          PastReading(x)' /\ task'[x].file = task[x].file /\ Replacing(x)
    BY <1>0, <1>4, <1>5 DEF PastReading, Replacing
  <2>7. ASSUME NEW f \in Files, NEW n, Safe(f, n) PROVE Safe(f, n)'
    <3>1. Holds(Text(f)', n)
      BY <2>4, <2>7 DEF Safe
    <3>2. \A x \in Slots : Replacing(x)' /\ task'[x].file = f => Holds(Copy(x)', n)
      BY <2>5, <2>6, <2>7 DEF Safe
    <3> QED
      BY <3>1, <3>2 DEF Safe, Holds
  <2> QED
    BY <1>0, <2>1, <2>3, <2>7 DEF EntriesSafe
<1> QED
  BY <1>7, <1>8, <1>9, <1>10, <1>11 DEF WatchInv, DiskOK

LEMMA ThrowInv == ASSUME WatchInv, NEW s \in Slots, Running(s), Throw(s) PROVE WatchInv'
<1> DEFINE t == task[s]
           i == t.inode
           u == [t EXCEPT !.pc = "unlink", !.inode = Null]
<1>0. /\ UNCHANGED <<path, tmp, life, knowledge, scrubbing, count, late, shared, second>>
      /\ task' = [task EXCEPT ![s] = u] /\ t.pc \in {"open", "write", "rename"}
  BY DEF Throw, tools
<1>1. t \in Task /\ t.name \in Names /\ t.text \in Seq(Entry)
  BY TaskThere
<1>2. u \in Task
  BY <1>1 DEF Task
<1>3. u.pc = "unlink" /\ u.name = t.name /\ u.file = t.file /\ u.text = t.text /\ u.inode = Null
  BY <1>1 DEF Task
<1> HIDE DEF u
<1>4. /\ task'[s] = u
      /\ \A x \in Slots \ {s} : task'[x] = task[x] /\ (PastReading(x)' <=> PastReading(x))
  BY <1>0, OthersStay
<1>5. /\ data' \in [Inodes -> Seq(Entry)]
      /\ timers' \subseteq timers \cup (IF Watching THEN Files ELSE {})
      /\ \A j \in Inodes : t.pc # "write" \/ j # i => data'[j] = data[j]
  <2>1. CASE t.pc \in {"open", "rename"} /\ UNCHANGED <<data, timers>>
    BY <2>1 DEF WatchInv, WatchTypes
  <2>2. CASE /\ t.pc = "write" /\ timers' = timers \cup Changed(i)
             /\ \E k \in 0..Len(t.text) :
                  data' = [data EXCEPT ![i] = Overwritten(data[i], SubSeq(t.text, 1, k))]
    <3>1. PICK k \in 0..Len(t.text) :
            data' = [data EXCEPT ![i] = Overwritten(data[i], SubSeq(t.text, 1, k))]
      BY <2>2
    <3>2. i \in Inodes /\ data[i] \in Seq(Entry)
      BY <2>2, TaskThere DEF WatchInv, DiskOK, FilesOpen
    <3>3. SubSeq(t.text, 1, k) \in Seq(Entry)
      BY <1>1
    <3>4. Overwritten(data[i], SubSeq(t.text, 1, k)) \in Seq(Entry)
      BY <3>2, <3>3, OverwrittenOK
    <3>5. data \in [Inodes -> Seq(Entry)]
      BY DEF WatchInv, WatchTypes
    <3>6. /\ data' \in [Inodes -> Seq(Entry)]
          /\ \A j \in Inodes : j # i => data'[j] = data[j]
      BY <3>1, <3>2, <3>4, <3>5
    <3> QED
      BY <2>2, <3>6 DEF Changed
  <2> QED
    BY <2>1, <2>2 DEF Throw
<1>6. WatchTypes'
  <2>1. task' \in [Slots -> Task \cup {Null}]
    BY <1>0, <1>2 DEF WatchInv, WatchTypes
  <2> QED
    BY <1>0, <1>5, <2>1 DEF WatchInv, WatchTypes
<1>7. LifeOK'
  BY <1>0, <1>5, RewriteLife
<1>8. OneName'
  BY <1>0 DEF WatchInv, DiskOK, OneName
<1>9. FilesOpen'
  BY <1>3, <1>4 DEF WatchInv, DiskOK, FilesOpen, Running
<1>10. ASSUME ~shared' PROVE OwnName' /\ EntriesSafe'
  <2>1. ~shared /\ OwnName /\ EntriesSafe /\ OneName
    BY <1>0, <1>10 DEF WatchInv, DiskOK
  <2>2. PastReading(s)
    BY <1>0 DEF PastReading
  <2>3. t.pc = "write" => tmp[t.name] = i /\ i \in Inodes /\ i # Null
    BY <2>1, <2>2, TaskThere, NullAssumption DEF OwnName, WatchInv, DiskOK, FilesOpen
  <2>4. OwnName'
    BY <1>0, <1>3, <1>4, <2>1, <2>2 DEF OwnName
  <2>5. \A f \in Files : Text(f)' = Text(f)
    BY <1>0, <1>1, <1>5, <2>1, <2>3 DEF Text, OneName, WatchInv, WatchTypes
  <2>6. ASSUME NEW x \in Slots, Replacing(x)'
        PROVE  Replacing(x) /\ task'[x] = task[x] /\ Copy(x)' = Copy(x)
    <3>1. x # s /\ Replacing(x) /\ task'[x] = task[x]
      BY <1>3, <1>4, <2>6 DEF Replacing
    <3>2. CASE task[x].pc = "rename"
      <4>1. /\ tmp[task[x].name] # Null /\ task[x].name \in Names /\ task[x].name # t.name
        BY <2>1, <2>2, <3>1, <3>2, TaskThere DEF OwnName, PastReading, Replacing
      <4>2. t.pc = "write" => tmp[task[x].name] # i
        BY <1>1, <2>1, <2>3, <4>1 DEF OneName
      <4>3. tmp[task[x].name] \in Inodes
        BY <4>1 DEF WatchInv, WatchTypes
      <4> QED
        BY <1>0, <1>5, <3>1, <3>2, <4>2, <4>3 DEF Copy
    <3>3. CASE task[x].pc # "rename"
      BY <3>1, <3>3 DEF Copy
    <3> QED
      BY <3>1, <3>2, <3>3
  <2>7. ASSUME NEW f \in Files, NEW n, Safe(f, n) PROVE Safe(f, n)'
    <3>1. Holds(Text(f)', n)
      BY <2>5, <2>7 DEF Safe
    <3>2. \A x \in Slots : Replacing(x)' /\ task'[x].file = f => Holds(Copy(x)', n)
      BY <2>6, <2>7 DEF Safe
    <3> QED
      BY <3>1, <3>2 DEF Safe, Holds
  <2> QED
    BY <1>0, <2>1, <2>4, <2>7 DEF EntriesSafe
<1> QED
  BY <1>6, <1>7, <1>8, <1>9, <1>10 DEF WatchInv, DiskOK

LEMMA ForgetOK ==
  ASSUME WatchInv, NEW gone
  PROVE  /\ Forget(gone) \in [Inodes -> Seq(Entry)]
         /\ \A i \in Inodes \ gone : Forget(gone)[i] = data[i]
<1>1. <<>> \in Seq(Entry) /\ data \in [Inodes -> Seq(Entry)]
  BY DEF WatchInv, WatchTypes
<1> QED
  BY <1>1 DEF Forget

LEMMA RenameInv == ASSUME WatchInv, NEW s \in Slots, Running(s), Rename(s) PROVE WatchInv'
<1> DEFINE t == task[s]
           new == tmp[t.name]
           gone == {path[t.file]} \ (Named \cup Opened)
<1>0. /\ UNCHANGED <<life, knowledge, scrubbing, count, late, shared, second>> /\ t.pc = "rename"
  BY DEF Rename
<1>1. /\ t \in Task /\ t.name \in Names /\ t.file \in Files
      /\ task \in [Slots -> Task \cup {Null}]
  BY TaskThere DEF WatchInv, WatchTypes
<1>2. ASSUME ~shared' PROVE ~shared /\ OwnName /\ EntriesSafe /\ OneName /\ PastReading(s)
  BY <1>0, <1>2 DEF WatchInv, DiskOK, PastReading
<1>4. CASE /\ tmp[t.name] # Null
           /\ path' = [path EXCEPT ![t.file] = new] /\ tmp' = [tmp EXCEPT ![t.name] = Null]
           /\ data' = Forget(gone)
           /\ timers' = timers \cup (IF Watching THEN {t.file} ELSE {})
           /\ task' = [task EXCEPT ![s] = Null]
  <2>1. new \in Inodes /\ path[t.file] \in Inodes
    BY <1>1, <1>4 DEF WatchInv, WatchTypes
  <2>2. /\ path'[t.file] = new /\ tmp'[t.name] = Null
        /\ \A f \in Files \ {t.file} : path'[f] = path[f]
        /\ \A m \in Names \ {t.name} : tmp'[m] = tmp[m]
    BY <1>1, <1>4 DEF WatchInv, WatchTypes
  <2>3. /\ data' \in [Inodes -> Seq(Entry)]
        /\ \A i \in Inodes : i # path[t.file] => data'[i] = data[i]
    BY <1>4, ForgetOK
  <2>4. /\ task'[s] = Null
        /\ \A x \in Slots \ {s} : task'[x] = task[x] /\ (PastReading(x)' <=> PastReading(x))
    BY <1>4, OthersStay
  <2>5. WatchTypes'
    <3>1. task' \in [Slots -> Task \cup {Null}]
      BY <1>1, <1>4
    <3>2. path' \in [Files -> Inodes] /\ tmp' \in [Names -> Inodes \cup {Null}]
      BY <1>4, <2>1 DEF WatchInv, WatchTypes
    <3> QED
      BY <1>0, <2>3, <3>1, <3>2 DEF WatchInv, WatchTypes
  <2>6. LifeOK'
    BY <1>0, <1>1, <1>4, RewriteLife
  <2>7. OneName'
    <3> HIDE DEF new
    <3>1. OneName /\ new # Null /\ new = tmp[t.name]
      BY <1>4 DEF WatchInv, DiskOK, new
    <3>2. \A f, g \in Files : path'[f] = path'[g] => f = g
      BY <1>1, <2>2, <3>1 DEF OneName
    <3>3. \A m, n \in Names : tmp'[m] = tmp'[n] /\ tmp'[m] # Null => m = n
      BY <1>1, <2>2, <3>1 DEF OneName
    <3>4. ASSUME NEW f \in Files, NEW n \in Names PROVE path'[f] # tmp'[n]
      <4>1. path'[f] # Null
        BY <2>5, NullAssumption DEF WatchTypes
      <4>2. CASE n = t.name
        BY <2>2, <4>1, <4>2
      <4>3. CASE n # t.name
        BY <1>1, <2>2, <3>1, <4>3 DEF OneName
      <4> QED
        BY <4>2, <4>3
    <3> QED
      BY <3>2, <3>3, <3>4 DEF OneName
  <2>8. FilesOpen'
    BY <2>4 DEF WatchInv, DiskOK, FilesOpen, Running
  <2>9. ~PastReading(s)'
    BY <2>4 DEF PastReading, Running
  <2>10. ASSUME ~shared' PROVE OwnName' /\ EntriesSafe'
    <3>1. ~shared /\ OwnName /\ EntriesSafe /\ OneName /\ PastReading(s)
      BY <1>2, <2>10
    <3>2. \A x \in Slots \ {s} : PastReading(x) =>
             task[x].name # t.name /\ task[x].name \in Names /\ tmp'[task[x].name] = tmp[task[x].name]
      <4> SUFFICES ASSUME NEW x \in Slots \ {s}, PastReading(x)
                   PROVE  task[x].name # t.name /\ task[x].name \in Names
        BY <2>2
      <4> QED
        BY <3>1, TaskThere DEF OwnName, PastReading
    <3>3. OwnName'
      BY <2>4, <2>9, <3>1, <3>2 DEF OwnName
    <3>4. \A x \in Slots : PastReading(x)' =>
             x # s /\ PastReading(x) /\ task'[x] = task[x] /\ (Replacing(x)' <=> Replacing(x))
      BY <2>4, <2>9 DEF Replacing
    <3>5. ASSUME NEW x \in Slots, PastReading(x)' PROVE Copy(x)' = Copy(x)
      <4>1. x # s /\ PastReading(x) /\ task'[x] = task[x]
        BY <3>4, <3>5
      <4>2. CASE task[x].pc = "rename"
        <5>1. /\ tmp[task[x].name] # Null /\ task[x].name \in Names
              /\ tmp'[task[x].name] = tmp[task[x].name]
          BY <3>1, <3>2, <4>1, <4>2 DEF OwnName
        <5>2. tmp[task[x].name] # path[t.file] /\ tmp[task[x].name] \in Inodes
          BY <1>1, <3>1, <5>1 DEF OneName, WatchInv, WatchTypes
        <5> QED
          BY <2>3, <4>1, <4>2, <5>1, <5>2 DEF Copy
      <4>3. CASE task[x].pc # "rename"
        BY <4>1, <4>3 DEF Copy
      <4> QED
        BY <4>2, <4>3
    <3>6. ASSUME NEW f \in Files, NEW n, Safe(f, n) PROVE Safe(f, n)'
      <4>1. Holds(Text(f)', n)
        <5>1. CASE f = t.file
          <6>1. new # path[t.file]
            BY <1>1, <3>1 DEF OneName
          <6>2. Text(f)' = data[new]
            BY <2>1, <2>2, <2>3, <5>1, <6>1 DEF Text
          <6>3. Copy(s) = data[new] /\ Replacing(s)
            BY <1>0, <3>1 DEF Copy, Replacing
          <6> QED
            BY <3>6, <5>1, <6>2, <6>3 DEF Safe
        <5>2. CASE f # t.file
          <6>1. path[f] \in Inodes /\ path[f] # path[t.file] /\ path'[f] = path[f]
            BY <1>1, <2>2, <3>1, <5>2 DEF OneName, WatchInv, WatchTypes
          <6>2. Text(f)' = Text(f)
            BY <2>3, <6>1 DEF Text
          <6> QED
            BY <3>6, <6>2 DEF Safe
        <5> QED
          BY <5>1, <5>2
      <4>2. \A x \in Slots : Replacing(x)' /\ task'[x].file = f => Holds(Copy(x)', n)
        BY <3>4, <3>5, <3>6 DEF Safe, Replacing
      <4> QED
        BY <4>1, <4>2 DEF Safe, Holds
    <3> QED
      BY <1>0, <3>1, <3>3, <3>6 DEF EntriesSafe
  <2> QED
    BY <2>5, <2>6, <2>7, <2>8, <2>10 DEF WatchInv, DiskOK
<1> QED
  BY <1>4 DEF Rename, End

LEMMA UnlinkInv == ASSUME WatchInv, NEW s \in Slots, Running(s), Unlink(s) PROVE WatchInv'
<1> DEFINE t == task[s]
           gone == {tmp[t.name]} \ Opened
<1>0. /\ UNCHANGED <<path, life, knowledge, timers, scrubbing, count, late, shared, second>>
      /\ tmp' = [tmp EXCEPT ![t.name] = Null] /\ data' = Forget(gone)
      /\ task' = [task EXCEPT ![s] = Null] /\ t.pc = "unlink"
  BY DEF Unlink, End
<1>1. t.name \in Names /\ task \in [Slots -> Task \cup {Null}]
  BY TaskThere DEF WatchInv, WatchTypes
<1>2. /\ task'[s] = Null
      /\ \A x \in Slots \ {s} : task'[x] = task[x] /\ (PastReading(x)' <=> PastReading(x))
  BY <1>0, OthersStay
<1>3. WatchTypes'
  <2>1. task' \in [Slots -> Task \cup {Null}] /\ data' \in [Inodes -> Seq(Entry)]
    BY <1>0, <1>1, ForgetOK
  <2>2. tmp' \in [Names -> Inodes \cup {Null}]
    BY <1>0 DEF WatchInv, WatchTypes
  <2> QED
    BY <1>0, <2>1, <2>2 DEF WatchInv, WatchTypes
<1>4. LifeOK'
  BY <1>0, RewriteLife
<1>5. OneName'
  <2>1. \A m \in Names : tmp'[m] \in {tmp[m], Null}
    BY <1>0, <1>1 DEF WatchInv, WatchTypes
  <2>2. \A f \in Files : path[f] # Null
    BY NullAssumption DEF WatchInv, WatchTypes
  <2> QED
    BY <1>0, <2>1, <2>2 DEF WatchInv, DiskOK, OneName
<1>6. FilesOpen'
  <2>1. \A x \in Slots : task'[x] \in {task[x], Null}
    BY <1>0, <1>1
  <2> QED
    BY <2>1 DEF WatchInv, DiskOK, FilesOpen, Running
<1>7. ASSUME ~shared' PROVE OwnName' /\ EntriesSafe'
  <2>1. ~shared /\ OwnName /\ EntriesSafe /\ OneName /\ PastReading(s)
    BY <1>0, <1>7 DEF WatchInv, DiskOK, PastReading
  <2>2. /\ \A m \in Names \ {t.name} : tmp'[m] = tmp[m]
        /\ \A j \in Inodes : j # tmp[t.name] => data'[j] = data[j]
    BY <1>0, <1>1, ForgetOK DEF WatchInv, WatchTypes
  <2>3. \A x \in Slots : PastReading(x)' =>
           /\ x # s /\ PastReading(x) /\ task'[x] = task[x] /\ (Replacing(x)' <=> Replacing(x))
           /\ task[x].name \in Names \ {t.name}
    <3>1. ~PastReading(s)'
      BY <1>2 DEF PastReading, Running
    <3> SUFFICES ASSUME NEW x \in Slots, PastReading(x)', x # s
                 PROVE  /\ PastReading(x) /\ task'[x] = task[x] /\ (Replacing(x)' <=> Replacing(x))
                        /\ task[x].name \in Names \ {t.name}
      BY <3>1
    <3>2. PastReading(x) /\ task'[x] = task[x] /\ (Replacing(x)' <=> Replacing(x))
      BY <1>2 DEF Replacing
    <3>3. task[x].name \in Names /\ task[x].name # t.name
      BY <2>1, <3>2, TaskThere DEF OwnName, PastReading
    <3> QED
      BY <3>2, <3>3
  <2>4. OwnName'
    BY <2>1, <2>2, <2>3 DEF OwnName
  <2>5. \A f \in Files : Text(f)' = Text(f)
    <3> SUFFICES ASSUME NEW f \in Files PROVE data'[path[f]] = data[path[f]]
      BY <1>0 DEF Text
    <3>1. path[f] \in Inodes /\ path[f] # tmp[t.name]
      BY <1>1, <2>1 DEF OneName, WatchInv, WatchTypes
    <3> QED
      BY <2>2, <3>1
  <2>6. ASSUME NEW x \in Slots, PastReading(x)' PROVE Copy(x)' = Copy(x)
    <3>1. CASE task[x].pc = "rename"
      <4>1. /\ tmp[task[x].name] # Null /\ tmp'[task[x].name] = tmp[task[x].name]
            /\ tmp[task[x].name] # tmp[t.name] /\ tmp[task[x].name] \in Inodes
        BY <1>1, <2>1, <2>2, <2>3, <2>6, <3>1 DEF OwnName, OneName, WatchInv, WatchTypes
      <4> QED
        BY <2>2, <2>3, <2>6, <3>1, <4>1 DEF Copy
    <3>2. CASE task[x].pc # "rename"
      BY <2>3, <2>6, <3>2 DEF Copy
    <3> QED
      BY <3>1, <3>2
  <2>7. \A f \in Files : \A n : Safe(f, n) => Safe(f, n)'
    <3> SUFFICES ASSUME NEW f \in Files, NEW n, Safe(f, n) PROVE Safe(f, n)'
      OBVIOUS
    <3>1. Holds(Text(f)', n)
      BY <2>5 DEF Safe
    <3>2. \A x \in Slots : Replacing(x)' /\ task'[x].file = f => Holds(Copy(x)', n)
      BY <2>3, <2>6 DEF Safe, Replacing
    <3> QED
      BY <3>1, <3>2 DEF Safe, Holds
  <2> QED
    BY <1>0, <2>1, <2>4, <2>7 DEF EntriesSafe
<1> QED
  BY <1>0, <1>3, <1>4, <1>5, <1>6, <1>7 DEF WatchInv, DiskOK

-----------------------------------------------------------------------------
(* The specification *)

LEMMA WatchInitInv == WatchInit => WatchInv
<1> SUFFICES ASSUME WatchInit PROVE WatchInv
  OBVIOUS
<1>1. path \in [Files -> Inodes] /\ IsInjective(path)
  <2>1. PICK p \in [Files -> Inodes] : IsInjective(p)
    BY FileAssumption
  <2> QED
    BY <2>1 DEF WatchInit
<1>2. /\ tmp = [n \in Names |-> Null] /\ data = [i \in Inodes |-> <<>>]
      /\ task = [s \in Slots |-> Null] /\ count = 0 /\ late = {} /\ second = 0
  BY DEF WatchInit
<1>3. 0 \in 0..MaxEntries /\ 0 \in 0..MaxSeconds /\ 0 \in 0..MaxDeaths /\ 0 \in 0..MaxScrubs
  BY BoundAssumption
<1>4. WatchTypes
  <2>1. <<>> \in Seq(Entry)
    OBVIOUS
  <2> QED
    BY <1>1, <1>2, <1>3, <2>1 DEF WatchTypes
<1>5. LifeOK
  BY <1>3 DEF WatchInit, LifeOK, Alive, Watching
<1>6. OneName
  <2>1. \A f \in Files : path[f] # Null
    BY <1>1, NullAssumption
  <2> QED
    BY <1>1, <1>2, <2>1 DEF OneName, IsInjective
<1>7. \A s \in Slots : ~Running(s)
  BY <1>2 DEF Running
<1>8. FilesOpen /\ OwnName
  BY <1>7 DEF FilesOpen, OwnName, PastReading
<1>9. EntriesSafe
  BY <1>2 DEF EntriesSafe
<1> QED
  BY <1>4, <1>5, <1>6, <1>8, <1>9 DEF WatchInv, DiskOK

LEMMA WatchNextInv == WatchInv /\ [WatchNext]_watchVars => WatchInv'
<1> SUFFICES ASSUME WatchInv, [WatchNext]_watchVars
             PROVE  WatchInv'
  OBVIOUS
<1>1. ASSUME NEW s \in Slots, Rewrite(s) PROVE WatchInv'
  BY <1>1, ReadInv, SkipInv, OpenInv, WriteInv, RenameInv, ThrowInv, UnlinkInv DEF Rewrite
<1>2. ASSUME NEW f \in Files, NEW text \in Texts, ToolAppend(f, text) PROVE WatchInv'
  BY <1>2, ToolAppendInv
<1>3. CASE Tick \/ Exec \/ Register \/ StopWaiting
  BY <1>3, TickInv, ExecInv
<1>4. CASE ProcessNext
  <2>1. CASE ExitWatch
    BY <2>1, GoneInv DEF ExitWatch
  <2>2. CASE Die
    BY <2>2, GoneInv DEF Die
  <2> QED
    BY <1>4, <2>1, <2>2, StartWatchInv, WatchStepInv, SignalInv, StopWatchInv, StoppedInv,
       StrangerInv, FireInv
    DEF ProcessNext
<1>5. CASE ScrubNext
  BY <1>5, ScrubInv, ScrubFileInv, ScrubEndInv DEF ScrubNext
<1>6. CASE UNCHANGED watchVars
  <2>1. UNCHANGED <<disk, life, knowledge, timers, task, scrubbing, second, tools>>
    BY <1>6 DEF watchVars, disk, life, knowledge, scrubbing, tools
  <2>2. WatchTypes' /\ DiskOK'
    BY <2>1, StillOK
  <2>3. LifeOK'
    BY <2>1, RewriteLife
  <2> QED
    BY <2>2, <2>3 DEF WatchInv
<1> QED
  BY <1>1, <1>2, <1>3, <1>4, <1>5, <1>6 DEF WatchNext

\* Only rewrites of the files fail.
LEMMA FailedInv == ASSUME WatchIInv, [WatchNext]_watchVars PROVE failed' \subseteq Files
<1> USE DEF WatchIInv
<1>1. ASSUME NEW s \in Slots, Rewrite(s) PROVE failed' \subseteq Files
  <2>1. task[s].file \in Files
    BY <1>1, TaskThere DEF Rewrite
  <2> QED
    BY <1>1, <2>1 DEF Rewrite, Read, Skip, Open, Write, Rename, Throw, Unlink, End, tools
<1>2. ASSUME NEW f \in Files, NEW text \in Texts, ToolAppend(f, text) PROVE failed' \subseteq Files
  BY <1>2 DEF ToolAppend
<1>3. CASE Tick \/ Exec \/ Register \/ StopWaiting
  BY <1>3 DEF Tick, Exec, Register, StopWaiting, tools
<1>4. CASE ProcessNext
  BY <1>4 DEF ProcessNext, StartWatch, Watch, Die, ProcessGone, Signal, ExitWatch, StopWatch,
              Stopped, Stranger, Fire, tools
<1>5. CASE ScrubNext
  BY <1>5 DEF ScrubNext, Scrub, ScrubFile, ScrubEnd, tools
<1>6. CASE UNCHANGED watchVars
  BY <1>6 DEF watchVars
<1> QED
  BY <1>1, <1>2, <1>3, <1>4, <1>5, <1>6 DEF WatchNext

LEMMA KeptFollows == WatchIInv => Kept
<1> SUFFICES ASSUME WatchIInv PROVE Kept
  OBVIOUS
<1> USE DEF WatchIInv
<1>1. WatchTypeOK
  <2>1. path \in [Files -> Inodes] /\ IsInjective(path)
    BY DEF WatchInv, WatchTypes, DiskOK, OneName, IsInjective
  <2>2. DOMAIN data = Inodes /\ \A i \in Inodes : \A k \in DOMAIN data[i] : data[i][k] \in Entry
    <3> SUFFICES ASSUME NEW i \in Inodes, NEW k \in DOMAIN data[i]
                 PROVE  data[i][k] \in Entry
      BY DEF WatchInv, WatchTypes
    <3>1. data[i] \in Seq(Entry)
      BY DEF WatchInv, WatchTypes
    <3> QED
      BY <3>1
  <2>3. \A s \in Slots : Running(s) =>
          /\ task[s].file \in Files /\ task[s].name \in Names
          /\ task[s].inode # Null <=> task[s].pc = "write"
    BY TaskThere DEF WatchInv, DiskOK, FilesOpen
  <2> QED
    BY <2>1, <2>2, <2>3 DEF WatchTypeOK, WatchInv, WatchTypes, LifeOK
<1>2. ~shared => OnlyLateLost
  BY DEF WatchInv, DiskOK, EntriesSafe, OnlyLateLost, Safe, Present, Holds
<1>3. NotTwice /\ Findable
  BY DEF WatchInv, LifeOK, NotTwice, Findable, Watching
<1> QED
  BY <1>1, <1>2, <1>3 DEF Kept

\* Unless two rewrites shared a name, only what was appended between a read and the rename
\* that followed is missing from a file, however rewrites overlap and wherever the watcher or
\* keynv scrub ends; the pid file leads to the one watcher there is (rewriteFile, runWatcher).
THEOREM EntriesAreKept == WatchSpec => []Kept
<1>1. WatchInit => WatchIInv
  BY WatchInitInv DEF WatchIInv, WatchInit
<1>2. WatchIInv /\ [WatchNext]_watchVars => WatchIInv'
  BY WatchNextInv, FailedInv DEF WatchIInv
<1> QED
  BY <1>1, <1>2, KeptFollows, PTL DEF WatchSpec
==============================================================================
