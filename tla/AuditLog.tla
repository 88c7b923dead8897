------------------------------ MODULE AuditLog ------------------------------
(***************************************************************************)
(* The audit table: appendAudit (apps/server/src/audit/append.ts), the     *)
(* hash chain (packages/core/src/audit/chain.ts) and POST /v1/audit/verify *)
(* (apps/server/src/routes/audit.ts), which walks the table in pages while *)
(* other requests append.  An append is one transaction; the walk awaits   *)
(* between pages.                                                          *)
(*                                                                         *)
(* A hash is known by all that went into it: the rows up to its own, each  *)
(* with the key of the build that wrote it.                                *)
(***************************************************************************)
EXTENDS Naturals, Sequences, FiniteSets

CONSTANTS
  Events,      \* who did what when: what a hash covers of a row
  Walks,       \* requests that verify the chain
  Keys,        \* chain keys, one per KEK
  Keyless,     \* the key of builds that configured none
  Null,
  PageSize,    \* rows read at a time (1000)
  MaxRows,     \* bound on the rows appended
  MaxEdits,    \* bound on changes that bypass the server
  MaxRestarts  \* bound on restarts

ASSUME KeyAssumption == Keyless \notin Keys
ASSUME PageAssumption == PageSize \in Nat \ {0}
ASSUME BoundAssumption ==
  MaxRows \in Nat /\ MaxEdits \in Nat /\ MaxRestarts \in Nat

VARIABLES
  audit,     \* the table by id; a row that was removed leaves Null
  key,       \* the chain key of the running process
  edits,     \* changes that bypassed the server
  restarts,  \* restarts so far
  cursor,    \* walk -> the last id it has checked
  tail,      \* walk -> the hash of that row
  total,     \* walk -> the number of rows it has checked
  reply,     \* walk -> what its client is told
  base       \* history: walk -> the table and the edits when it began

vars == <<audit, key, edits, restarts, cursor, tail, total, reply, base>>

walks == <<cursor, tail, total, reply, base>>

Hashes == Seq([key : Keys \cup {Keyless}, event : Events])

GENESIS_HASH == <<>>

Row == [prev : Hashes, event : Events, hash : Hashes]

ASSUME NullAssumption == Null \notin Row

----------------------------------------------------------------------------
(* The chain *)

\* Rows of a table
Live(t) == {i \in DOMAIN t : t[i] # Null}

\* The row right before id i, as a set of at most one
Before(i, t) ==
  {j \in Live(t) : /\ j < i
                   /\ \A k \in Live(t) : k < i => k <= j}

\* The hash of the last row before id i
HashBefore(i, t) ==
  IF Before(i, t) = {} THEN GENESIS_HASH
                       ELSE t[CHOOSE j \in Before(i, t) : TRUE].hash

\* Mutant of LastHash: the rows are not ordered by id
FirstHash == IF Live(audit) = {} THEN GENESIS_HASH
             ELSE audit[CHOOSE i \in Live(audit) : \A j \in Live(audit) : i <= j].hash

\* ORDER BY id DESC LIMIT 1
LastHash == HashBefore(Len(audit) + 1, audit)

\* Mutant of ComputeHash: the hash is not keyed
UnkeyedHash(k, prev, event) == Append(prev, [event |-> event])

ComputeHash(k, prev, event) == Append(prev, [key |-> k, event |-> event])

\* Mutant of HashMatches: only the link to the row before is checked
AnyHash(row) == TRUE

\* The stored hash is the one recomputed with the key that is configured now.
HashMatches(row) == row.hash = ComputeHash(key, row.prev, row.event)

\* Mutant of StartOfPage: each page is checked as if it were the first
StartAtGenesis(w) == GENESIS_HASH

\* startingPrevHash: the tail of the page before
StartOfPage(w) == tail[w]

\* The prev_hash that verifyChain expects in row i of the page after the cursor
ExpectedPrev(w, i) ==
  IF \E j \in Live(audit) : cursor[w] < j /\ j < i
  THEN HashBefore(i, audit)
  ELSE StartOfPage(w)

----------------------------------------------------------------------------

Init ==
  /\ audit = <<>>
  /\ key \in Keys \cup {Keyless}
  /\ edits = 0
  /\ restarts = 0
  /\ cursor = [w \in Walks |-> 0]
  /\ tail = [w \in Walks |-> GENESIS_HASH]
  /\ total = [w \in Walks |-> 0]
  /\ reply = [w \in Walks |-> "none"]
  /\ base = [w \in Walks |-> [table |-> <<>>, edits |-> 0]]

AppendAudit(event) ==
  /\ Len(audit) < MaxRows
  /\ audit' = Append(audit,
       [prev |-> LastHash, event |-> event,
        hash |-> ComputeHash(key, LastHash, event)])
  /\ UNCHANGED <<key, edits, restarts, walks>>

\* POST /v1/audit/verify
Begin(w) ==
  /\ reply[w] = "none"
  /\ reply' = [reply EXCEPT ![w] = "running"]
  /\ base' = [base EXCEPT ![w] = [table |-> audit, edits |-> edits]]
  /\ UNCHANGED <<audit, key, edits, restarts, cursor, tail, total>>

\* Rows after the cursor, up to id e
Page(w, e) == {i \in Live(audit) : cursor[w] < i /\ i <= e}

Rest(w) == Page(w, Len(audit))

\* WHERE id > cursor ORDER BY id LIMIT PageSize ends with row e.
IsPageEnd(w, e) ==
  /\ e \in Rest(w)
  /\ \/ Cardinality(Page(w, e)) = PageSize
     \/ Cardinality(Page(w, e)) < PageSize /\ Page(w, e) = Rest(w)

\* verifyChain finds row i in order.
RowOK(w, i) ==
  /\ audit[i].prev = ExpectedPrev(w, i)
  /\ HashMatches(audit[i])

VerifyPage(w) ==
  /\ reply[w] = "running"
  /\ \E e \in Rest(w) :
       /\ IsPageEnd(w, e)
       /\ IF \A i \in Page(w, e) : RowOK(w, i)
          THEN /\ cursor' = [cursor EXCEPT ![w] = e]
               /\ tail' = [tail EXCEPT ![w] = audit[e].hash]
               /\ total' = [total EXCEPT ![w] = @ + Cardinality(Page(w, e))]
               /\ UNCHANGED reply
          ELSE /\ reply' = [reply EXCEPT ![w] = "broken"]
               /\ UNCHANGED <<cursor, tail, total>>
  /\ UNCHANGED <<audit, key, edits, restarts, base>>

\* The next page is empty.
VerifyDone(w) ==
  /\ reply[w] = "running"
  /\ Rest(w) = {}
  /\ reply' = [reply EXCEPT ![w] = "ok"]
  /\ UNCHANGED <<audit, key, edits, restarts, cursor, tail, total, base>>

----------------------------------------------------------------------------

\* The database file is changed by hand, or an older copy of it is put back.
EditRow(i, event) ==
  /\ edits < MaxEdits
  /\ i \in Live(audit)
  /\ audit[i].event # event
  /\ audit' = [audit EXCEPT ![i].event = event]
  /\ edits' = edits + 1
  /\ UNCHANGED <<key, restarts, walks>>

RemoveRow(i) ==
  /\ edits < MaxEdits
  /\ i \in Live(audit)
  /\ audit' = [audit EXCEPT ![i] = Null]
  /\ edits' = edits + 1
  /\ UNCHANGED <<key, restarts, walks>>

\* The process starts again, perhaps after an upgrade from a build without a
\* key, and with the KEK that its file holds by then.
Restart ==
  /\ restarts < MaxRestarts
  /\ restarts' = restarts + 1
  /\ key' \in Keys
  /\ reply' = [w \in Walks |-> IF reply[w] = "running" THEN "lost" ELSE reply[w]]
  /\ UNCHANGED <<audit, edits, cursor, tail, total, base>>

Next ==
  \/ \E event \in Events : AppendAudit(event)
  \/ \E w \in Walks : Begin(w) \/ VerifyPage(w) \/ VerifyDone(w)
  \/ \E i \in 1..MaxRows, event \in Events : EditRow(i, event)
  \/ \E i \in 1..MaxRows : RemoveRow(i)
  \/ Restart

Spec == Init /\ [][Next]_vars
----------------------------------------------------------------------------
(* Properties *)

TypeOK ==
  /\ audit \in Seq(Row \cup {Null}) /\ Len(audit) <= MaxRows
  /\ key \in Keys \cup {Keyless}
  /\ edits \in 0..MaxEdits
  /\ restarts \in 0..MaxRestarts
  /\ cursor \in [Walks -> 0..MaxRows]
  /\ tail \in [Walks -> Hashes]
  /\ total \in [Walks -> Nat]
  /\ reply \in [Walks -> {"none", "running", "ok", "broken", "lost"}]
  /\ base \in [Walks -> [table : Seq(Row \cup {Null}), edits : 0..MaxEdits]]

\* Row i follows from the rows before it, under key k.
RowFollows(i, k, t) ==
  /\ t[i].prev = HashBefore(i, t)
  /\ t[i].hash = ComputeHash(k, t[i].prev, t[i].event)

\* A table that verifies as a whole under key k
Intact(k, t) == \A i \in Live(t) : RowFollows(i, k, t)

\* While nobody bypasses the server the table is one unbroken chain, whatever
\* is appended between which restarts and under whichever keys.
ChainIsLinear ==
  edits = 0 =>
    \A i \in Live(audit) : \E k \in Keys \cup {Keyless} : RowFollows(i, k, audit)

\* Every variable has its type and the table is a chain.
LogConsistent == TypeOK /\ ChainIsLinear

\* No false alarm: a walk reports a broken chain only if somebody has bypassed
\* the server or another key has been in use, also when rows are appended
\* between its pages and when the table ends within or at the end of a page.
NoFalseAlarm ==
  [][\A w \in Walks :
       reply[w] # "broken" /\ reply'[w] = "broken"
         => edits > 0 \/ \E i \in Live(audit) :
                           audit[i].hash # ComputeHash(key, audit[i].prev,
                                                       audit[i].event)]_vars

\* An answer "ok" speaks for the table as it was when the walk began: every row
\* of it has been checked, and none was altered or taken out from between
\* others before (a change during the walk may come too late for it).
OkMeansIntact ==
  [][\A w \in Walks :
       /\ reply[w] = "running" /\ reply'[w] = "ok"
       /\ edits = base[w].edits
       => /\ Intact(key, base[w].table)
          /\ total[w] >= Cardinality(Live(base[w].table))]_vars
============================================================================
