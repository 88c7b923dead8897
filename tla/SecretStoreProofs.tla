------------------------- MODULE SecretStoreProofs -------------------------
(***************************************************************************)
(* Theorems about SecretStore for any sets of requests and aliases.        *)
(*                                                                         *)
(* The first part is about the shape of the table.  OneLiveVersion is not  *)
(* inductive: a rotate inserts the version after the one it read several   *)
(* steps ago.  That the insert cannot add a second live version follows    *)
(* from TableOK (versions without gaps, all but the last deleted) and from *)
(* the row the rotate read still being there under the same version        *)
(* (SnapInTable).                                                          *)
(*                                                                         *)
(* The second part is about what the handlers promise their clients and    *)
(* the audit log, and about the promise of VersionedSecrets, which the     *)
(* table implements.  No handler removes a row or renumbers one, and only  *)
(* a commit adds rows (RowStep).  What a request was told therefore stays  *)
(* in the table; what it found newest was not older than what had been     *)
(* committed when it arrived; and a row has its event or a request that    *)
(* owes it.                                                                *)
(***************************************************************************)
EXTENDS SecretStore, Sequences, TLAPS

UniqueIds(S) ==
  \A x, y \in S : x.alias = y.alias /\ x.writer = y.writer => x = y

UniqueVersions(S) ==
  \A x, y \in S : x.alias = y.alias /\ x.version = y.version => x = y

NoGap(S) ==
  \A x \in S : \A v \in 1..x.version :
    \E y \in S : y.alias = x.alias /\ y.version = v

OldDeleted(S) ==
  \A x, y \in S : x.alias = y.alias /\ x.version < y.version => ~x.live

Linked(S) ==
  \A x \in S :
    /\ x.version = 1 <=> x.prev = Null
    /\ x.version > 1 => \E y \in S : /\ y.alias = x.alias
                                     /\ y.version = x.version - 1
                                     /\ y.writer = x.prev

TableOK(S) ==
  /\ UniqueIds(S)
  /\ UniqueVersions(S)
  /\ NoGap(S)
  /\ OldDeleted(S)
  /\ Linked(S)

\* A request that has not committed has written no row.
NotYetWritten ==
  \A r \in Requests : pc[r] \in {"idle", "start", "dek", "write"}
    => \A x \in secrets : x.writer # r

\* The row a request holds is in the table, perhaps with other values in the
\* columns that an update changes.
SnapInTable ==
  \A r \in Requests :
    pc[r] \in {"dek", "write", "audit"} /\ op[r] \in {"read", "rotate", "policy"}
      => /\ snap[r] \in Rows
         /\ \E x \in secrets : /\ SameId(x, snap[r])
                               /\ x.version = snap[r].version

IInv == TypeOK /\ TableOK(secrets) /\ NotYetWritten /\ SnapInTable

----------------------------------------------------------------------------
(* Lemmas about the table *)

\* Inserting version 1 of aliases without one keeps the table's shape: by NoGap
\* an alias without version 1 has no rows at all.
LEMMA InsertFirst ==
  ASSUME NEW S, S \subseteq Rows, TableOK(S),
         NEW A \in SUBSET Aliases, NEW r \in Requests,
         \A x \in S : x.writer # r,
         \A a \in A : ~ \E x \in S : x.alias = a /\ x.version = 1
  PROVE  /\ S \cup {FirstVersion(a, r) : a \in A} \subseteq Rows
         /\ TableOK(S \cup {FirstVersion(a, r) : a \in A})
<1> DEFINE N == {FirstVersion(a, r) : a \in A}
<1>1. \A x \in S : x.version \in Nat \ {0} /\ x.alias \in Aliases
  BY DEF Rows
<1>2. \A x \in N : /\ x.alias \in A /\ x.version = 1 /\ x.prev = Null
                   /\ x.writer = r /\ x = FirstVersion(x.alias, r)
  BY DEF FirstVersion
<1>3. \A x \in S : x.alias \notin A
  <2> SUFFICES ASSUME NEW x \in S, x.alias \in A PROVE FALSE
    OBVIOUS
  <2>1. 1 \in 1..x.version
    BY <1>1
  <2> QED
    BY <2>1 DEF TableOK, NoGap
<1>4. N \subseteq Rows
  <2> SUFFICES ASSUME NEW a \in A PROVE FirstVersion(a, r) \in Rows
    OBVIOUS
  <2> QED
    BY DEF FirstVersion, Rows
<1>5. UniqueIds(S \cup N)
  BY <1>2, <1>3 DEF TableOK, UniqueIds
<1>6. UniqueVersions(S \cup N)
  BY <1>2, <1>3 DEF TableOK, UniqueVersions
<1>7. NoGap(S \cup N)
  <2> SUFFICES ASSUME NEW x \in S \cup N, NEW v \in 1..x.version
               PROVE  \E y \in S \cup N : y.alias = x.alias /\ y.version = v
    BY DEF NoGap
  <2>1. CASE x \in S
    BY <2>1 DEF TableOK, NoGap
  <2>2. CASE x \in N
    BY <2>2, <1>2
  <2> QED
    BY <2>1, <2>2
<1>8. OldDeleted(S \cup N)
  BY <1>2, <1>3 DEF TableOK, OldDeleted
<1>9. Linked(S \cup N)
  <2> SUFFICES ASSUME NEW x \in S \cup N
               PROVE  /\ x.version = 1 <=> x.prev = Null
                      /\ x.version > 1 => \E y \in S \cup N :
                           /\ y.alias = x.alias
                           /\ y.version = x.version - 1
                           /\ y.writer = x.prev
    BY DEF Linked
  <2>1. CASE x \in S
    BY <2>1 DEF TableOK, Linked
  <2>2. CASE x \in N
    BY <2>2, <1>2
  <2> QED
    BY <2>1, <2>2
<1> QED
  BY <1>4, <1>5, <1>6, <1>7, <1>8, <1>9 DEF TableOK

\* T is S after an UPDATE: the same rows but for the columns live, interval and
\* next, and no deleted row is live again.
Updated(S, T) ==
  /\ T \subseteq Rows
  /\ UniqueIds(T)
  /\ \A y \in T : \E x \in S : /\ y.alias = x.alias /\ y.version = x.version
                               /\ y.writer = x.writer /\ y.prev = x.prev
                               /\ y.live => x.live
  /\ \A x \in S : \E y \in T : /\ y.alias = x.alias /\ y.version = x.version
                               /\ y.writer = x.writer /\ y.prev = x.prev

\* An UPDATE of live, interval and next keeps the table's shape.
LEMMA UpdateKeepsTable ==
  ASSUME NEW S, S \subseteq Rows, TableOK(S), NEW T, Updated(S, T)
  PROVE  TableOK(T)
<1>1. UniqueVersions(T)
  BY DEF TableOK, UniqueVersions, UniqueIds, Updated
<1>2. NoGap(T)
  BY DEF TableOK, NoGap, Updated
<1>3. OldDeleted(T)
  BY DEF TableOK, OldDeleted, Updated
<1>4. Linked(T)
  <2> SUFFICES ASSUME NEW y \in T
               PROVE  /\ y.version = 1 <=> y.prev = Null
                      /\ y.version > 1 => \E z \in T :
                           /\ z.alias = y.alias
                           /\ z.version = y.version - 1
                           /\ z.writer = y.prev
    BY DEF Linked
  <2>1. PICK x \in S : /\ y.alias = x.alias /\ y.version = x.version
                       /\ y.writer = x.writer /\ y.prev = x.prev
    BY DEF Updated
  <2>2. y.version = 1 <=> y.prev = Null
    BY <2>1 DEF TableOK, Linked
  <2>3. ASSUME y.version > 1
        PROVE  \E z \in T : /\ z.alias = y.alias
                            /\ z.version = y.version - 1
                            /\ z.writer = y.prev
    <3>1. PICK w \in S : /\ w.alias = x.alias
                         /\ w.version = x.version - 1
                         /\ w.writer = x.prev
      BY <2>1, <2>3 DEF TableOK, Linked
    <3>2. PICK z \in T : z.alias = w.alias /\ z.version = w.version
                         /\ z.writer = w.writer
      BY DEF Updated
    <3> QED
      BY <2>1, <3>1, <3>2
  <2> QED
    BY <2>2, <2>3
<1> QED
  BY <1>1, <1>2, <1>3, <1>4 DEF TableOK, Updated

\* Marking rows deleted is an update.
LEMMA MarkDeletedUpdates ==
  ASSUME NEW S, S \subseteq Rows, TableOK(S), NEW P \in SUBSET S
  PROVE  Updated(S, (S \ P) \cup MarkDeleted(P))
<1> DEFINE T == (S \ P) \cup MarkDeleted(P)
<1>1. \A x \in S : /\ [x EXCEPT !.live = FALSE] \in Rows
                   /\ [x EXCEPT !.live = FALSE].alias = x.alias
                   /\ [x EXCEPT !.live = FALSE].version = x.version
                   /\ [x EXCEPT !.live = FALSE].writer = x.writer
                   /\ [x EXCEPT !.live = FALSE].prev = x.prev
                   /\ [x EXCEPT !.live = FALSE].live = FALSE
  BY DEF Rows
<1>2. T \subseteq Rows
  BY <1>1 DEF MarkDeleted
<1>3. \A y \in T : \E x \in S :
        /\ y.alias = x.alias /\ y.version = x.version
        /\ y.writer = x.writer /\ y.prev = x.prev
        /\ y.live => x.live
        /\ y = IF x \in P THEN [x EXCEPT !.live = FALSE] ELSE x
  BY <1>1 DEF MarkDeleted
<1>4. \A x \in S : \E y \in T :
        /\ y.alias = x.alias /\ y.version = x.version
        /\ y.writer = x.writer /\ y.prev = x.prev
  BY <1>1 DEF MarkDeleted
<1>5. UniqueIds(T)
  <2> HIDE DEF T
  <2> SUFFICES ASSUME NEW y \in T, NEW z \in T,
                      y.alias = z.alias, y.writer = z.writer
               PROVE  y = z
    BY DEF UniqueIds
  <2>1. PICK x \in S : /\ y.alias = x.alias /\ y.writer = x.writer
                       /\ y = IF x \in P THEN [x EXCEPT !.live = FALSE] ELSE x
    BY <1>3
  <2>2. PICK w \in S : /\ z.alias = w.alias /\ z.writer = w.writer
                       /\ z = IF w \in P THEN [w EXCEPT !.live = FALSE] ELSE w
    BY <1>3
  <2>3. x = w
    BY <2>1, <2>2 DEF TableOK, UniqueIds
  <2> QED
    BY <2>1, <2>2, <2>3
<1> QED
  BY <1>2, <1>3, <1>4, <1>5 DEF Updated

\* Setting the rotation policy of some rows is an update.
LEMMA PolicyUpdates ==
  ASSUME NEW S, S \subseteq Rows, TableOK(S), NEW P \in SUBSET S,
         NEW d \in Intervals
  PROVE  Updated(S, (S \ P) \cup SetPolicy(P, d))
<1> DEFINE Set(x) == [x EXCEPT !.interval = d, !.next = d]
           T == (S \ P) \cup {Set(x) : x \in P}
<1>1. \A x \in S : /\ Set(x) \in Rows
                   /\ Set(x).alias = x.alias /\ Set(x).version = x.version
                   /\ Set(x).writer = x.writer /\ Set(x).prev = x.prev
                   /\ Set(x).live = x.live
  BY DEF Rows
<1> HIDE DEF Set
<1>2. T \subseteq Rows
  BY <1>1
<1>3. \A y \in T : \E x \in S :
        /\ y.alias = x.alias /\ y.version = x.version
        /\ y.writer = x.writer /\ y.prev = x.prev
        /\ y.live => x.live
        /\ y = IF x \in P THEN Set(x) ELSE x
  BY <1>1
<1>4. \A x \in S : \E y \in T :
        /\ y.alias = x.alias /\ y.version = x.version
        /\ y.writer = x.writer /\ y.prev = x.prev
  BY <1>1
<1>5. UniqueIds(T)
  <2> HIDE DEF T
  <2> SUFFICES ASSUME NEW y \in T, NEW z \in T,
                      y.alias = z.alias, y.writer = z.writer
               PROVE  y = z
    BY DEF UniqueIds
  <2>1. PICK x \in S : /\ y.alias = x.alias /\ y.writer = x.writer
                       /\ y = IF x \in P THEN Set(x) ELSE x
    BY <1>3
  <2>2. PICK w \in S : /\ z.alias = w.alias /\ z.writer = w.writer
                       /\ z = IF w \in P THEN Set(w) ELSE w
    BY <1>3
  <2>3. x = w
    BY <2>1, <2>2 DEF TableOK, UniqueIds
  <2> QED
    BY <2>1, <2>2, <2>3
<1>6. Updated(S, T)
  BY <1>2, <1>3, <1>4, <1>5 DEF Updated
<1> QED
  BY <1>6 DEF Set, SetPolicy

\* Inserting the version after the last one, when no version is live, keeps the
\* table's shape.
LEMMA InsertNext ==
  ASSUME NEW T, T \subseteq Rows, TableOK(T),
         NEW old \in Rows, NEW r \in Requests,
         \A y \in T : y.writer # r,
         \E y \in T : /\ y.alias = old.alias /\ y.version = old.version
                      /\ y.writer = old.writer,
         \A y \in T : y.alias = old.alias
                        => y.version <= old.version /\ ~y.live
  PROVE  /\ T \cup {NextVersion(old, r)} \subseteq Rows
         /\ TableOK(T \cup {NextVersion(old, r)})
<1> DEFINE n == NextVersion(old, r)
<1>1. /\ n \in Rows /\ n.alias = old.alias /\ n.version = old.version + 1
      /\ n.writer = r /\ n.prev = old.writer
      /\ old.version \in Nat /\ old.version > 0 /\ old.writer \in Requests
  BY DEF NextVersion, Rows
<1>2. \A y \in T : y.version \in Nat
  BY DEF Rows
<1> HIDE DEF n
<1>3. UniqueIds(T \cup {n})
  BY <1>1 DEF TableOK, UniqueIds
<1>4. UniqueVersions(T \cup {n})
  <2>1. \A y \in T : y.alias = n.alias => y.version # n.version
    BY <1>1, <1>2
  <2> QED
    BY <2>1 DEF TableOK, UniqueVersions
<1>5. NoGap(T \cup {n})
  <2> SUFFICES ASSUME NEW x \in T \cup {n}, NEW v \in 1..x.version
               PROVE  \E y \in T \cup {n} : y.alias = x.alias /\ y.version = v
    BY DEF NoGap
  <2>1. CASE x \in T
    <3>1. \E y \in T : y.alias = x.alias /\ y.version = v
      BY <2>1 DEF TableOK, NoGap
    <3> QED
      BY <3>1
  <2>2. CASE x = n /\ v = n.version
    BY <2>2
  <2>3. CASE x = n /\ v # n.version
    <3>1. v \in 1..old.version
      BY <2>3, <1>1
    <3>2. \E y \in T : y.alias = old.alias /\ y.version = v
      BY <3>1 DEF TableOK, NoGap
    <3> QED
      BY <2>3, <3>2, <1>1
  <2> QED
    BY <2>1, <2>2, <2>3
<1>6. OldDeleted(T \cup {n})
  <2> SUFFICES ASSUME NEW x \in T \cup {n}, NEW y \in T \cup {n},
                      x.alias = y.alias, x.version < y.version
               PROVE  ~x.live
    BY DEF OldDeleted
  <2>1. CASE x \in T /\ y \in T
    BY <2>1 DEF TableOK, OldDeleted
  <2>2. CASE x \in T /\ y = n
    BY <2>2, <1>1
  <2>3. CASE x = n
    <3>1. y \in T => y.version <= old.version
      BY <2>3, <1>1
    <3> QED
      BY <2>3, <3>1, <1>1, <1>2
  <2> QED
    BY <2>1, <2>2, <2>3
<1>7. Linked(T \cup {n})
  <2> SUFFICES ASSUME NEW x \in T \cup {n}
               PROVE  /\ x.version = 1 <=> x.prev = Null
                      /\ x.version > 1 => \E y \in T \cup {n} :
                           /\ y.alias = x.alias
                           /\ y.version = x.version - 1
                           /\ y.writer = x.prev
    BY DEF Linked
  <2>1. CASE x \in T
    BY <2>1 DEF TableOK, Linked
  <2>2. CASE x = n
    <3>1. n.version - 1 = old.version /\ n.version # 1 /\ n.prev # Null
      BY <1>1, RequestAssumption
    <3> QED
      BY <2>2, <3>1, <1>1
  <2> QED
    BY <2>1, <2>2
<1>8. T \cup {n} \subseteq Rows
  BY <1>1
<1>9. TableOK(T \cup {n})
  BY <1>3, <1>4, <1>5, <1>6, <1>7 DEF TableOK
<1> QED
  BY <1>8, <1>9 DEF n

\* The transaction of a rotate keeps the table's shape: without a row of the
\* next version, the row that was read is the last of its alias (NoGap), so it
\* is the only one that may be live, and it is marked deleted.
LEMMA RotateKeepsTable ==
  ASSUME NEW S, S \subseteq Rows, TableOK(S),
         NEW old \in Rows, NEW r \in Requests,
         \A x \in S : x.writer # r,
         \E x \in S : SameId(x, old) /\ x.version = old.version,
         ~ \E x \in S : x.alias = old.alias /\ x.version = old.version + 1
  PROVE  LET P == {x \in S : SameId(x, old)}
             U == (S \ P) \cup MarkDeleted(P) \cup {NextVersion(old, r)}
         IN  U \subseteq Rows /\ TableOK(U)
<1> DEFINE P == {x \in S : SameId(x, old)}
           T == (S \ P) \cup MarkDeleted(P)
<1>1. Updated(S, T) /\ TableOK(T) /\ T \subseteq Rows
  <2>1. P \in SUBSET S
    OBVIOUS
  <2> HIDE DEF P
  <2>2. Updated(S, T)
    BY <2>1, MarkDeletedUpdates
  <2> QED
    BY <2>2, UpdateKeepsTable DEF Updated
<1>2. \A x \in S : x.alias = old.alias => x.version <= old.version
  <2> SUFFICES ASSUME NEW x \in S, x.alias = old.alias,
                      ~(x.version <= old.version)
               PROVE  FALSE
    OBVIOUS
  <2>1. old.version + 1 \in 1..x.version
    BY DEF Rows
  <2> QED
    BY <2>1 DEF TableOK, NoGap
<1>3. PICK p \in S : SameId(p, old) /\ p.version = old.version
  OBVIOUS
<1>4. P = {p}
  BY <1>3 DEF TableOK, UniqueIds, SameId
<1>5. /\ [p EXCEPT !.live = FALSE] \in T
      /\ [p EXCEPT !.live = FALSE].alias = old.alias
      /\ [p EXCEPT !.live = FALSE].version = old.version
      /\ [p EXCEPT !.live = FALSE].live = FALSE
  BY <1>3, <1>4 DEF SameId, Rows, MarkDeleted
<1> HIDE DEF P, T
<1>6. \E y \in T : /\ y.alias = old.alias /\ y.version = old.version
                   /\ y.writer = old.writer
  BY <1>1, <1>3 DEF Updated, SameId
<1>7. \A y \in T : y.alias = old.alias => y.version <= old.version
  BY <1>1, <1>2 DEF Updated
<1>8. \A y \in T : y.alias = old.alias => ~y.live
  <2> SUFFICES ASSUME NEW y \in T, y.alias = old.alias PROVE ~y.live
    OBVIOUS
  <2>1. CASE y.version < old.version
    BY <2>1, <1>1, <1>6 DEF TableOK, OldDeleted
  <2>2. CASE y.version = old.version
    BY <2>2, <1>1, <1>5 DEF TableOK, UniqueVersions
  <2>3. y.version \in Nat /\ old.version \in Nat /\ y.version <= old.version
    BY <1>1, <1>7 DEF Rows
  <2> QED
    BY <2>1, <2>2, <2>3
<1>9. \A y \in T : y.writer # r
  BY <1>1 DEF Updated
<1>10. /\ T \cup {NextVersion(old, r)} \subseteq Rows
       /\ TableOK(T \cup {NextVersion(old, r)})
  BY <1>1, <1>6, <1>7, <1>8, <1>9, InsertNext
<1> QED
  BY <1>10 DEF P, T

----------------------------------------------------------------------------
(* The inductive invariant *)

\* The four parts of the invariant hold in the initial state.
LEMMA InitIInv == Init => IInv
<1> SUFFICES ASSUME Init PROVE IInv
  OBVIOUS
<1>1. TypeOK
  <2>1. restarts \in 0..MaxRestarts
    BY RestartAssumption DEF Init
  <2>2. reply \in [Requests -> Replies] /\ op \in [Requests -> Ops]
    BY DEF Init, Replies, Ops
  <2>3. secrets \subseteq Rows /\ audit \subseteq Events
    BY DEF Init
  <2> QED
    BY <2>1, <2>2, <2>3 DEF Init, TypeOK
<1>2. TableOK(secrets)
  BY DEF Init, TableOK, UniqueIds, UniqueVersions, NoGap, OldDeleted, Linked
<1>3. NotYetWritten /\ SnapInTable
  BY DEF Init, NotYetWritten, SnapInTable
<1> QED
  BY <1>1, <1>2, <1>3 DEF IInv

\* A step that leaves the table alone keeps what is said of it and of the rows
\* that requests have written.
LEMMA TableUntouched ==
  ASSUME TableOK(secrets), NotYetWritten, UNCHANGED secrets,
         \A r \in Requests :
           pc'[r] \in {"idle", "start", "dek", "write"}
             => pc[r] \in {"idle", "start", "dek", "write"}
  PROVE  TableOK(secrets)' /\ NotYetWritten'
<1>1. TableOK(secrets)'
  BY DEF TableOK, UniqueIds, UniqueVersions, NoGap, OldDeleted, Linked
<1>2. NotYetWritten'
  BY DEF NotYetWritten
<1> QED
  BY <1>1, <1>2

\* Fetching a row puts a row of the table in the local variable.
LEMMA FetchKeepsIInv ==
  ASSUME IInv, NEW r \in Requests, NEW label \in {"dek", "write"},
         pc[r] = "start", FetchNewest(r, label),
         UNCHANGED <<secrets, projectDeleted, audit, restarts,
                     op, target, todo, before>>
  PROVE  IInv'
<1> USE DEF FetchNewest, Answer, Goto
<1>1. TypeOK'
  BY DEF IInv, TypeOK, Replies
<1>2. TableOK(secrets)' /\ NotYetWritten'
  BY TableUntouched DEF IInv, TypeOK
<1>3. SnapInTable'
  <2> SUFFICES ASSUME NEW q \in Requests,
                      pc'[q] \in {"dek", "write", "audit"},
                      op[q] \in {"read", "rotate", "policy"}
               PROVE  /\ snap'[q] \in Rows
                      /\ \E x \in secrets : /\ SameId(x, snap'[q])
                                            /\ x.version = snap'[q].version
    BY DEF SnapInTable
  <2>1. CASE q = r
    <3>1. pc'[r] = label
      BY <2>1 DEF IInv, TypeOK
    <3>2. PICK x \in secrets : snap' = [snap EXCEPT ![r] = x]
      BY <3>1, <2>1 DEF IInv, TypeOK
    <3> QED
      BY <3>2, <2>1 DEF IInv, TypeOK, SameId
  <2>2. CASE q # r
    BY <2>2 DEF IInv, TypeOK, SnapInTable
  <2> QED
    BY <2>1, <2>2
<1> QED
  BY <1>1, <1>2, <1>3 DEF IInv

\* Version 1 is inserted for all the targets of r, and r owes their events.
LEMMA InsertKeepsIInv ==
  ASSUME IInv, NEW r \in Requests, pc[r] = "write",
         op[r] \in {"create", "batch"},
         ~ \E a \in target[r] : Conflict(a, 1),
         secrets' = secrets \cup {FirstVersion(a, r) : a \in target[r]},
         OweAudit(r, target[r]),
         UNCHANGED <<projectDeleted, audit, restarts, op, target, snap, before>>
  PROVE  IInv'
<1> USE DEF OweAudit, Goto
<1>1. secrets' \subseteq Rows /\ TableOK(secrets')
  <2> DEFINE U == secrets \cup {FirstVersion(a, r) : a \in target[r]}
  <2>1. target[r] \in SUBSET Aliases /\ secrets \subseteq Rows
    BY DEF IInv, TypeOK
  <2>2. \A x \in secrets : x.writer # r
    BY DEF IInv, NotYetWritten
  <2>3. \A a \in target[r] :
          ~ \E x \in secrets : x.alias = a /\ x.version = 1
    BY DEF Conflict, RowsOf
  <2>4. U \subseteq Rows /\ TableOK(U)
    BY <2>1, <2>2, <2>3, InsertFirst DEF IInv
  <2>5. secrets' = U
    OBVIOUS
  <2> HIDE DEF U
  <2> QED
    BY <2>4, <2>5
<1>2. TypeOK'
  BY <1>1 DEF IInv, TypeOK
<1>3. NotYetWritten'
  <2>1. \A x \in secrets' : x \in secrets \/ x.writer = r
    BY DEF FirstVersion
  <2> QED
    BY <2>1 DEF IInv, TypeOK, NotYetWritten
<1>4. SnapInTable'
  BY DEF IInv, TypeOK, SnapInTable
<1> QED
  BY <1>1, <1>2, <1>3, <1>4 DEF IInv, TableOK, UniqueIds, UniqueVersions,
     NoGap, OldDeleted, Linked

\* An update of the table by a request that goes on to its audit event
LEMMA UpdateKeepsIInv ==
  ASSUME IInv, NEW r \in Requests, pc[r] \in {"start", "write"},
         op[r] \in {"delete", "policy"},
         op[r] = "policy" => pc[r] = "write",
         Updated(secrets, secrets'),
         OweAudit(r, target[r]),
         UNCHANGED <<projectDeleted, audit, restarts, op, target, snap, before>>
  PROVE  IInv'
<1> USE DEF OweAudit, Goto
<1>1. secrets' \subseteq Rows /\ TableOK(secrets')
  BY UpdateKeepsTable DEF IInv, TypeOK, Updated
<1>2. TypeOK'
  BY <1>1 DEF IInv, TypeOK
<1>3. NotYetWritten'
  BY DEF IInv, TypeOK, NotYetWritten, Updated
<1>4. SnapInTable'
  BY DEF IInv, TypeOK, SnapInTable, SameId, Updated
<1> QED
  BY <1>1, <1>2, <1>3, <1>4 DEF IInv, TableOK, UniqueIds, UniqueVersions,
     NoGap, OldDeleted, Linked

\* What a request may do in a step that touches neither the table nor the row
\* it holds: wait, return, or go on towards its commit or its audit event
Proceeds(r) ==
  \/ pc'[r] = pc[r]
  \/ pc'[r] = "done"
  \/ pc[r] = "dek" /\ pc'[r] \in {"write", "audit"}
  \/ pc[r] = "start" /\ pc'[r] = "write" /\ op[r] \in {"create", "batch"}
  \/ pc[r] = "start" /\ pc'[r] = "rows"

\* Such a step keeps the invariant.
LEMMA ControlKeepsIInv ==
  ASSUME IInv, TypeOK', UNCHANGED <<secrets, op, snap>>,
         \A r \in Requests : Proceeds(r)
  PROVE  IInv'
<1>1. TableOK(secrets)' /\ NotYetWritten'
  BY TableUntouched DEF IInv, Proceeds
<1>2. SnapInTable'
  BY DEF IInv, SnapInTable, Proceeds
<1> QED
  BY <1>1, <1>2 DEF IInv

\* A listing answers with a row of the table or with none.
LEMMA ListingKeepsIInv ==
  ASSUME IInv, NEW r \in Requests, op[r] \in Listings,
         NEW rows \in SUBSET secrets, AnswerOneOf(r, rows)
  PROVE  IInv'
<1> USE DEF AnswerOneOf, Answer
<1>1. snap' \in [Requests -> Rows \cup {Null}]
  BY DEF IInv, TypeOK
<1>2. TypeOK'
  BY <1>1 DEF IInv, TypeOK, Replies
<1>3. TableOK(secrets)' /\ NotYetWritten'
  BY TableUntouched DEF IInv, TypeOK
<1>4. \A q \in Requests : q # r => snap'[q] = snap[q] /\ pc'[q] = pc[q]
  BY DEF IInv, TypeOK
<1>5. SnapInTable'
  BY <1>4 DEF IInv, TypeOK, SnapInTable, Listings
<1> QED
  BY <1>2, <1>3, <1>5 DEF IInv

\* The invariant is preserved by every step.
LEMMA NextKeepsIInv == IInv /\ [Next]_vars => IInv'
<1> SUFFICES ASSUME IInv, [Next]_vars PROVE IInv'
  OBVIOUS
<1>1. ASSUME NEW r \in Requests, Arrive(r) PROVE IInv'
  <2> USE <1>1 DEF Arrive, Goto
  <2>1. TypeOK'
    <3>1. PICK o \in Ops, A \in SUBSET Aliases :
            /\ op' = [op EXCEPT ![r] = o]
            /\ target' = [target EXCEPT ![r] = A]
            /\ before' = [before EXCEPT ![r] =
                            {x.version : x \in {y \in secrets : y.alias \in A}}]
      OBVIOUS
    <3>2. {x.version : x \in {y \in secrets : y.alias \in A}} \in SUBSET Nat
      BY DEF IInv, TypeOK, Rows
    <3> QED
      BY <3>1, <3>2 DEF IInv, TypeOK
  <2>2. TableOK(secrets)' /\ NotYetWritten'
    BY TableUntouched DEF IInv, TypeOK
  <2>3. SnapInTable'
    BY DEF IInv, TypeOK, SnapInTable
  <2> QED
    BY <2>1, <2>2, <2>3 DEF IInv
<1>2. ASSUME NEW r \in Requests, CreateCheck(r) \/ BatchCheck(r) PROVE IInv'
  <2> USE <1>2 DEF CreateCheck, BatchCheck, Answer, Goto
  <2>1. TypeOK'
    BY DEF IInv, TypeOK, Replies
  <2>9. UNCHANGED <<secrets, op, snap>> /\ \A q \in Requests : Proceeds(q)
    BY DEF Proceeds, IInv, TypeOK
  <2> QED
    BY <2>1, <2>9, ControlKeepsIInv
<1>3. ASSUME NEW r \in Requests, CreateInsert(r) \/ BatchInsert(r) PROVE IInv'
  <2> USE <1>3 DEF CreateInsert, BatchInsert
  <2>1. CASE \E a \in target[r] : Conflict(a, 1)
    <3>1. TypeOK'
      BY <2>1 DEF Answer, IInv, TypeOK, Replies
    <3>9. UNCHANGED <<secrets, op, snap>> /\ \A q \in Requests : Proceeds(q)
      BY <2>1 DEF Proceeds, Answer, IInv, TypeOK
    <3> QED
      BY <3>1, <3>9, ControlKeepsIInv
  <2>2. CASE ~ \E a \in target[r] : Conflict(a, 1)
    BY <2>2, InsertKeepsIInv
  <2> QED
    BY <2>1, <2>2
<1>4. ASSUME NEW r \in Requests, ReadRow(r) \/ RotateRead(r) \/ PolicyRead(r)
      PROVE  IInv'
  BY <1>4, FetchKeepsIInv DEF ReadRow, RotateRead, PolicyRead
<1>5. ASSUME NEW r \in Requests, LoadDek(r) PROVE IInv'
  <2> USE <1>5 DEF LoadDek, Answer, Goto, OweAudit
  <2>1. TypeOK'
    BY DEF IInv, TypeOK, Replies
  <2>9. UNCHANGED <<secrets, op, snap>> /\ \A q \in Requests : Proceeds(q)
    BY DEF Proceeds, IInv, TypeOK
  <2> QED
    BY <2>1, <2>9, ControlKeepsIInv
<1>6. ASSUME NEW r \in Requests, RotateCommit(r) PROVE IInv'
  <2> USE <1>6 DEF RotateCommit
  <2>1. CASE Conflict(snap[r].alias, snap[r].version + 1)
    <3>1. TypeOK'
      BY <2>1 DEF Answer, IInv, TypeOK, Replies
    <3>9. UNCHANGED <<secrets, op, snap>> /\ \A q \in Requests : Proceeds(q)
      BY <2>1 DEF Proceeds, Answer, IInv, TypeOK
    <3> QED
      BY <3>1, <3>9, ControlKeepsIInv
  <2>2. CASE ~ Conflict(snap[r].alias, snap[r].version + 1)
    <3> DEFINE P == {x \in secrets : SameId(x, snap[r])}
               U == (secrets \ P) \cup MarkDeleted(P)
                      \cup {NextVersion(snap[r], r)}
    <3>1. secrets' = U /\ OweAudit(r, target[r])
      BY <2>2
    <3>2. /\ snap[r] \in Rows
          /\ \E x \in secrets : SameId(x, snap[r]) /\ x.version = snap[r].version
      BY DEF IInv, SnapInTable
    <3>3. \A x \in secrets : x.writer # r
      BY DEF IInv, NotYetWritten
    <3>4. ~ \E x \in secrets :
            x.alias = snap[r].alias /\ x.version = snap[r].version + 1
      BY <2>2 DEF Conflict, RowsOf
    <3>5. U \subseteq Rows /\ TableOK(U)
      BY <3>2, <3>3, <3>4, RotateKeepsTable DEF IInv, TypeOK
    <3>6. \A x \in U : x.writer = r \/ \E y \in secrets : x.writer = y.writer
      BY DEF MarkDeleted, NextVersion, IInv, TypeOK, Rows
    <3>7. \A y \in secrets : \E x \in U : SameId(x, y) /\ x.version = y.version
      <4> SUFFICES ASSUME NEW y \in secrets
                   PROVE  \E x \in U : SameId(x, y) /\ x.version = y.version
        OBVIOUS
      <4>1. CASE y \in P
        <5>1. [y EXCEPT !.live = FALSE] \in U
          BY <4>1 DEF MarkDeleted
        <5>2. /\ SameId([y EXCEPT !.live = FALSE], y)
              /\ [y EXCEPT !.live = FALSE].version = y.version
          BY DEF SameId, IInv, TypeOK, Rows
        <5> QED
          BY <5>1, <5>2
      <4>2. CASE y \notin P
        BY <4>2 DEF SameId
      <4> QED
        BY <4>1, <4>2
    <3> HIDE DEF U
    <3>8. TypeOK'
      BY <3>1, <3>5 DEF OweAudit, Goto, IInv, TypeOK
    <3>9. NotYetWritten'
      BY <3>1, <3>6 DEF OweAudit, Goto, IInv, TypeOK, NotYetWritten
    <3>10. SnapInTable'
      BY <3>1, <3>7 DEF OweAudit, Goto, IInv, TypeOK, SnapInTable, SameId
    <3>11. TableOK(secrets)'
      BY <3>1, <3>5 DEF TableOK, UniqueIds, UniqueVersions, NoGap,
                        OldDeleted, Linked
    <3> QED
      BY <3>8, <3>9, <3>10, <3>11 DEF IInv
  <2> QED
    BY <2>1, <2>2
<1>7. ASSUME NEW r \in Requests, DeleteRows(r) PROVE IInv'
  <2> USE <1>7 DEF DeleteRows
  <2> DEFINE gone == {x \in secrets : x.alias \in target[r] /\ x.live}
  <2>1. CASE ~ProjectAndEnvFound(r) \/ gone = {}
    <3>1. TypeOK'
      BY <2>1 DEF Answer, IInv, TypeOK, Replies
    <3>9. UNCHANGED <<secrets, op, snap>> /\ \A q \in Requests : Proceeds(q)
      BY <2>1 DEF Proceeds, Answer, IInv, TypeOK
    <3> QED
      BY <3>1, <3>9, ControlKeepsIInv
  <2>2. CASE ~(~ProjectAndEnvFound(r) \/ gone = {})
    <3>1. secrets' = (secrets \ gone) \cup MarkDeleted(gone)
      BY <2>2
    <3>2. gone \in SUBSET secrets
      OBVIOUS
    <3>3. OweAudit(r, target[r])
      BY <2>2
    <3> HIDE DEF gone
    <3>4. Updated(secrets, secrets')
      BY <3>1, <3>2, MarkDeletedUpdates DEF IInv, TypeOK
    <3> QED
      BY <3>3, <3>4, UpdateKeepsIInv
  <2> QED
    BY <2>1, <2>2
<1>8. ASSUME NEW r \in Requests, PolicyUpdate(r) PROVE IInv'
  <2> USE <1>8 DEF PolicyUpdate
  <2>1. CASE Answer(r, "internal_error") /\ UNCHANGED <<secrets, todo>>
    <3>1. TypeOK'
      BY <2>1 DEF Answer, IInv, TypeOK, Replies
    <3>9. UNCHANGED <<secrets, op, snap>> /\ \A q \in Requests : Proceeds(q)
      BY <2>1 DEF Proceeds, Answer, IInv, TypeOK
    <3> QED
      BY <3>1, <3>9, ControlKeepsIInv
  <2>2. CASE ~(Answer(r, "internal_error") /\ UNCHANGED <<secrets, todo>>)
    <3> DEFINE row == {x \in secrets : SameId(x, snap[r])}
    <3>1. PICK d \in Intervals :
            /\ secrets' = (secrets \ row) \cup SetPolicy(row, d)
            /\ OweAudit(r, target[r])
      BY <2>2
    <3>2. row \in SUBSET secrets
      OBVIOUS
    <3> HIDE DEF row
    <3>3. Updated(secrets, secrets')
      BY <3>1, <3>2, PolicyUpdates DEF IInv, TypeOK
    <3> QED
      BY <3>1, <3>3, UpdateKeepsIInv
  <2> QED
    BY <2>1, <2>2
<1>9. ASSUME NEW r \in Requests, Audit(r) PROVE IInv'
  <2> USE <1>9 DEF Audit
  <2>1. PICK a \in todo[r] :
          /\ audit' = audit \cup {EventOf(r, a)}
          /\ todo' = [todo EXCEPT ![r] = @ \ {a}]
          /\ IF todo[r] = {a} THEN Answer(r, "ok") ELSE Goto(r, "audit")
    OBVIOUS
  <2>2. EventOf(r, a) \in Events
    <3>1. ReportedVersion(r) \in Nat
      BY DEF ReportedVersion, IInv, TypeOK, SnapInTable, Rows, Ops
    <3> QED
      BY <3>1 DEF EventOf, Events, IInv, TypeOK
  <2>3. TypeOK'
    BY <2>1, <2>2 DEF Answer, Goto, IInv, TypeOK, Replies
  <2>9. UNCHANGED <<secrets, op, snap>> /\ \A q \in Requests : Proceeds(q)
    BY <2>1 DEF Proceeds, Answer, Goto, IInv, TypeOK
  <2> QED
    BY <2>3, <2>9, ControlKeepsIInv
<1>16. ASSUME NEW r \in Requests, AuditFails(r) PROVE IInv'
  <2> USE <1>16 DEF AuditFails
  <2>1. TypeOK'
    BY DEF Answer, IInv, TypeOK, Replies
  <2>2. UNCHANGED <<secrets, op, snap>> /\ \A q \in Requests : Proceeds(q)
    BY DEF Proceeds, Answer, IInv, TypeOK
  <2> QED
    BY <2>1, <2>2, ControlKeepsIInv
<1>10. CASE DeleteProject
  <2>1. TypeOK'
    BY <1>10 DEF DeleteProject, request, IInv, TypeOK
  <2>9. UNCHANGED <<secrets, op, snap>> /\ \A q \in Requests : Proceeds(q)
    BY <1>10 DEF Proceeds, DeleteProject, request, IInv, TypeOK
  <2> QED
    BY <2>1, <2>9, ControlKeepsIInv
<1>11. CASE Restart
  <2>1. TypeOK'
    BY <1>11, RestartAssumption DEF Restart, IInv, TypeOK, Replies
  <2>9. UNCHANGED <<secrets, op, snap>> /\ \A q \in Requests : Proceeds(q)
    BY <1>11 DEF Proceeds, Restart, IInv, TypeOK
  <2> QED
    BY <2>1, <2>9, ControlKeepsIInv
<1>12. CASE UNCHANGED vars
  <2>1. TypeOK'
    BY <1>12 DEF vars, IInv, TypeOK
  <2>9. UNCHANGED <<secrets, op, snap>> /\ \A q \in Requests : Proceeds(q)
    BY <1>12 DEF Proceeds, vars, IInv, TypeOK
  <2> QED
    BY <2>1, <2>9, ControlKeepsIInv
<1>13. ASSUME NEW r \in Requests, ListProject(r) PROVE IInv'
  <2> USE <1>13 DEF ListProject, Answer, Goto
  <2>1. TypeOK'
    BY DEF IInv, TypeOK, Replies
  <2>9. UNCHANGED <<secrets, op, snap>> /\ \A q \in Requests : Proceeds(q)
    BY DEF Proceeds, IInv, TypeOK
  <2> QED
    BY <2>1, <2>9, ControlKeepsIInv
<1>14. ASSUME NEW r \in Requests, ListNames(r) PROVE IInv'
  <2> DEFINE rows == {x \in secrets : \E a \in target[r] : IsNewestLive(x, a)}
  <2>1. rows \in SUBSET secrets /\ op[r] \in Listings /\ AnswerOneOf(r, rows)
    BY <1>14 DEF ListNames, Listings
  <2> HIDE DEF rows
  <2> QED
    BY <2>1, ListingKeepsIInv
<1>15. ASSUME NEW r \in Requests, ListRotations(r) PROVE IInv'
  <2> DEFINE rows == {x \in secrets : /\ x.alias \in target[r]
                                      /\ x.live /\ x.next # Null}
  <2>1. rows \in SUBSET secrets /\ op[r] \in Listings /\ AnswerOneOf(r, rows)
    BY <1>15 DEF ListRotations, Listings
  <2> HIDE DEF rows
  <2> QED
    BY <2>1, ListingKeepsIInv
<1> QED
  BY <1>1, <1>2, <1>3, <1>4, <1>5, <1>6, <1>7, <1>8, <1>9, <1>10, <1>11, <1>12,
     <1>13, <1>14, <1>15, <1>16
     DEF Next, Serve

----------------------------------------------------------------------------
(* The theorems *)

\* The inductive invariant holds in every reachable state.
LEMMA Invariance == Spec => []IInv
  BY InitIInv, NextKeepsIInv, PTL DEF Spec

\* Every variable keeps its type: in particular the row a handler holds is a
\* row of the table's type, and a version is never 0.
THEOREM TypeCorrect == Spec => []TypeOK
<1>1. IInv => TypeOK
  BY DEF IInv
<1> QED
  BY <1>1, Invariance, PTL

\* Whatever creates, rotates, deletes and crashes overlap, at most one version
\* of a secret resolves: the handlers of secrets.ts take no lock and re-read
\* nothing, and the UNIQUE constraint is enough.
THEOREM OneLive == Spec => []OneLiveVersion
<1>1. IInv => OneLiveVersion
  <2> SUFFICES ASSUME IInv, NEW x \in secrets, NEW y \in secrets,
                      x.alias = y.alias, x.live, y.live
               PROVE  x = y
    BY DEF OneLiveVersion
  <2>1. x.version \in Nat /\ y.version \in Nat
    BY DEF IInv, TypeOK, Rows
  <2>2. ~(x.version < y.version) /\ ~(y.version < x.version)
    BY DEF IInv, TableOK, OldDeleted
  <2>3. x.version = y.version
    BY <2>1, <2>2
  <2> QED
    BY <2>3 DEF IInv, TableOK, UniqueVersions
<1> QED
  BY <1>1, Invariance, PTL

\* The versions of a secret are numbered without a duplicate, only the last may
\* be live, and each one names the version before it as its predecessor.
THEOREM Chain == Spec => []VersionChain
<1>1. IInv => VersionChain
  <2> SUFFICES ASSUME IInv, NEW x \in secrets
               PROVE  /\ \A y \in RowsOf(x.alias) :
                           /\ y.version = x.version => y = x
                           /\ y.version < x.version => ~y.live
                      /\ x.version = 1 <=> x.prev = Null
                      /\ x.version > 1 => \E y \in RowsOf(x.alias) :
                           y.version = x.version - 1 /\ y.writer = x.prev
    BY DEF VersionChain
  <2>1. \A y \in RowsOf(x.alias) :
          /\ y.version = x.version => y = x
          /\ y.version < x.version => ~y.live
    BY DEF RowsOf, IInv, TableOK, UniqueVersions, OldDeleted
  <2>2. x.version = 1 <=> x.prev = Null
    BY DEF IInv, TableOK, Linked
  <2>3. x.version > 1 => \E y \in RowsOf(x.alias) :
          y.version = x.version - 1 /\ y.writer = x.prev
    BY DEF RowsOf, IInv, TableOK, Linked
  <2> QED
    BY <2>1, <2>2, <2>3
<1> QED
  BY <1>1, Invariance, PTL

(***************************************************************************)
(* What the handlers promise, and the refinement                           *)
(***************************************************************************)

Writes == {"create", "batch", "rotate"}

\* How a request has come to its position
PositionOK(r) ==
  /\ reply[r] = "none" <=> pc[r] # "done"
  /\ pc[r] = "idle" => target[r] = {} /\ before[r] = {}
  /\ pc[r] \in {"idle", "start"} => snap[r] = Null
  /\ pc[r] # "idle" => target[r] # {}
  /\ pc[r] # "idle" /\ op[r] # "batch" => \E a \in Aliases : target[r] = {a}
  /\ pc[r] = "dek" => op[r] \in {"read", "rotate"}
  /\ pc[r] = "write" => op[r] \in Writes \cup {"policy"}
  /\ pc[r] = "rows" => op[r] \in Listings
  /\ pc[r] = "audit" => op[r] \notin Listings /\ todo[r] \subseteq target[r]
  /\ pc[r] \in {"dek", "write", "audit"} /\ op[r] \in {"read", "rotate", "policy"}
       => snap[r].alias \in target[r]

\* Whatever was committed when r arrived still is there.
BeforeOK(r) ==
  \A v \in before[r] : \E x \in secrets : x.alias \in target[r] /\ x.version = v

\* r has been told, or will be, that it has written.
Acknowledges(r) == op[r] \in Writes /\ (pc[r] = "audit" \/ reply[r] = "ok")

AcknowledgedOK(r) ==
  Acknowledges(r) => \A a \in target[r] : \E x \in RowsOf(a) :
                       x.writer = r /\ x.version = ReportedVersion(r)

\* What r holds or has answered is not older than what it found committed.
NotStale(r) ==
  /\ op[r] \in {"read", "rotate"}
       /\ (pc[r] \in {"dek", "write", "audit"} \/ reply[r] = "ok")
       => snap[r] \in Rows /\ \A v \in before[r] : v <= snap[r].version
  /\ op[r] \in Listings /\ snap[r] # Null
       => pc[r] = "done" /\ \A v \in before[r] : v <= snap[r].version

\* The events that r no longer owes are in the log.
EventsOK(r) ==
  pc[r] = "audit" \/ (reply[r] = "ok" /\ op[r] \notin Listings) =>
    \A a \in target[r] : \/ EventOf(r, a) \in audit
                         \/ pc[r] = "audit" /\ a \in todo[r]

\* The request ended before it had appended all of its events.
CutOff(r) == reply[r] \in {"lost", "internal_error"}

\* A row was written by a request for it, under the version that it reports,
\* and has its event unless the request still owes it.
RowsAudited ==
  \A x \in secrets :
    LET w == x.writer IN
    /\ op[w] \in Writes /\ pc[w] \in {"audit", "done"}
    /\ x.alias \in target[w] /\ x.version = ReportedVersion(w)
    /\ \/ EventOf(w, x.alias) \in audit
       \/ x.alias \in todo[w] /\ (pc[w] = "audit" \/ CutOff(w))

EventsBacked ==
  \A e \in audit : e.version > 0 => \E x \in RowsOf(e.alias) : x.version = e.version

Handlers == \A r \in Requests : /\ PositionOK(r) /\ BeforeOK(r) /\ AcknowledgedOK(r)
                                /\ NotStale(r) /\ EventsOK(r)

HInv == IInv /\ Handlers /\ RowsAudited /\ EventsBacked /\ BatchAllOrNothing

----------------------------------------------------------------------------
(* What a step does *)

\* A step of r leaves the variables of the others alone.
Frame(r) ==
  \A q \in Requests \ {r} :
    /\ pc'[q] = pc[q] /\ op'[q] = op[q] /\ target'[q] = target[q]
    /\ snap'[q] = snap[q] /\ todo'[q] = todo[q] /\ reply'[q] = reply[q]
    /\ before'[q] = before[q]

\* No handler breaks that.
LEMMA ServeFrame ==
  ASSUME TypeOK, NEW r \in Requests, Serve(r) PROVE Frame(r)
<1> USE DEF TypeOK, Frame, Answer, Goto, OweAudit
<1>1. CASE Arrive(r)
  BY <1>1 DEF Arrive
<1>2. CASE CreateCheck(r) \/ BatchCheck(r)
  BY <1>2 DEF CreateCheck, BatchCheck
<1>3. CASE CreateInsert(r) \/ BatchInsert(r)
  BY <1>3 DEF CreateInsert, BatchInsert
<1>4. CASE ReadRow(r) \/ RotateRead(r) \/ PolicyRead(r)
  BY <1>4 DEF ReadRow, RotateRead, PolicyRead, FetchNewest
<1>5. CASE RotateCommit(r)
  BY <1>5 DEF RotateCommit
<1>6. CASE PolicyUpdate(r) \/ DeleteRows(r)
  BY <1>6 DEF PolicyUpdate, DeleteRows
<1>7. CASE LoadDek(r) \/ ListProject(r)
  BY <1>7 DEF LoadDek, ListProject
<1>8. CASE ListNames(r) \/ ListRotations(r)
  BY <1>8 DEF ListNames, ListRotations, AnswerOneOf
<1>9. CASE Audit(r) \/ AuditFails(r)
  BY <1>9 DEF Audit, AuditFails
<1> QED
  BY <1>1, <1>2, <1>3, <1>4, <1>5, <1>6, <1>7, <1>8, <1>9 DEF Serve

\* The steps that change the table
Inserts(r) ==
  /\ pc[r] = "write" /\ op[r] \in {"create", "batch"}
  /\ ~ \E a \in target[r] : Conflict(a, 1)
  /\ secrets' = secrets \cup {FirstVersion(a, r) : a \in target[r]}

Rotates(r) ==
  /\ pc[r] = "write" /\ op[r] = "rotate"
  /\ ~Conflict(snap[r].alias, snap[r].version + 1)
  /\ LET old == {x \in secrets : SameId(x, snap[r])} IN
     secrets' = (secrets \ old) \cup MarkDeleted(old) \cup {NextVersion(snap[r], r)}

Deletes(r) ==
  /\ pc[r] = "start" /\ op[r] = "delete"
  /\ LET gone == {x \in secrets : x.alias \in target[r] /\ x.live} IN
     gone # {} /\ secrets' = (secrets \ gone) \cup MarkDeleted(gone)

SetsPolicy(r) ==
  /\ pc[r] = "write" /\ op[r] = "policy"
  /\ \E d \in Intervals :
       LET row == {x \in secrets : SameId(x, snap[r])} IN
       secrets' = (secrets \ row) \cup SetPolicy(row, d)

\* Each of them owes its events from then on, and every other step leaves the
\* table alone.
LEMMA TableSteps ==
  ASSUME NEW r \in Requests, Serve(r)
  PROVE  \/ UNCHANGED secrets
         \/ /\ Inserts(r) \/ Rotates(r) \/ Deletes(r) \/ SetsPolicy(r)
            /\ OweAudit(r, target[r])
            /\ UNCHANGED <<projectDeleted, audit, restarts, op, target, snap, before>>
<1>1. CASE CreateInsert(r) \/ BatchInsert(r)
  BY <1>1 DEF CreateInsert, BatchInsert, Inserts
<1>2. CASE RotateCommit(r)
  BY <1>2 DEF RotateCommit, Rotates
<1>3. CASE DeleteRows(r)
  BY <1>3 DEF DeleteRows, Deletes
<1>4. CASE PolicyUpdate(r)
  BY <1>4 DEF PolicyUpdate, SetsPolicy
<1> QED
  BY <1>1, <1>2, <1>3, <1>4
     DEF Serve, Arrive, CreateCheck, BatchCheck, ReadRow, RotateRead, PolicyRead,
         LoadDek, ListProject, ListNames, ListRotations, AnswerOneOf, Audit, AuditFails

\* A row of the table after a step is a row of before, perhaps updated, or it
\* has been written by a request that commits.
Kept(x) == \E y \in secrets' : SameId(y, x) /\ y.version = x.version

Commits(r) == Inserts(r) \/ Rotates(r)

RowStep(r) ==
  /\ \A x \in secrets : Kept(x)
  /\ \A y \in secrets' :
       \/ \E x \in secrets : SameId(y, x) /\ y.version = x.version
       \/ /\ Commits(r) /\ y.writer = r
          /\ y.alias \in target[r] /\ y.version = ReportedVersion(r)
  /\ Commits(r) => \A a \in target[r] : \E y \in secrets' :
                     y.alias = a /\ y.writer = r /\ y.version = ReportedVersion(r)

\* That is what the steps that change the table do to its rows.
LEMMA RowSteps ==
  ASSUME IInv, NEW r \in Requests, PositionOK(r),
         UNCHANGED <<op, snap, target>>,
         \/ Inserts(r) \/ Rotates(r) \/ Deletes(r) \/ SetsPolicy(r)
  PROVE  RowStep(r)
<1>1. CASE Inserts(r)
  <2> DEFINE N == {FirstVersion(a, r) : a \in target[r]}
  <2>1. secrets' = secrets \cup N /\ op[r] \in {"create", "batch"}
    BY <1>1 DEF Inserts
  <2>2. \A a \in target[r] : FirstVersion(a, r).alias = a
          /\ FirstVersion(a, r).writer = r /\ FirstVersion(a, r).version = 1
    BY DEF FirstVersion
  <2>3. ReportedVersion(r) = 1
    BY <2>1 DEF ReportedVersion
  <2>4. \A a \in target[r] : FirstVersion(a, r) \in N
    OBVIOUS
  <2>5. \A y \in N : y.writer = r /\ y.alias \in target[r] /\ y.version = 1
    BY <2>2
  <2> HIDE DEF N
  <2>6. \A x \in secrets : Kept(x)
    BY <2>1 DEF Kept, SameId
  <2>7. \A a \in target[r] : \E y \in secrets' :
          y.alias = a /\ y.writer = r /\ y.version = ReportedVersion(r)
    BY <2>1, <2>2, <2>3, <2>4
  <2> QED
    BY <1>1, <2>1, <2>3, <2>5, <2>6, <2>7 DEF RowStep, Commits, SameId
<1>2. CASE Rotates(r)
  <2> DEFINE old == {x \in secrets : SameId(x, snap[r])}
             T == (secrets \ old) \cup MarkDeleted(old)
             n == NextVersion(snap[r], r)
  <2>1. secrets' = T \cup {n} /\ op[r] = "rotate" /\ pc[r] = "write"
    BY <1>2 DEF Rotates
  <2>2. Updated(secrets, T)
    <3>1. old \in SUBSET secrets
      OBVIOUS
    <3> HIDE DEF old
    <3> QED
      BY <3>1, MarkDeletedUpdates DEF IInv, TypeOK
  <2>3. ReportedVersion(r) = snap[r].version + 1
    BY <2>1 DEF ReportedVersion
  <2>4. n.alias = snap[r].alias /\ n.writer = r /\ n.version = snap[r].version + 1
    BY DEF NextVersion
  <2>5. target[r] = {snap[r].alias}
    BY <2>1 DEF PositionOK
  <2> HIDE DEF T, n
  <2>6. \A x \in secrets : Kept(x)
    BY <2>1, <2>2 DEF Kept, SameId, Updated
  <2>7. \A y \in T : \E x \in secrets : SameId(y, x) /\ y.version = x.version
    BY <2>2 DEF Updated, SameId
  <2>8. n \in secrets'
    BY <2>1
  <2> QED
    BY <1>2, <2>1, <2>3, <2>4, <2>5, <2>6, <2>7, <2>8 DEF RowStep, Commits
<1>3. CASE Deletes(r) \/ SetsPolicy(r)
  <2>1. Updated(secrets, secrets')
    <3>1. CASE Deletes(r)
      <4> DEFINE gone == {x \in secrets : x.alias \in target[r] /\ x.live}
      <4>1. gone \in SUBSET secrets /\ secrets' = (secrets \ gone) \cup MarkDeleted(gone)
        BY <3>1 DEF Deletes
      <4> HIDE DEF gone
      <4> QED
        BY <4>1, MarkDeletedUpdates DEF IInv, TypeOK
    <3>2. CASE SetsPolicy(r)
      <4> DEFINE row == {x \in secrets : SameId(x, snap[r])}
      <4>1. PICK d \in Intervals : secrets' = (secrets \ row) \cup SetPolicy(row, d)
        BY <3>2 DEF SetsPolicy
      <4>2. row \in SUBSET secrets
        OBVIOUS
      <4> HIDE DEF row
      <4> QED
        BY <4>1, <4>2, PolicyUpdates DEF IInv, TypeOK
    <3> QED
      BY <1>3, <3>1, <3>2
  <2>2. ~Commits(r)
    BY <1>3 DEF Deletes, SetsPolicy, Commits, Inserts, Rotates
  <2>3. \A x \in secrets : Kept(x)
    BY <2>1 DEF Updated, Kept, SameId
  <2>4. \A y \in secrets' : \E x \in secrets : SameId(y, x) /\ y.version = x.version
    BY <2>1 DEF Updated, SameId
  <2> QED
    BY <2>2, <2>3, <2>4 DEF RowStep
<1> QED
  BY <1>1, <1>2, <1>3

----------------------------------------------------------------------------
(* What a step does to the request that takes it *)

Keeps(r) ==
  /\ op'[r] = op[r] /\ target'[r] = target[r] /\ before'[r] = before[r]

Waits(r) == Keeps(r) /\ snap'[r] = snap[r] /\ UNCHANGED <<secrets, audit>>

Arrived(r) ==
  /\ pc[r] = "idle" /\ pc'[r] = "start" /\ reply'[r] = reply[r]
  /\ snap'[r] = snap[r] /\ UNCHANGED <<secrets, audit>>
  /\ target'[r] # {}
  /\ op'[r] # "batch" => \E a \in Aliases : target'[r] = {a}
  /\ before'[r] = {x.version : x \in {y \in secrets : y.alias \in target'[r]}}

Refused(r) ==
  /\ pc[r] \in {"start", "dek", "write", "audit"} /\ pc'[r] = "done"
  /\ reply'[r] \notin {"none", "ok", "lost"}
  /\ pc[r] = "audit" => reply'[r] = "internal_error"
  /\ Waits(r) /\ todo'[r] = todo[r]

GoesOn(r) ==
  /\ \/ pc[r] = "start" /\ pc'[r] = "write" /\ op[r] \in {"create", "batch"}
     \/ pc[r] = "start" /\ pc'[r] = "rows" /\ op[r] \in Listings
     \/ pc[r] = "dek" /\ pc'[r] = "write" /\ op[r] # "read"
  /\ reply'[r] = reply[r]
  /\ Waits(r) /\ todo'[r] = todo[r]

Fetched(r) ==
  /\ pc[r] = "start" /\ op[r] \in {"read", "rotate", "policy"}
  /\ pc'[r] = IF op[r] = "policy" THEN "write" ELSE "dek"
  /\ reply'[r] = reply[r] /\ Keeps(r) /\ todo'[r] = todo[r]
  /\ \E a \in target[r], x \in secrets : IsNewestLive(x, a) /\ snap'[r] = x
  /\ UNCHANGED <<secrets, audit>>

Owes(r) ==
  /\ pc'[r] = "audit" /\ todo'[r] = target[r]
  /\ reply'[r] = reply[r] /\ Keeps(r) /\ snap'[r] = snap[r] /\ UNCHANGED audit
  /\ \/ pc[r] = "dek" /\ op[r] = "read" /\ UNCHANGED secrets
     \/ /\ \/ pc[r] = "start" /\ op[r] = "delete"
           \/ pc[r] = "write" /\ op[r] = "policy"
        /\ RowStep(r) /\ ~Commits(r)
     \/ /\ pc[r] = "write" /\ op[r] \in Writes
        /\ RowStep(r) /\ Commits(r)

Listed(r) ==
  /\ pc[r] = "rows" /\ pc'[r] = "done" /\ reply'[r] = "ok"
  /\ op[r] \in Listings /\ Keeps(r) /\ todo'[r] = todo[r]
  /\ \/ snap'[r] = snap[r]
     \/ \E x \in secrets : x.alias \in target[r] /\ x.live /\ snap'[r] = x
  /\ UNCHANGED <<secrets, audit>>

Audited(r) ==
  /\ pc[r] = "audit" /\ Keeps(r) /\ snap'[r] = snap[r] /\ UNCHANGED secrets
  /\ \E a \in todo[r] :
       /\ audit' = audit \cup {EventOf(r, a)}
       /\ todo'[r] = todo[r] \ {a}
       /\ IF todo[r] = {a} THEN pc'[r] = "done" /\ reply'[r] = "ok"
                           ELSE pc'[r] = "audit" /\ reply'[r] = reply[r]

\* A step of a handler is one of these.
LEMMA ServeSteps ==
  ASSUME IInv, NEW r \in Requests, PositionOK(r), Serve(r)
  PROVE  \/ Arrived(r) \/ Refused(r) \/ GoesOn(r) \/ Fetched(r)
         \/ Owes(r) \/ Listed(r) \/ Audited(r)
<1> USE DEF Keeps, Waits, Answer, Goto
<1>0. TypeOK
  BY DEF IInv
<1>1. CASE Arrive(r)
  <2>1. Arrived(r)
    BY <1>0, <1>1 DEF Arrive, Arrived, TypeOK
  <2> QED
    BY <2>1
<1>2. CASE CreateCheck(r) \/ BatchCheck(r) \/ ListProject(r)
  <2>1. Refused(r) \/ GoesOn(r)
    BY <1>0, <1>2 DEF CreateCheck, BatchCheck, ListProject, Refused, GoesOn, TypeOK
  <2> QED
    BY <2>1
<1>3. CASE ReadRow(r) \/ RotateRead(r) \/ PolicyRead(r)
  <2>1. Refused(r) \/ Fetched(r)
    BY <1>0, <1>3 DEF ReadRow, RotateRead, PolicyRead, FetchNewest, Refused,
                      Fetched, TypeOK
  <2> QED
    BY <2>1
<1>4. CASE LoadDek(r)
  <2>1. Refused(r) \/ GoesOn(r) \/ Owes(r)
    BY <1>0, <1>4 DEF LoadDek, OweAudit, Refused, GoesOn, Owes, TypeOK
  <2> QED
    BY <2>1
<1>5. CASE ListNames(r) \/ ListRotations(r)
  <2>1. Listed(r)
    <3>1. CASE ListNames(r)
      <4> DEFINE rows == {x \in secrets : \E a \in target[r] : IsNewestLive(x, a)}
      <4>1. \A x \in rows : x \in secrets /\ x.alias \in target[r] /\ x.live
        BY DEF IsNewestLive, LiveRows, RowsOf
      <4>2. pc[r] = "rows" /\ op[r] \in Listings /\ AnswerOneOf(r, rows)
        BY <3>1 DEF ListNames, Listings
      <4> HIDE DEF rows
      <4> QED
        BY <1>0, <4>1, <4>2 DEF AnswerOneOf, Listed, TypeOK
    <3>2. CASE ListRotations(r)
      <4> DEFINE rows == {x \in secrets : /\ x.alias \in target[r]
                                          /\ x.live /\ x.next # Null}
      <4>1. \A x \in rows : x \in secrets /\ x.alias \in target[r] /\ x.live
        OBVIOUS
      <4>2. pc[r] = "rows" /\ op[r] \in Listings /\ AnswerOneOf(r, rows)
        BY <3>2 DEF ListRotations, Listings
      <4> HIDE DEF rows
      <4> QED
        BY <1>0, <4>1, <4>2 DEF AnswerOneOf, Listed, TypeOK
    <3> QED
      BY <1>5, <3>1, <3>2
  <2> QED
    BY <2>1
<1>6. CASE Audit(r)
  <2>1. Audited(r)
    BY <1>0, <1>6 DEF Audit, Audited, TypeOK
  <2> QED
    BY <2>1
<1>8. CASE AuditFails(r)
  <2>1. Refused(r)
    BY <1>0, <1>8 DEF AuditFails, Refused, TypeOK
  <2> QED
    BY <2>1
<1>7. CASE \/ CreateInsert(r) \/ BatchInsert(r) \/ RotateCommit(r)
           \/ PolicyUpdate(r) \/ DeleteRows(r)
  <2>1. CASE \/ CreateInsert(r) /\ Answer(r, "internal_error") /\ UNCHANGED <<secrets, todo>>
             \/ BatchInsert(r) /\ Answer(r, "internal_error") /\ UNCHANGED <<secrets, todo>>
             \/ RotateCommit(r) /\ Answer(r, "internal_error") /\ UNCHANGED <<secrets, todo>>
             \/ PolicyUpdate(r) /\ Answer(r, "internal_error") /\ UNCHANGED <<secrets, todo>>
             \/ DeleteRows(r) /\ Answer(r, "not_found") /\ UNCHANGED <<secrets, todo>>
    <3>1. /\ pc[r] \in {"start", "write"}
          /\ UNCHANGED <<secrets, todo, audit, op, target, snap, before>>
          /\ \/ Answer(r, "internal_error")
             \/ Answer(r, "not_found")
      BY <2>1 DEF CreateInsert, BatchInsert, RotateCommit, PolicyUpdate, DeleteRows
    <3>2. Refused(r)
      BY <1>0, <3>1 DEF Refused, TypeOK
    <3> QED
      BY <3>2
  <2>2. CASE /\ Inserts(r) \/ Rotates(r) \/ Deletes(r) \/ SetsPolicy(r)
             /\ OweAudit(r, target[r])
             /\ UNCHANGED <<projectDeleted, audit, restarts, op, target, snap, before>>
    <3>1. RowStep(r)
      BY <2>2, RowSteps
    <3>2. \/ pc[r] = "write" /\ op[r] \in Writes /\ Commits(r)
          \/ pc[r] = "write" /\ op[r] = "policy" /\ ~Commits(r)
          \/ pc[r] = "start" /\ op[r] = "delete" /\ ~Commits(r)
      BY <2>2 DEF Commits, Inserts, Rotates, Deletes, SetsPolicy, Writes
    <3>3. /\ pc'[r] = "audit" /\ todo'[r] = target[r] /\ reply'[r] = reply[r]
          /\ UNCHANGED <<audit, op, target, snap, before>>
      BY <1>0, <2>2 DEF OweAudit, TypeOK
    <3>4. Owes(r)
      BY <3>1, <3>2, <3>3 DEF Owes
    <3> QED
      BY <3>4
  <2>3. CASE CreateInsert(r) \/ BatchInsert(r)
    BY <2>1, <2>2, <2>3 DEF CreateInsert, BatchInsert, Inserts
  <2>4. CASE RotateCommit(r)
    BY <2>1, <2>2, <2>4 DEF RotateCommit, Rotates
  <2>5. CASE PolicyUpdate(r)
    BY <2>1, <2>2, <2>5 DEF PolicyUpdate, SetsPolicy
  <2>6. CASE DeleteRows(r)
    BY <2>1, <2>2, <2>6 DEF DeleteRows, Deletes
  <2> QED
    BY <1>7, <2>3, <2>4, <2>5, <2>6
<1> QED
  BY <1>1, <1>2, <1>3, <1>4, <1>5, <1>6, <1>7, <1>8 DEF Serve

Steps(r) ==
  \/ Arrived(r) \/ Refused(r) \/ GoesOn(r) \/ Fetched(r)
  \/ Owes(r) \/ Listed(r) \/ Audited(r)

\* The step neither loses a row nor an event, and a row it adds is that of a
\* request which commits and owes its events from then on.
LEMMA NothingLost ==
  ASSUME NEW r \in Requests, Steps(r)
  PROVE  /\ \A x \in secrets : Kept(x)
         /\ audit \subseteq audit'
         /\ \A y \in secrets' :
              \/ \E x \in secrets : SameId(y, x) /\ y.version = x.version
              \/ /\ Owes(r) /\ Commits(r) /\ y.writer = r
                 /\ y.alias \in target[r] /\ y.version = ReportedVersion(r)
<1>1. CASE UNCHANGED secrets
  BY <1>1 DEF Kept, SameId, Steps, Arrived, Refused, GoesOn, Fetched, Owes, Listed,
              Audited, Waits
<1>2. CASE Owes(r) /\ RowStep(r)
  BY <1>2 DEF RowStep, Owes
<1> QED
  BY <1>1, <1>2 DEF Steps, Arrived, Refused, GoesOn, Fetched, Owes, Listed,
                    Audited, Waits

\* The own position of the request stays in order.
LEMMA OwnPosition ==
  ASSUME IInv, IInv', NEW r \in Requests, PositionOK(r), Steps(r)
  PROVE  PositionOK(r)'
<1> USE DEF Keeps, Waits, Writes, Listings
<1>0. /\ pc[r] \in {"idle", "start", "dek", "rows", "write", "audit", "done"}
      /\ op[r] \in Ops /\ op'[r] \in Ops
  BY DEF IInv, TypeOK
<1>1. CASE Arrived(r)
  BY <1>0, <1>1 DEF Arrived, PositionOK
<1>2. CASE Refused(r)
  BY <1>0, <1>2 DEF Refused, PositionOK
<1>3. CASE GoesOn(r)
  BY <1>0, <1>3 DEF GoesOn, PositionOK
<1>4. CASE Fetched(r)
  BY <1>0, <1>4 DEF Fetched, PositionOK, IsNewestLive, LiveRows, RowsOf
<1>5. CASE Owes(r)
  BY <1>0, <1>5 DEF Owes, PositionOK
<1>6. CASE Listed(r)
  BY <1>0, <1>6 DEF Listed, PositionOK
<1>7. CASE Audited(r)
  BY <1>0, <1>7 DEF Audited, PositionOK
<1> QED
  BY <1>1, <1>2, <1>3, <1>4, <1>5, <1>6, <1>7 DEF Steps

\* What was committed before the request arrived still is in the table.
LEMMA OwnBefore ==
  ASSUME NEW r \in Requests, BeforeOK(r), Steps(r)
  PROVE  BeforeOK(r)'
<1>1. CASE Arrived(r)
  BY <1>1 DEF Arrived, BeforeOK
<1>2. CASE Keeps(r)
  BY <1>2, NothingLost DEF BeforeOK, Keeps, Kept, SameId
<1> QED
  BY <1>1, <1>2 DEF Steps, Refused, GoesOn, Fetched, Owes, Listed, Audited, Waits

\* A request that reports a write has written it.
LEMMA OwnAcknowledged ==
  ASSUME IInv, NEW r \in Requests, PositionOK(r), AcknowledgedOK(r), Steps(r)
  PROVE  AcknowledgedOK(r)'
<1> SUFFICES ASSUME Acknowledges(r)'
             PROVE  \A a \in target'[r] : \E x \in secrets' :
                      x.alias = a /\ x.writer = r /\ x.version = ReportedVersion(r)'
  BY DEF AcknowledgedOK, RowsOf
<1> USE DEF Keeps, Waits, Acknowledges
<1>1. CASE Owes(r) /\ Commits(r)
  <2>1. RowStep(r) /\ target'[r] = target[r] /\ op'[r] = op[r] /\ snap'[r] = snap[r]
    BY <1>1 DEF Owes, Commits, Inserts, Rotates
  <2>2. ReportedVersion(r)' = ReportedVersion(r)
    BY <2>1 DEF ReportedVersion
  <2> QED
    BY <1>1, <2>1, <2>2 DEF RowStep
<1>2. CASE ~(Owes(r) /\ Commits(r))
  <2>1. /\ Acknowledges(r) /\ target'[r] = target[r]
        /\ op'[r] = op[r] /\ snap'[r] = snap[r]
    BY <1>2 DEF Steps, Arrived, Refused, GoesOn, Fetched, Owes, Listed, Audited,
                PositionOK, Writes, Listings
  <2>2. ReportedVersion(r)' = ReportedVersion(r)
    BY <2>1 DEF ReportedVersion
  <2> QED
    BY <2>1, <2>2, NothingLost DEF AcknowledgedOK, RowsOf, Kept, SameId
<1> QED
  BY <1>1, <1>2

\* A live row is the last of its alias, so none of what had been committed when
\* the request arrived is newer.
LEMMA LiveIsLast ==
  ASSUME IInv, NEW r \in Requests, PositionOK(r), BeforeOK(r), pc[r] # "idle",
         op[r] # "batch", NEW x \in secrets, x.alias \in target[r], x.live
  PROVE  \A v \in before[r] : v <= x.version
<1> SUFFICES ASSUME NEW v \in before[r] PROVE v <= x.version
  OBVIOUS
<1>1. PICK a \in Aliases : target[r] = {a}
  BY DEF PositionOK
<1>2. PICK y \in secrets : y.alias \in target[r] /\ y.version = v
  BY DEF BeforeOK
<1>3. ~(x.version < y.version)
  BY <1>1, <1>2 DEF IInv, TableOK, OldDeleted
<1>4. x.version \in Nat /\ y.version \in Nat
  BY DEF IInv, TypeOK, Rows
<1> QED
  BY <1>2, <1>3, <1>4

\* The row that a request takes up is not older than what it found committed.
LEMMA OwnNotStale ==
  ASSUME IInv, NEW r \in Requests, PositionOK(r), BeforeOK(r), NotStale(r), Steps(r)
  PROVE  NotStale(r)'
<1> USE DEF Keeps, Waits, Listings
<1>1. CASE Arrived(r)
  BY <1>1 DEF Arrived, PositionOK, NotStale
<1>2. CASE Fetched(r)
  <2>1. PICK x \in secrets : \E a \in target[r] : IsNewestLive(x, a) /\ snap'[r] = x
    BY <1>2 DEF Fetched
  <2>2. x.alias \in target[r] /\ x.live
    BY <2>1 DEF IsNewestLive, LiveRows, RowsOf
  <2>3. x \in Rows
    BY DEF IInv, TypeOK
  <2>4. \A v \in before[r] : v <= x.version
    BY <1>2, <2>2, LiveIsLast DEF Fetched
  <2> QED
    BY <1>2, <2>1, <2>3, <2>4 DEF Fetched, NotStale
<1>3. CASE Listed(r)
  <2>1. ASSUME NEW x \in secrets, x.alias \in target[r], x.live, snap'[r] = x
        PROVE  NotStale(r)'
    <3>1. \A v \in before[r] : v <= x.version
      BY <1>3, <2>1, LiveIsLast DEF Listed
    <3> QED
      BY <1>3, <2>1, <3>1 DEF Listed, NotStale
  <2>2. CASE snap'[r] = snap[r]
    BY <1>3, <2>2 DEF Listed, NotStale
  <2> QED
    BY <1>3, <2>1, <2>2 DEF Listed
<1>4. CASE Refused(r) \/ GoesOn(r) \/ Owes(r) \/ Audited(r)
  BY <1>4 DEF Refused, GoesOn, Owes, Audited, NotStale, PositionOK, Writes
<1> QED
  BY <1>1, <1>2, <1>3, <1>4 DEF Steps

\* The request owes the events that are not in the log.
LEMMA OwnEvents ==
  ASSUME NEW r \in Requests, PositionOK(r), EventsOK(r), Steps(r)
  PROVE  EventsOK(r)'
<1> USE DEF Keeps, Waits
<1>1. CASE Arrived(r) \/ Refused(r) \/ GoesOn(r) \/ Fetched(r) \/ Listed(r)
  BY <1>1 DEF Arrived, Refused, GoesOn, Fetched, Listed, PositionOK, EventsOK
<1>2. CASE Owes(r)
  BY <1>2 DEF Owes, EventsOK
<1>3. CASE Audited(r)
  <2>1. \A a \in target[r] : EventOf(r, a)' = EventOf(r, a)
    BY <1>3 DEF Audited, EventOf, ReportedVersion
  <2>2. PICK b \in todo[r] :
          /\ audit' = audit \cup {EventOf(r, b)}
          /\ todo'[r] = todo[r] \ {b}
          /\ IF todo[r] = {b} THEN pc'[r] = "done" /\ reply'[r] = "ok"
                              ELSE pc'[r] = "audit" /\ reply'[r] = reply[r]
    BY <1>3 DEF Audited
  <2>3. \A a \in target[r] : EventOf(r, a) \in audit \/ a \in todo[r]
    BY <1>3 DEF Audited, EventsOK
  <2>4. \A a \in target[r] : \/ EventOf(r, a) \in audit'
                             \/ pc'[r] = "audit" /\ a \in todo'[r]
    BY <2>2, <2>3
  <2>5. target'[r] = target[r]
    BY <1>3 DEF Audited
  <2> QED
    BY <2>1, <2>4, <2>5 DEF EventsOK
<1> QED
  BY <1>1, <1>2, <1>3 DEF Steps

\* A step that loses no row and no event keeps what is said of the others.
LEMMA OtherHandlers ==
  ASSUME NEW q \in Requests,
         PositionOK(q), BeforeOK(q), AcknowledgedOK(q), NotStale(q), EventsOK(q),
         pc'[q] = pc[q], op'[q] = op[q], target'[q] = target[q],
         snap'[q] = snap[q], todo'[q] = todo[q], reply'[q] = reply[q],
         before'[q] = before[q],
         \A x \in secrets : Kept(x), audit \subseteq audit'
  PROVE  /\ PositionOK(q)' /\ BeforeOK(q)' /\ AcknowledgedOK(q)'
         /\ NotStale(q)' /\ EventsOK(q)'
<1>1. ReportedVersion(q)' = ReportedVersion(q)
  BY DEF ReportedVersion
<1>2. \A a \in target[q] : EventOf(q, a)' = EventOf(q, a)
  BY <1>1 DEF EventOf
<1>3. PositionOK(q)'
  BY DEF PositionOK
<1>4. BeforeOK(q)'
  BY DEF BeforeOK, Kept, SameId
<1>5. AcknowledgedOK(q)'
  BY <1>1 DEF AcknowledgedOK, Acknowledges, RowsOf, Kept, SameId
<1>6. NotStale(q)'
  BY DEF NotStale
<1>7. EventsOK(q)'
  BY <1>2 DEF EventsOK
<1> QED
  BY <1>3, <1>4, <1>5, <1>6, <1>7

\* Every row of the table keeps its event or the request that owes it.
LEMMA RowsStayAudited ==
  ASSUME IInv, IInv', NEW r \in Requests, PositionOK(r), RowsAudited,
         Frame(r), Steps(r)
  PROVE  RowsAudited'
<1> USE DEF Keeps, Waits
<1> SUFFICES ASSUME NEW y \in secrets'
             PROVE  LET w == y.writer IN
                    /\ op'[w] \in Writes /\ pc'[w] \in {"audit", "done"}
                    /\ y.alias \in target'[w] /\ y.version = ReportedVersion(w)'
                    /\ \/ EventOf(w, y.alias)' \in audit'
                       \/ y.alias \in todo'[w] /\ (pc'[w] = "audit" \/ CutOff(w)')
  BY DEF RowsAudited
<1>0. audit \subseteq audit'
  BY NothingLost
<1>1. CASE /\ Owes(r) /\ Commits(r) /\ y.writer = r
           /\ y.alias \in target[r] /\ y.version = ReportedVersion(r)
  <2>1. op'[r] = op[r] /\ snap'[r] = snap[r]
    BY <1>1 DEF Owes
  <2>2. ReportedVersion(r)' = ReportedVersion(r)
    BY <2>1 DEF ReportedVersion
  <2>3. op[r] \in Writes
    BY <1>1 DEF Commits, Inserts, Rotates, Writes
  <2> QED
    BY <1>1, <2>1, <2>2, <2>3 DEF Owes
<1>2. ASSUME NEW x \in secrets, SameId(y, x), y.version = x.version
      PROVE  LET w == y.writer IN
             /\ op'[w] \in Writes /\ pc'[w] \in {"audit", "done"}
             /\ y.alias \in target'[w] /\ y.version = ReportedVersion(w)'
             /\ \/ EventOf(w, y.alias)' \in audit'
                \/ y.alias \in todo'[w] /\ (pc'[w] = "audit" \/ CutOff(w)')
  <2>1. x.writer \in Requests /\ y.writer = x.writer /\ y.alias = x.alias
    BY <1>2 DEF SameId, IInv, TypeOK, Rows
  <2>2. LET w == x.writer IN
        /\ op[w] \in Writes /\ pc[w] \in {"audit", "done"}
        /\ x.alias \in target[w] /\ x.version = ReportedVersion(w)
        /\ \/ EventOf(w, x.alias) \in audit
           \/ x.alias \in todo[w] /\ (pc[w] = "audit" \/ CutOff(w))
    BY DEF RowsAudited
  <2>3. CASE x.writer # r
    <3>1. LET w == x.writer IN
          /\ pc'[w] = pc[w] /\ op'[w] = op[w] /\ target'[w] = target[w]
          /\ snap'[w] = snap[w] /\ todo'[w] = todo[w] /\ reply'[w] = reply[w]
      BY <2>1, <2>3 DEF Frame
    <3>2. /\ ReportedVersion(x.writer)' = ReportedVersion(x.writer)
          /\ EventOf(x.writer, x.alias)' = EventOf(x.writer, x.alias)
      BY <3>1, <2>1, <1>2 DEF ReportedVersion, EventOf
    <3> QED
      BY <1>0, <1>2, <2>1, <2>2, <3>1, <3>2 DEF CutOff
  <2>4. CASE x.writer = r /\ Audited(r)
    <3>1. /\ op'[r] = op[r] /\ target'[r] = target[r] /\ snap'[r] = snap[r]
          /\ pc[r] = "audit"
      BY <2>4 DEF Audited
    <3>2. /\ ReportedVersion(r)' = ReportedVersion(r)
          /\ EventOf(r, x.alias)' = EventOf(r, x.alias)
      BY <3>1 DEF ReportedVersion, EventOf
    <3>3. PICK b \in todo[r] :
            /\ audit' = audit \cup {EventOf(r, b)}
            /\ todo'[r] = todo[r] \ {b}
            /\ IF todo[r] = {b} THEN pc'[r] = "done" /\ reply'[r] = "ok"
                                ELSE pc'[r] = "audit" /\ reply'[r] = reply[r]
      BY <2>4 DEF Audited
    <3>4. \/ EventOf(r, x.alias) \in audit'
          \/ x.alias \in todo'[r] /\ pc'[r] = "audit"
      BY <2>2, <2>4, <3>1, <3>3
    <3>5. pc'[r] \in {"audit", "done"}
      BY <3>3
    <3> QED
      BY <1>2, <2>1, <2>2, <2>4, <3>1, <3>2, <3>4, <3>5
  <2>6. CASE x.writer = r /\ Refused(r)
    <3>1. /\ op'[r] = op[r] /\ target'[r] = target[r] /\ snap'[r] = snap[r]
          /\ todo'[r] = todo[r] /\ pc'[r] = "done" /\ pc[r] = "audit"
          /\ CutOff(r)'
      BY <2>2, <2>6 DEF Refused, CutOff
    <3>2. /\ ReportedVersion(r)' = ReportedVersion(r)
          /\ EventOf(r, x.alias)' = EventOf(r, x.alias)
      BY <3>1 DEF ReportedVersion, EventOf
    <3> QED
      BY <1>0, <1>2, <2>1, <2>2, <2>6, <3>1, <3>2
  <2>5. CASE x.writer = r /\ ~Audited(r) /\ ~Refused(r)
    <3>1. FALSE
      BY <2>2, <2>5 DEF Steps, Arrived, Refused, GoesOn, Fetched, Owes, Listed
    <3> QED
      BY <3>1
  <2> QED
    BY <2>3, <2>4, <2>5, <2>6
<1> QED
  BY <1>1, <1>2, NothingLost

\* An event of a version tells of a row: a write has been committed before its
\* event is appended, and a read tells of a row it has found.
LEMMA EventsStayBacked ==
  ASSUME IInv, NEW r \in Requests, PositionOK(r), AcknowledgedOK(r),
         EventsBacked, Steps(r)
  PROVE  EventsBacked'
<1> USE DEF Keeps, Waits
<1> SUFFICES ASSUME NEW e \in audit', e.version > 0
             PROVE  \E x \in secrets' : x.alias = e.alias /\ x.version = e.version
  BY DEF EventsBacked, RowsOf
<1>1. \/ e \in audit
      \/ Audited(r) /\ \E a \in todo[r] : e = EventOf(r, a)
  BY DEF Steps, Arrived, Refused, GoesOn, Fetched, Owes, Listed, Audited
<1>2. \E x \in secrets : x.alias = e.alias /\ x.version = e.version
  <2>1. CASE e \in audit
    BY <2>1 DEF EventsBacked, RowsOf
  <2>2. ASSUME Audited(r), NEW a \in todo[r], e = EventOf(r, a)
        PROVE  \E x \in secrets : x.alias = e.alias /\ x.version = e.version
    <3>1. pc[r] = "audit" /\ a \in target[r]
      BY <2>2 DEF Audited, PositionOK
    <3>2. e.alias = a /\ e.version = ReportedVersion(r)
      BY <2>2 DEF EventOf
    <3>3. CASE op[r] \in Writes
      BY <3>1, <3>2, <3>3 DEF AcknowledgedOK, Acknowledges, RowsOf
    <3>4. CASE op[r] = "read"
      <4>1. target[r] = {snap[r].alias}
        BY <3>1, <3>4 DEF PositionOK
      <4>2. PICK x \in secrets : SameId(x, snap[r]) /\ x.version = snap[r].version
        BY <3>1, <3>4 DEF IInv, SnapInTable
      <4>3. ReportedVersion(r) = snap[r].version
        BY <3>4 DEF ReportedVersion
      <4> QED
        BY <3>1, <3>2, <4>1, <4>2, <4>3 DEF SameId
    <3>5. CASE op[r] \notin Writes \cup {"read"}
      <4>1. ReportedVersion(r) = 0
        BY <3>5 DEF ReportedVersion, Writes
      <4> QED
        BY <3>2, <4>1
    <3> QED
      BY <3>3, <3>4, <3>5
  <2> QED
    BY <1>1, <2>1, <2>2
<1> QED
  BY <1>2, NothingLost DEF Kept, SameId

\* The aliases under which q has written
WrittenBy(q, S) == {x.alias : x \in {y \in S : y.writer = q}}

\* A batch writes all of its rows in the step that writes one of them.
LEMMA BatchStaysWhole ==
  ASSUME IInv, NEW r \in Requests, BatchAllOrNothing, Frame(r), Steps(r)
  PROVE  BatchAllOrNothing'
<1> SUFFICES ASSUME NEW q \in Requests, op'[q] = "batch"
             PROVE  WrittenBy(q, secrets') \in {{}, target'[q]}
  BY DEF BatchAllOrNothing, WrittenBy
<1> USE DEF Keeps, Waits
<1>1. CASE Owes(r) /\ Commits(r) /\ q = r
  <2>1. \A x \in secrets : x.writer # r
    BY <1>1 DEF IInv, NotYetWritten, Commits, Inserts, Rotates
  <2>2. \A y \in secrets' : y.writer = r => y.alias \in target[r]
    BY <2>1, NothingLost DEF SameId
  <2>3. \A a \in target[r] : \E y \in secrets' : y.alias = a /\ y.writer = r
    BY <1>1 DEF Owes, RowStep, Commits, Inserts, Rotates
  <2>4. WrittenBy(r, secrets') = target[r]
    BY <2>2, <2>3 DEF WrittenBy
  <2> QED
    BY <1>1, <2>4 DEF Owes
<1>2. CASE ~(Owes(r) /\ Commits(r) /\ q = r)
  <2>1. WrittenBy(q, secrets') = WrittenBy(q, secrets)
    <3>1. \A a : a \in WrittenBy(q, secrets) => a \in WrittenBy(q, secrets')
      BY NothingLost DEF WrittenBy, Kept, SameId
    <3>2. \A a : a \in WrittenBy(q, secrets') => a \in WrittenBy(q, secrets)
      BY <1>2, NothingLost DEF WrittenBy, SameId
    <3> QED
      BY <3>1, <3>2
  <2>2. CASE op[q] = "batch" /\ target'[q] = target[q]
    BY <2>1, <2>2 DEF BatchAllOrNothing, WrittenBy
  <2>3. CASE ~(op[q] = "batch" /\ target'[q] = target[q])
    <3>1. q = r /\ Arrived(r)
      BY <2>3 DEF Frame, Steps, Refused, GoesOn, Fetched, Owes, Listed, Audited
    <3>2. \A x \in secrets : x.writer # r
      BY <3>1 DEF Arrived, IInv, NotYetWritten
    <3>3. WrittenBy(r, secrets) = {}
      BY <3>2 DEF WrittenBy
    <3> QED
      BY <2>1, <3>1, <3>3
  <2> QED
    BY <2>2, <2>3
<1> QED
  BY <1>1, <1>2

----------------------------------------------------------------------------
(* The invariant *)

\* Nothing has happened yet.
LEMMA InitHInv == Init => HInv
<1> SUFFICES ASSUME Init PROVE HInv
  OBVIOUS
<1>1. Handlers
  BY DEF Init, Handlers, PositionOK, BeforeOK, AcknowledgedOK, Acknowledges, NotStale,
         EventsOK
<1>2. RowsAudited /\ EventsBacked /\ BatchAllOrNothing
  BY DEF Init, RowsAudited, EventsBacked, BatchAllOrNothing
<1> QED
  BY <1>1, <1>2, InitIInv DEF HInv

\* A step of a handler preserves the invariant.
LEMMA ServeKeepsHInv ==
  ASSUME HInv, IInv', NEW r \in Requests, Serve(r)
  PROVE  HInv'
<1>1. IInv /\ TypeOK
  BY DEF HInv, IInv
<1>2. \A q \in Requests : /\ PositionOK(q) /\ BeforeOK(q) /\ AcknowledgedOK(q)
                          /\ NotStale(q) /\ EventsOK(q)
  BY DEF HInv, Handlers
<1>3. Frame(r)
  BY <1>1, ServeFrame
<1>4. Steps(r)
  BY <1>1, <1>2, ServeSteps DEF Steps
<1>5. Handlers'
  <2> SUFFICES ASSUME NEW q \in Requests
               PROVE  /\ PositionOK(q)' /\ BeforeOK(q)' /\ AcknowledgedOK(q)'
                      /\ NotStale(q)' /\ EventsOK(q)'
    BY DEF Handlers
  <2>1. CASE q = r
    BY <1>1, <1>2, <1>4, <2>1, OwnPosition, OwnBefore, OwnAcknowledged, OwnNotStale,
       OwnEvents
  <2>2. CASE q # r
    <3>1. /\ pc'[q] = pc[q] /\ op'[q] = op[q] /\ target'[q] = target[q]
          /\ snap'[q] = snap[q] /\ todo'[q] = todo[q] /\ reply'[q] = reply[q]
          /\ before'[q] = before[q]
      BY <1>3, <2>2 DEF Frame
    <3> QED
      BY <1>2, <1>4, <3>1, NothingLost, OtherHandlers
  <2> QED
    BY <2>1, <2>2
<1>6. RowsAudited'
  BY <1>1, <1>2, <1>3, <1>4, RowsStayAudited DEF HInv
<1>7. EventsBacked'
  BY <1>1, <1>2, <1>4, EventsStayBacked DEF HInv
<1>8. BatchAllOrNothing'
  BY <1>1, <1>3, <1>4, BatchStaysWhole DEF HInv
<1> QED
  BY <1>5, <1>6, <1>7, <1>8 DEF HInv

\* A crash ends the handlers in flight and leaves the tables as they are.
LEMMA RestartKeepsHInv ==
  ASSUME HInv, IInv', Restart
  PROVE  HInv'
<1>1. /\ UNCHANGED <<secrets, audit, op, target, snap, todo, before>>
      /\ \A q \in Requests :
           /\ pc'[q] = IF pc[q] = "idle" THEN "idle" ELSE "done"
           /\ reply'[q] = IF pc[q] \in {"idle", "done"} THEN reply[q] ELSE "lost"
  BY DEF Restart
<1>2. \A q \in Requests : ReportedVersion(q)' = ReportedVersion(q)
  BY <1>1 DEF ReportedVersion
<1>3. \A q \in Requests : \A a : EventOf(q, a)' = EventOf(q, a)
  BY <1>1, <1>2 DEF EventOf
<1>4. \A q \in Requests : pc[q] \in {"idle", "start", "dek", "rows", "write", "audit", "done"}
  BY DEF HInv, IInv, TypeOK
<1>5. Handlers'
  <2> SUFFICES ASSUME NEW q \in Requests
               PROVE  /\ PositionOK(q)' /\ BeforeOK(q)' /\ AcknowledgedOK(q)'
                      /\ NotStale(q)' /\ EventsOK(q)'
    BY DEF Handlers
  <2>0. PositionOK(q) /\ BeforeOK(q) /\ AcknowledgedOK(q) /\ NotStale(q) /\ EventsOK(q)
    BY DEF HInv, Handlers
  <2>1. PositionOK(q)'
    BY <1>1, <1>4, <2>0 DEF PositionOK
  <2>2. BeforeOK(q)'
    BY <1>1, <2>0 DEF BeforeOK
  <2>3. AcknowledgedOK(q)'
    BY <1>1, <1>2, <2>0 DEF AcknowledgedOK, Acknowledges, RowsOf, PositionOK
  <2>4. NotStale(q)'
    BY <1>1, <2>0 DEF NotStale
  <2>5. EventsOK(q)'
    BY <1>1, <1>3, <2>0 DEF EventsOK, PositionOK
  <2> QED
    BY <2>1, <2>2, <2>3, <2>4, <2>5
<1>6. RowsAudited'
  <2> SUFFICES ASSUME NEW x \in secrets
               PROVE  LET w == x.writer IN
                      /\ op'[w] \in Writes /\ pc'[w] \in {"audit", "done"}
                      /\ x.alias \in target'[w] /\ x.version = ReportedVersion(w)'
                      /\ \/ EventOf(w, x.alias)' \in audit'
                         \/ x.alias \in todo'[w] /\ (pc'[w] = "audit" \/ CutOff(w)')
    BY <1>1 DEF RowsAudited
  <2>1. x.writer \in Requests
    BY DEF HInv, IInv, TypeOK, Rows
  <2>2. LET w == x.writer IN
        /\ op[w] \in Writes /\ pc[w] \in {"audit", "done"}
        /\ x.alias \in target[w] /\ x.version = ReportedVersion(w)
        /\ \/ EventOf(w, x.alias) \in audit
           \/ x.alias \in todo[w] /\ (pc[w] = "audit" \/ CutOff(w))
    BY DEF HInv, RowsAudited
  <2> QED
    BY <1>1, <1>2, <1>3, <2>1, <2>2 DEF CutOff
<1>7. EventsBacked' /\ BatchAllOrNothing'
  BY <1>1 DEF HInv, EventsBacked, RowsOf, BatchAllOrNothing
<1> QED
  BY <1>5, <1>6, <1>7 DEF HInv

\* The invariant is preserved by every step.
LEMMA NextKeepsHInv == HInv /\ [Next]_vars => HInv'
<1> SUFFICES ASSUME HInv, [Next]_vars PROVE HInv'
  OBVIOUS
<1>0. IInv'
  BY NextKeepsIInv DEF HInv
<1>1. CASE \E r \in Requests : Serve(r)
  BY <1>0, <1>1, ServeKeepsHInv
<1>2. CASE Restart
  BY <1>0, <1>2, RestartKeepsHInv
<1>3. CASE DeleteProject \/ UNCHANGED vars
  <2>1. UNCHANGED <<secrets, audit, pc, op, target, snap, todo, reply, before>>
    BY <1>3 DEF DeleteProject, vars, request
  <2>2. \A q \in Requests : ReportedVersion(q)' = ReportedVersion(q)
    BY <2>1 DEF ReportedVersion
  <2>3. \A q \in Requests : \A a : EventOf(q, a)' = EventOf(q, a)
    BY <2>1, <2>2 DEF EventOf
  <2>4. Handlers'
    <3> SUFFICES ASSUME NEW q \in Requests
                 PROVE  /\ PositionOK(q)' /\ BeforeOK(q)' /\ AcknowledgedOK(q)'
                        /\ NotStale(q)' /\ EventsOK(q)'
      BY DEF Handlers
    <3>1. PositionOK(q) /\ BeforeOK(q) /\ AcknowledgedOK(q) /\ NotStale(q) /\ EventsOK(q)
      BY DEF HInv, Handlers
    <3>2. (\A x \in secrets : Kept(x)) /\ audit \subseteq audit'
      BY <2>1 DEF Kept, SameId
    <3> QED
      BY <2>1, <3>1, <3>2, OtherHandlers
  <2>5. EventsBacked' /\ BatchAllOrNothing'
    BY <2>1 DEF HInv, EventsBacked, RowsOf, BatchAllOrNothing
  <2>6. RowsAudited'
    <3> SUFFICES ASSUME NEW x \in secrets
                 PROVE  LET w == x.writer IN
                        /\ op[w] \in Writes /\ pc[w] \in {"audit", "done"}
                        /\ x.alias \in target[w] /\ x.version = ReportedVersion(w)'
                        /\ \/ EventOf(w, x.alias)' \in audit
                           \/ x.alias \in todo[w] /\ (pc[w] = "audit" \/ CutOff(w))
      BY <2>1 DEF RowsAudited, CutOff
    <3>1. x.writer \in Requests
      BY DEF HInv, IInv, TypeOK, Rows
    <3> QED
      BY <2>2, <2>3, <3>1 DEF HInv, RowsAudited
  <2> QED
    BY <1>0, <2>4, <2>5, <2>6 DEF HInv
<1> QED
  BY <1>1, <1>2, <1>3 DEF Next

\* The invariant holds in every reachable state.
LEMMA HandlersInvariance == Spec => []HInv
  BY InitHInv, NextKeepsHInv, PTL DEF Spec

----------------------------------------------------------------------------
(* The theorems *)

\* A create, batch or rotate that was answered 2xx is in the table under the
\* version it reported, and stays there: no concurrent rotate overwrites it, a
\* delete only marks it, and no crash loses it.
THEOREM AcknowledgedWritesStay == Spec => []AcknowledgedWriteKept
<1>1. HInv => AcknowledgedWriteKept
  BY DEF HInv, Handlers, AcknowledgedOK, Acknowledges, Writes, AcknowledgedWriteKept
<1> QED
  BY <1>1, HandlersInvariance, PTL

\* No handler answers with what had been superseded when its request arrived,
\* although read and rotate act on a row that was current two awaits earlier.
THEOREM AnswersAreFresh == Spec => []NoStaleAnswer
<1>1. HInv => NoStaleAnswer
  <2> SUFFICES ASSUME HInv, NEW r \in Requests, NEW v \in before[r], reply[r] = "ok"
               PROVE  /\ op[r] = "read" => v <= ReportedVersion(r)
                      /\ op[r] = "rotate" => v < ReportedVersion(r)
                      /\ op[r] \in Listings /\ snap[r] # Null => v <= snap[r].version
    BY DEF NoStaleAnswer
  <2>1. NotStale(r)
    BY DEF HInv, Handlers
  <2>2. v \in Nat
    BY DEF HInv, IInv, TypeOK
  <2>3. op[r] \in {"read", "rotate"} => snap[r].version \in Nat /\ v <= snap[r].version
    BY <2>1 DEF NotStale, Rows
  <2>4. op[r] = "read" => v <= ReportedVersion(r)
    BY <2>3 DEF ReportedVersion
  <2>5. op[r] = "rotate" => v < ReportedVersion(r)
    <3>1. op[r] = "rotate" => ReportedVersion(r) = snap[r].version + 1
      BY DEF ReportedVersion
    <3> QED
      BY <2>2, <2>3, <3>1
  <2>6. op[r] \in Listings /\ snap[r] # Null => v <= snap[r].version
    BY <2>1 DEF NotStale
  <2> QED
    BY <2>4, <2>5, <2>6
<1> QED
  BY <1>1, HandlersInvariance, PTL

\* The audit log and the table account for one another, whatever crash falls
\* between a commit and the append of its event.
THEOREM AuditAccountsForTable == Spec => []AuditMatchesTable
<1>1. HInv => AuditMatchesTable
  <2> SUFFICES ASSUME HInv PROVE AuditMatchesTable
    OBVIOUS
  <2>1. \A r \in Requests : \A a \in target[r] :
          reply[r] = "ok" /\ op[r] \notin Listings => EventOf(r, a) \in audit
    BY DEF HInv, Handlers, EventsOK, PositionOK
  <2>2. ASSUME NEW x \in secrets
        PROVE  \/ \E e \in audit : /\ e.alias = x.alias /\ e.version = x.version
                                   /\ e.request = x.writer
               \/ x.alias \in todo[x.writer] /\ reply[x.writer] \in {"none", "lost", "internal_error"}
    <3>1. LET w == x.writer IN
          /\ x.version = ReportedVersion(w)
          /\ \/ EventOf(w, x.alias) \in audit
             \/ x.alias \in todo[w] /\ (pc[w] = "audit" \/ CutOff(w))
      BY DEF HInv, RowsAudited
    <3>2. x.writer \in Requests
      BY DEF HInv, IInv, TypeOK, Rows
    <3>3. pc[x.writer] = "audit" => reply[x.writer] = "none"
      BY <3>2 DEF HInv, Handlers, PositionOK
    <3>4. /\ EventOf(x.writer, x.alias).alias = x.alias
          /\ EventOf(x.writer, x.alias).request = x.writer
          /\ EventOf(x.writer, x.alias).version = ReportedVersion(x.writer)
      BY DEF EventOf
    <3> QED
      BY <3>1, <3>3, <3>4 DEF CutOff
  <2>3. \A e \in audit :
          e.version > 0 => \E x \in RowsOf(e.alias) : x.version = e.version
    BY DEF HInv, EventsBacked
  <2> QED
    BY <2>1, <2>2, <2>3 DEF AuditMatchesTable
<1> QED
  BY <1>1, HandlersInvariance, PTL

\* A batch writes all of its secrets or none.
THEOREM BatchesAreAtomic == Spec => []BatchAllOrNothing
<1>1. HInv => BatchAllOrNothing
  BY DEF HInv
<1> QED
  BY <1>1, HandlersInvariance, PTL

----------------------------------------------------------------------------
(* The promise of VersionedSecrets *)

\* HistoryOf for any table, and whether a secret resolves in it
InAlias(S, a) == {x \in S : x.alias = a}

Hist(S, a) ==
  [v \in {x.version : x \in InAlias(S, a)} |->
     (CHOOSE x \in InAlias(S, a) : x.version = v).writer]

IsLive(S, a) == \E x \in InAlias(S, a) : x.live

\* The history of an alias names the writer of each of its rows.
LEMMA HistAt ==
  ASSUME NEW S, UniqueVersions(S), NEW x \in S
  PROVE  x.version \in DOMAIN Hist(S, x.alias) /\ Hist(S, x.alias)[x.version] = x.writer
<1> DEFINE R == InAlias(S, x.alias)
           c == CHOOSE y \in R : y.version = x.version
<1>1. x \in R
  BY DEF InAlias
<1>2. c \in R /\ c.version = x.version
  BY <1>1
<1>3. c = x
  BY <1>2 DEF InAlias, UniqueVersions
<1>4. x.version \in {y.version : y \in R}
  BY <1>1
<1> QED
  BY <1>3, <1>4 DEF Hist

\* Each row of an alias in S is in T, but for the columns an update changes.
SameIn(S, T, a) ==
  \A x \in InAlias(S, a) : \E y \in T : SameId(y, x) /\ y.version = x.version

\* Tables that have the same rows of an alias in this sense have the same
\* history of it.
LEMMA HistEqual ==
  ASSUME NEW S, NEW T, UniqueVersions(S), UniqueVersions(T), NEW a,
         SameIn(S, T, a), SameIn(T, S, a)
  PROVE  Hist(S, a) = Hist(T, a)
<1>1. {x.version : x \in InAlias(S, a)} = {x.version : x \in InAlias(T, a)}
  BY DEF SameIn, InAlias, SameId
<1>2. DOMAIN Hist(S, a) = {x.version : x \in InAlias(S, a)}
  BY DEF Hist
<1>3. DOMAIN Hist(T, a) = {x.version : x \in InAlias(T, a)}
  BY DEF Hist
<1>4. ASSUME NEW v \in DOMAIN Hist(S, a) PROVE Hist(S, a)[v] = Hist(T, a)[v]
  <2>1. PICK x \in InAlias(S, a) : x.version = v
    BY <1>2
  <2>2. PICK y \in T : SameId(y, x) /\ y.version = v
    BY <2>1 DEF SameIn
  <2>3. x \in S /\ x.alias = a /\ y.alias = a /\ y.writer = x.writer
    BY <2>1, <2>2 DEF InAlias, SameId
  <2> QED
    BY <2>1, <2>2, <2>3, HistAt
<1>5. Hist(S, a) = [v \in DOMAIN Hist(S, a) |-> Hist(S, a)[v]]
  BY DEF Hist
<1>6. Hist(T, a) = [v \in DOMAIN Hist(T, a) |-> Hist(T, a)[v]]
  BY DEF Hist
<1> HIDE DEF Hist
<1> QED
  BY <1>1, <1>2, <1>3, <1>4, <1>5, <1>6

\* An alias without rows has no history.
LEMMA HistEmpty ==
  ASSUME NEW S, NEW a, InAlias(S, a) = {}
  PROVE  Hist(S, a) = <<>>
<1>1. {x.version : x \in InAlias(S, a)} = {}
  OBVIOUS
<1> QED
  BY <1>1 DEF Hist

\* By NoGap, an alias whose last version is n has a sequence of n writers.
LEMMA HistSequence ==
  ASSUME NEW S, S \subseteq Rows, TableOK(S), NEW p \in S,
         \A x \in S : x.alias = p.alias => x.version <= p.version
  PROVE  /\ Hist(S, p.alias) \in Seq(Requests)
         /\ Len(Hist(S, p.alias)) = p.version
<1> DEFINE a == p.alias
           n == p.version
<1>1. n \in Nat /\ \A x \in S : x.version \in Nat \ {0} /\ x.writer \in Requests
  BY DEF Rows
<1>2. {x.version : x \in InAlias(S, a)} = 1..n
  <2>1. \A x \in InAlias(S, a) : x.version \in 1..n
    BY <1>1 DEF InAlias
  <2>2. \A v \in 1..n : \E x \in InAlias(S, a) : x.version = v
    BY DEF TableOK, NoGap, InAlias
  <2> QED
    BY <2>1, <2>2
<1>3. \A v \in 1..n : Hist(S, a)[v] \in Requests
  <2> SUFFICES ASSUME NEW v \in 1..n PROVE Hist(S, a)[v] \in Requests
    OBVIOUS
  <2>1. PICK x \in InAlias(S, a) : x.version = v
    BY <1>2
  <2>2. x \in S /\ x.alias = a
    BY <2>1 DEF InAlias
  <2> QED
    BY <1>1, <2>1, <2>2, HistAt DEF TableOK
<1>4. Hist(S, a) = [v \in 1..n |-> Hist(S, a)[v]]
  BY <1>2 DEF Hist
<1> HIDE DEF a, n
<1>5. Hist(S, a) \in [1..n -> Requests]
  BY <1>3, <1>4
<1>6. Hist(S, a) \in Seq(Requests) /\ Len(Hist(S, a)) = n
  BY <1>1, <1>5
<1> QED
  BY <1>6 DEF a, n

\* A row with the next version appends its writer to the history.
LEMMA HistAppend ==
  ASSUME NEW S, S \subseteq Rows, TableOK(S), NEW T, T \subseteq Rows, TableOK(T),
         NEW p \in S, \A x \in S : x.alias = p.alias => x.version <= p.version,
         NEW n \in T, n.alias = p.alias, n.version = p.version + 1,
         SameIn(S, T, p.alias),
         \A y \in T : y.alias = p.alias =>
           y = n \/ \E x \in S : SameId(y, x) /\ y.version = x.version
  PROVE  Hist(T, p.alias) = Append(Hist(S, p.alias), n.writer)
<1> DEFINE h == Hist(S, p.alias)
           k == Hist(T, p.alias)
<1>1. h \in Seq(Requests) /\ Len(h) = p.version
  BY HistSequence
<1>2. \A y \in T : y.alias = n.alias => y.version <= n.version
  BY DEF SameId, Rows
<1>3. k \in Seq(Requests) /\ Len(k) = p.version + 1
  BY <1>2, HistSequence
<1>4. k[p.version + 1] = n.writer
  BY HistAt DEF TableOK
<1>5. ASSUME NEW i \in 1..p.version PROVE k[i] = h[i]
  <2>1. PICK x \in S : x.alias = p.alias /\ x.version = i
    BY <1>5 DEF TableOK, NoGap
  <2>2. PICK y \in T : SameId(y, x) /\ y.version = i
    BY <2>1 DEF SameIn, InAlias
  <2>3. h[i] = x.writer /\ k[i] = y.writer
    BY <2>1, <2>2, HistAt DEF TableOK, SameId
  <2> QED
    BY <2>2, <2>3 DEF SameId
<1>6. p.version \in Nat /\ n.writer \in Requests
  BY DEF Rows
<1> HIDE DEF h, k
<1>7. k = Append(h, n.writer)
  BY <1>1, <1>3, <1>4, <1>5, <1>6
<1> QED
  BY <1>7 DEF h, k

\* What a table promises, and what the promise's variables are
History(S) == [a \in Aliases |-> Hist(S, a)]

Resolves(S) == [a \in Aliases |-> IsLive(S, a)]

\* The refinement mapping of SecretStore reads them off the table.
LEMMA Mapping ==
  /\ [a \in Aliases |-> HistoryOf(a)] = History(secrets)
  /\ [a \in Aliases |-> LiveRows(a) # {}] = Resolves(secrets)
<1>1. \A a \in Aliases : HistoryOf(a) = Hist(secrets, a)
  BY DEF HistoryOf, RowsOf, Hist, InAlias
<1>2. \A a \in Aliases : (LiveRows(a) # {}) = IsLive(secrets, a)
  BY DEF LiveRows, RowsOf, IsLive, InAlias
<1>3. [a \in Aliases |-> HistoryOf(a)] = History(secrets)
  BY <1>1 DEF History
<1>4. [a \in Aliases |-> LiveRows(a) # {}] = Resolves(secrets)
  BY <1>2 DEF Resolves
<1> QED
  BY <1>3, <1>4

\* The promise's actions, on the tables before and after a step
Creates(S, T, A, w) ==
  /\ \A a \in A : Hist(S, a) = <<>>
  /\ \A a \in Aliases : Hist(T, a) = IF a \in A THEN <<w>> ELSE Hist(S, a)
  /\ \A a \in Aliases : IsLive(T, a) <=> a \in A \/ IsLive(S, a)

Supersedes(S, T, a, w) ==
  /\ Hist(S, a) # <<>> /\ Hist(T, a) = Append(Hist(S, a), w) /\ IsLive(T, a)
  /\ \A b \in Aliases \ {a} : Hist(T, b) = Hist(S, b) /\ (IsLive(T, b) <=> IsLive(S, b))

Retires(S, T, a) ==
  /\ IsLive(S, a) /\ ~IsLive(T, a)
  /\ \A b \in Aliases : Hist(T, b) = Hist(S, b)
  /\ \A b \in Aliases \ {a} : IsLive(T, b) <=> IsLive(S, b)

Same(S, T) ==
  \A b \in Aliases : Hist(T, b) = Hist(S, b) /\ (IsLive(T, b) <=> IsLive(S, b))

\* Inserting first versions creates the secrets.
LEMMA InsertCreates ==
  ASSUME IInv, IInv', NEW r \in Requests, Inserts(r)
  PROVE  Creates(secrets, secrets', target[r], r)
<1> DEFINE N == {FirstVersion(a, r) : a \in target[r]}
<1>1. secrets' = secrets \cup N
  BY DEF Inserts
<1>2. \A x \in N : x.alias \in target[r] /\ x.version = 1 /\ x.writer = r /\ x.live
  BY DEF FirstVersion
<1>3. \A a \in target[r] : \E x \in N : x.alias = a
  <2>1. \A a \in target[r] : FirstVersion(a, r) \in N /\ FirstVersion(a, r).alias = a
    BY DEF FirstVersion
  <2> QED
    BY <2>1
<1> HIDE DEF N
<1>4. \A x \in secrets : x.alias \notin target[r]
  <2> SUFFICES ASSUME NEW x \in secrets, x.alias \in target[r] PROVE FALSE
    OBVIOUS
  <2>1. 1 \in 1..x.version
    BY DEF IInv, TypeOK, Rows
  <2> QED
    BY <2>1 DEF IInv, TableOK, NoGap, Inserts, Conflict, RowsOf
<1>5. UniqueVersions(secrets) /\ UniqueVersions(secrets')
  BY DEF IInv, TableOK, UniqueVersions
<1>6. ASSUME NEW a \in target[r]
      PROVE  Hist(secrets, a) = <<>> /\ Hist(secrets', a) = <<r>> /\ IsLive(secrets', a)
  <2>1. InAlias(secrets, a) = {}
    BY <1>4 DEF InAlias
  <2>2. PICK n \in N : n.alias = a
    BY <1>3
  <2>3. n \in secrets' /\ n.version = 1 /\ n.writer = r /\ n.live
    BY <1>1, <1>2, <2>2
  <2>4. \A x \in secrets' : x.alias = n.alias => x.version <= n.version
    BY <1>1, <1>2, <1>4, <2>2, <2>3
  <2>5. /\ Hist(secrets', a) \in Seq(Requests) /\ Len(Hist(secrets', a)) = 1
    <3> DEFINE T == secrets'
    <3>1. T \subseteq Rows /\ TableOK(T)
      BY DEF IInv, TypeOK, TableOK, UniqueIds, UniqueVersions, NoGap, OldDeleted, Linked
    <3>2. n \in T /\ \A x \in T : x.alias = n.alias => x.version <= n.version
      BY <2>3, <2>4
    <3> HIDE DEF T
    <3>3. Hist(T, a) \in Seq(Requests) /\ Len(Hist(T, a)) = 1
      BY <3>1, <3>2, <2>2, <2>3, HistSequence
    <3> QED
      BY <3>3 DEF T
  <2>6. Hist(secrets', a)[1] = r
    BY <1>5, <2>2, <2>3, HistAt
  <2>7. Hist(secrets', a) = <<r>>
    BY <2>5, <2>6
  <2>8. IsLive(secrets', a)
    BY <2>2, <2>3 DEF IsLive, InAlias
  <2> QED
    BY <2>1, <2>7, <2>8, HistEmpty
<1>7. ASSUME NEW a \in Aliases \ target[r]
      PROVE  Hist(secrets', a) = Hist(secrets, a) /\ (IsLive(secrets', a) <=> IsLive(secrets, a))
  <2>1. InAlias(secrets', a) = InAlias(secrets, a)
    BY <1>1, <1>2, <1>7 DEF InAlias
  <2> QED
    BY <2>1 DEF Hist, IsLive
<1> QED
  BY <1>6, <1>7 DEF Creates

\* An UPDATE of live, interval and next leaves the histories as they are.
LEMMA UpdateKeepsHistory ==
  ASSUME NEW S, NEW T, TableOK(S), TableOK(T), Updated(S, T)
  PROVE  \A a \in Aliases : Hist(T, a) = Hist(S, a)
<1> SUFFICES ASSUME NEW a \in Aliases PROVE Hist(T, a) = Hist(S, a)
  OBVIOUS
<1>1. SameIn(S, T, a) /\ SameIn(T, S, a)
  BY DEF SameIn, InAlias, SameId, Updated
<1> QED
  BY <1>1, HistEqual DEF TableOK

\* A rotation appends the value of its request to the history it has read.
LEMMA RotateSupersedes ==
  ASSUME IInv, IInv', NEW r \in Requests, Rotates(r)
  PROVE  /\ snap[r].alias \in Aliases
         /\ Supersedes(secrets, secrets', snap[r].alias, r)
         /\ Len(Hist(secrets, snap[r].alias)) = snap[r].version
<1> DEFINE old == {x \in secrets : SameId(x, snap[r])}
           M == (secrets \ old) \cup MarkDeleted(old)
           n == NextVersion(snap[r], r)
           T == secrets'
<1>1. T = M \cup {n}
  BY DEF Rotates
<1>2. secrets \subseteq Rows /\ TableOK(secrets)
  BY DEF IInv, TypeOK
<1>3. T \subseteq Rows /\ TableOK(T)
  BY DEF IInv, TypeOK, TableOK, UniqueIds, UniqueVersions, NoGap, OldDeleted, Linked
<1>4. Updated(secrets, M)
  <2>1. old \in SUBSET secrets
    OBVIOUS
  <2> HIDE DEF old
  <2> QED
    BY <1>2, <2>1, MarkDeletedUpdates
<1>5. PICK p \in secrets : SameId(p, snap[r]) /\ p.version = snap[r].version
  BY DEF Rotates, IInv, SnapInTable
<1>6. p \in Rows /\ p.alias \in Aliases /\ p.version \in Nat \ {0}
  BY <1>2 DEF Rows
<1>7. /\ n.alias = p.alias /\ n.version = p.version + 1 /\ n.writer = r /\ n.live
  BY <1>5 DEF NextVersion, SameId
<1>8. \A x \in secrets : x.alias = p.alias => x.version <= p.version
  <2> SUFFICES ASSUME NEW x \in secrets, x.alias = p.alias, ~(x.version <= p.version)
               PROVE  FALSE
    OBVIOUS
  <2>1. p.version + 1 \in 1..x.version
    BY <1>2, <1>6 DEF Rows
  <2>2. \E y \in secrets : y.alias = p.alias /\ y.version = p.version + 1
    BY <1>2, <2>1 DEF TableOK, NoGap
  <2>3. ~ \E y \in secrets : y.alias = p.alias /\ y.version = p.version + 1
    BY <1>5 DEF Rotates, Conflict, RowsOf, SameId
  <2> QED
    BY <2>2, <2>3
<1>9. \A x \in secrets : x.alias # p.alias => x \in T
  BY <1>1, <1>5 DEF SameId
<1>10. \A y \in T : y.alias # p.alias => y \in secrets
  <2> SUFFICES ASSUME NEW y \in T, y.alias # p.alias PROVE y \in secrets
    OBVIOUS
  <2>1. y \in M
    BY <1>1, <1>7
  <2>2. \A x \in old : [x EXCEPT !.live = FALSE].alias = p.alias
    BY <1>2, <1>5 DEF SameId, Rows
  <2> HIDE DEF old
  <2>3. \A z \in MarkDeleted(old) : z.alias = p.alias
    BY <2>2 DEF MarkDeleted
  <2> QED
    BY <2>1, <2>3
<1> HIDE DEF M, n, old
<1>11. SameIn(secrets, T, p.alias)
  BY <1>1, <1>4 DEF SameIn, InAlias, Updated, SameId
<1>12. \A y \in T : y.alias = p.alias =>
         y = n \/ \E x \in secrets : SameId(y, x) /\ y.version = x.version
  BY <1>1, <1>4 DEF Updated, SameId
<1>13. n \in T
  BY <1>1
<1> HIDE DEF T
<1>14. Hist(T, p.alias) = Append(Hist(secrets, p.alias), r)
  BY <1>2, <1>3, <1>7, <1>8, <1>11, <1>12, <1>13, HistAppend
<1>15. Hist(secrets, p.alias) # <<>>
  BY <1>2, <1>6, <1>8, HistSequence
<1>16. IsLive(T, p.alias)
  BY <1>7, <1>13 DEF IsLive, InAlias
<1>17. ASSUME NEW b \in Aliases \ {p.alias}
       PROVE  Hist(T, b) = Hist(secrets, b) /\ (IsLive(T, b) <=> IsLive(secrets, b))
  <2>1. InAlias(T, b) = InAlias(secrets, b)
    BY <1>9, <1>10, <1>17 DEF InAlias
  <2> QED
    BY <2>1 DEF Hist, IsLive
<1>18. Supersedes(secrets, T, p.alias, r)
  BY <1>14, <1>15, <1>16, <1>17 DEF Supersedes
<1>19. Len(Hist(secrets, p.alias)) = p.version
  BY <1>2, <1>8, HistSequence
<1>20. snap[r].alias = p.alias
  BY <1>5 DEF SameId
<1> QED
  BY <1>5, <1>6, <1>18, <1>19, <1>20 DEF T

\* A delete retires its secret.
LEMMA DeleteRetires ==
  ASSUME IInv, IInv', NEW r \in Requests, PositionOK(r), Deletes(r)
  PROVE  \E a \in Aliases : Retires(secrets, secrets', a)
<1> DEFINE gone == {x \in secrets : x.alias \in target[r] /\ x.live}
           T == secrets'
<1>1. gone # {} /\ T = (secrets \ gone) \cup MarkDeleted(gone) /\ gone \in SUBSET secrets
  BY DEF Deletes
<1>2. secrets \subseteq Rows /\ TableOK(secrets)
  BY DEF IInv, TypeOK
<1>3. T \subseteq Rows /\ TableOK(T)
  BY DEF IInv, TypeOK, TableOK, UniqueIds, UniqueVersions, NoGap, OldDeleted, Linked
<1>4. PICK a \in Aliases : target[r] = {a}
  BY DEF Deletes, PositionOK
<1>5. \A x \in secrets : x \in gone <=> x.alias = a /\ x.live
  BY <1>4
<1> HIDE DEF gone, T
<1>6. Updated(secrets, T)
  BY <1>1, <1>2, MarkDeletedUpdates
<1>7. \A x \in gone : [x EXCEPT !.live = FALSE].alias = a
                      /\ [x EXCEPT !.live = FALSE].live = FALSE
  BY <1>1, <1>2, <1>5 DEF Rows
<1>8. \A b \in Aliases : Hist(T, b) = Hist(secrets, b)
  BY <1>2, <1>3, <1>6, UpdateKeepsHistory
<1>9. IsLive(secrets, a)
  BY <1>1, <1>5 DEF IsLive, InAlias
<1>10. ~IsLive(T, a)
  BY <1>1, <1>5, <1>7 DEF IsLive, InAlias, MarkDeleted
<1>11. ASSUME NEW b \in Aliases \ {a} PROVE IsLive(T, b) <=> IsLive(secrets, b)
  <2>1. \A y \in MarkDeleted(gone) : y.alias = a
    BY <1>7 DEF MarkDeleted
  <2>2. InAlias(T, b) = InAlias(secrets, b)
    BY <1>1, <1>5, <1>11, <2>1 DEF InAlias
  <2> QED
    BY <2>2 DEF IsLive
<1>12. Retires(secrets, T, a)
  BY <1>8, <1>9, <1>10, <1>11 DEF Retires
<1> QED
  BY <1>12 DEF T

\* A policy change is not visible to a reader.
LEMMA PolicyIsInvisible ==
  ASSUME IInv, IInv', NEW r \in Requests, SetsPolicy(r)
  PROVE  Same(secrets, secrets')
<1> DEFINE row == {x \in secrets : SameId(x, snap[r])}
           T == secrets'
<1>1. PICK d \in Intervals : T = (secrets \ row) \cup SetPolicy(row, d)
  BY DEF SetsPolicy
<1>2. secrets \subseteq Rows /\ TableOK(secrets)
  BY DEF IInv, TypeOK
<1>3. T \subseteq Rows /\ TableOK(T)
  BY DEF IInv, TypeOK, TableOK, UniqueIds, UniqueVersions, NoGap, OldDeleted, Linked
<1>4. row \in SUBSET secrets
  OBVIOUS
<1> HIDE DEF row, T
<1>5. Updated(secrets, T)
  BY <1>1, <1>2, <1>4, PolicyUpdates
<1>6. \A x \in row : /\ [x EXCEPT !.interval = d, !.next = d].alias = x.alias
                     /\ [x EXCEPT !.interval = d, !.next = d].live = x.live
                     /\ [x EXCEPT !.interval = d, !.next = d] \in T
  BY <1>1, <1>2, <1>4 DEF Rows, SetPolicy
<1>7. \A b \in Aliases : Hist(T, b) = Hist(secrets, b)
  BY <1>2, <1>3, <1>5, UpdateKeepsHistory
<1>8. \A b \in Aliases : IsLive(secrets, b) => IsLive(T, b)
  BY <1>1, <1>6 DEF IsLive, InAlias
<1>9. \A b \in Aliases : IsLive(T, b) => IsLive(secrets, b)
  BY <1>5 DEF IsLive, InAlias, Updated
<1> QED
  BY <1>7, <1>8, <1>9 DEF Same, T

----------------------------------------------------------------------------
(* The rotations under way *)

InHand(r) == op[r] = "rotate" /\ pc[r] \in {"dek", "write"}

Held(r) == <<snap[r].alias, snap[r].version, r>>

\* What a step of r does to the rotations under way is what it does to its own.
LEMMA RotatingStep ==
  ASSUME NEW r \in Requests, Frame(r)
  PROVE  /\ InHand(r) <=> Held(r) \in Rotating
         /\ ~InHand(r)' => Rotating' = Rotating \ {Held(r)}
         /\ ~InHand(r) /\ InHand(r)' => Rotating' = Rotating \cup {Held(r)'}
         /\ InHand(r) /\ InHand(r)' /\ Held(r)' = Held(r) => Rotating' = Rotating
<1>1. \A t : t \in Rotating <=> \E q \in Requests : InHand(q) /\ t = Held(q)
  BY DEF Rotating, InHand, Held
<1>2. \A t : t \in Rotating' <=> \E q \in Requests : InHand(q)' /\ t = Held(q)'
  BY DEF Rotating, InHand, Held
<1>3. \A q \in Requests \ {r} : (InHand(q)' <=> InHand(q)) /\ Held(q)' = Held(q)
  BY DEF Frame, InHand, Held
<1>4. \A q \in Requests \ {r} : Held(q) # Held(r) /\ Held(q)' # Held(r)'
  BY DEF Held
<1>5. InHand(r) <=> Held(r) \in Rotating
  BY <1>1, <1>4
<1>6. ASSUME ~InHand(r)' PROVE Rotating' = Rotating \ {Held(r)}
  <2>1. \A t : t \in Rotating' <=> t \in Rotating /\ t # Held(r)
    BY <1>1, <1>2, <1>3, <1>4, <1>6
  <2> QED
    BY <2>1
<1>7. ASSUME ~InHand(r), InHand(r)' PROVE Rotating' = Rotating \cup {Held(r)'}
  <2>1. \A t : t \in Rotating' <=> t \in Rotating \/ t = Held(r)'
    BY <1>1, <1>2, <1>3, <1>7
  <2> QED
    BY <2>1
<1>8. ASSUME InHand(r), InHand(r)', Held(r)' = Held(r) PROVE Rotating' = Rotating
  <2>1. \A t : t \in Rotating' <=> t \in Rotating
    BY <1>1, <1>2, <1>3, <1>8
  <2> QED
    BY <2>1
<1> QED
  BY <1>5, <1>6, <1>7, <1>8

\* What a rotation of a by w is known by while it is under way
Mine(a, w) == <<a, Len(Hist(secrets, a)), w>>

\* A rotation begins with the last value of a secret that resolves.
LEMMA FetchBegins ==
  ASSUME IInv, NEW r \in Requests, Frame(r), Fetched(r), op[r] = "rotate"
  PROVE  \E a \in Aliases : /\ IsLive(secrets, a)
                            /\ Rotating' = Rotating \cup {Mine(a, r)}
<1>1. PICK a \in target[r], x \in secrets : IsNewestLive(x, a) /\ snap'[r] = x
  BY DEF Fetched
<1>2. secrets \subseteq Rows /\ TableOK(secrets)
  BY DEF IInv, TypeOK
<1>3. x.alias = a /\ x.live /\ a \in Aliases /\ x.version \in Nat
  BY <1>1, <1>2 DEF IsNewestLive, LiveRows, RowsOf, Rows
<1>4. \A y \in secrets : y.alias = x.alias => y.version <= x.version
  <2> SUFFICES ASSUME NEW y \in secrets, y.alias = x.alias, ~(y.version <= x.version)
               PROVE  FALSE
    OBVIOUS
  <2>1. x.version < y.version
    BY <1>2 DEF Rows
  <2> QED
    BY <1>2, <1>3, <2>1 DEF TableOK, OldDeleted
<1>5. Len(Hist(secrets, a)) = x.version
  BY <1>2, <1>3, <1>4, HistSequence
<1>6. ~InHand(r) /\ InHand(r)' /\ Held(r)' = Mine(a, r)
  BY <1>1, <1>3, <1>5 DEF Fetched, Keeps, InHand, Held, Mine
<1>7. Rotating' = Rotating \cup {Mine(a, r)}
  BY <1>6, RotatingStep
<1>8. IsLive(secrets, a)
  BY <1>3 DEF IsLive, InAlias
<1> QED
  BY <1>3, <1>7, <1>8

\* A step which leaves the table alone begins a rotation or goes on with those
\* under way.
LEMMA QuietSteps ==
  ASSUME IInv, NEW r \in Requests, PositionOK(r), Frame(r), Steps(r), UNCHANGED secrets
  PROVE  \/ Rotating' \subseteq Rotating
         \/ \E a \in Aliases : /\ IsLive(secrets, a)
                               /\ Rotating' = Rotating \cup {Mine(a, r)}
<1>1. CASE Fetched(r) /\ op[r] = "rotate"
  BY <1>1, FetchBegins
<1>2. CASE GoesOn(r) /\ pc[r] = "dek" /\ op[r] = "rotate"
  <2>1. InHand(r) /\ InHand(r)' /\ Held(r)' = Held(r)
    BY <1>2 DEF GoesOn, Waits, Keeps, InHand, Held
  <2> QED
    BY <2>1, RotatingStep
<1>3. CASE ~(Fetched(r) /\ op[r] = "rotate") /\ ~(GoesOn(r) /\ pc[r] = "dek" /\ op[r] = "rotate")
  <2>1. ~InHand(r)'
    BY <1>3 DEF Steps, Arrived, Refused, GoesOn, Fetched, Owes, Listed, Audited, Waits,
                Keeps, InHand, Listings
  <2> QED
    BY <2>1, RotatingStep
<1> QED
  BY <1>1, <1>2, <1>3

\* Every step takes an action of the promise or leaves its variables alone.
LEMMA StepMaps ==
  ASSUME HInv, IInv', [Next]_vars
  PROVE  \/ Same(secrets, secrets') /\ Rotating' \subseteq Rotating
         \/ \E a \in Aliases, w \in Requests :
              /\ Same(secrets, secrets') /\ IsLive(secrets, a)
              /\ Rotating' = Rotating \cup {Mine(a, w)}
         \/ \E A \in (SUBSET Aliases) \ {{}}, w \in Requests :
              Creates(secrets, secrets', A, w) /\ Rotating' = Rotating
         \/ \E a \in Aliases, w \in Requests :
              /\ Supersedes(secrets, secrets', a, w)
              /\ Mine(a, w) \in Rotating /\ Rotating' = Rotating \ {Mine(a, w)}
         \/ \E a \in Aliases : Retires(secrets, secrets', a) /\ Rotating' = Rotating
<1>1. IInv
  BY DEF HInv
<1>2. ASSUME NEW r \in Requests, Serve(r), UNCHANGED secrets
      PROVE  \/ Same(secrets, secrets') /\ Rotating' \subseteq Rotating
             \/ \E a \in Aliases, w \in Requests :
                  /\ Same(secrets, secrets') /\ IsLive(secrets, a)
                  /\ Rotating' = Rotating \cup {Mine(a, w)}
  <2>1. PositionOK(r)
    BY DEF HInv, Handlers
  <2>2. Frame(r) /\ Steps(r)
    BY <1>1, <1>2, <2>1, ServeFrame, ServeSteps DEF IInv, Steps
  <2>3. Same(secrets, secrets')
    BY <1>2 DEF Same
  <2> QED
    BY <1>1, <1>2, <2>1, <2>2, <2>3, QuietSteps
<1>3. ASSUME NEW r \in Requests, Serve(r), OweAudit(r, target[r]), UNCHANGED <<op, snap>>,
             Inserts(r) \/ Rotates(r) \/ Deletes(r) \/ SetsPolicy(r)
      PROVE  \/ Same(secrets, secrets') /\ Rotating' \subseteq Rotating
             \/ \E A \in (SUBSET Aliases) \ {{}}, w \in Requests :
                  Creates(secrets, secrets', A, w) /\ Rotating' = Rotating
             \/ \E a \in Aliases, w \in Requests :
                  /\ Supersedes(secrets, secrets', a, w)
                  /\ Mine(a, w) \in Rotating /\ Rotating' = Rotating \ {Mine(a, w)}
             \/ \E a \in Aliases : Retires(secrets, secrets', a) /\ Rotating' = Rotating
  <2>1. PositionOK(r)
    BY DEF HInv, Handlers
  <2>2. Frame(r)
    BY <1>1, <1>3, ServeFrame DEF IInv
  <2>3. ~InHand(r)'
    BY <1>1, <1>3 DEF OweAudit, Goto, InHand, IInv, TypeOK
  <2>4. Rotating' = Rotating \ {Held(r)}
    BY <2>2, <2>3, RotatingStep
  <2>5. ~Rotates(r) => Rotating' = Rotating
    <3>1. ~Rotates(r) => ~InHand(r)
      BY <1>3 DEF Inserts, Deletes, SetsPolicy, InHand
    <3>2. ~InHand(r) => Held(r) \notin Rotating
      BY <2>2, RotatingStep
    <3> QED
      BY <2>4, <3>1, <3>2
  <2>6. Inserts(r) \/ Deletes(r) \/ SetsPolicy(r) => ~Rotates(r)
    BY DEF Inserts, Deletes, SetsPolicy, Rotates
  <2>7. CASE Inserts(r)
    <3>1. target[r] \in (SUBSET Aliases) \ {{}}
      BY <1>1, <2>1, <2>7 DEF IInv, TypeOK, PositionOK, Inserts
    <3> QED
      BY <1>1, <2>5, <2>6, <2>7, <3>1, InsertCreates
  <2>8. CASE Rotates(r)
    <3> DEFINE a == snap[r].alias
    <3>1. a \in Aliases /\ Supersedes(secrets, secrets', a, r) /\ Mine(a, r) = Held(r)
      BY <1>1, <2>8, RotateSupersedes DEF Mine, Held
    <3>2. InHand(r)
      BY <2>8 DEF Rotates, InHand
    <3>3. Mine(a, r) \in Rotating /\ Rotating' = Rotating \ {Mine(a, r)}
      BY <2>2, <2>4, <3>1, <3>2, RotatingStep
    <3> HIDE DEF a
    <3> QED
      BY <3>1, <3>3
  <2>9. CASE Deletes(r)
    BY <1>1, <2>1, <2>5, <2>6, <2>9, DeleteRetires
  <2>10. CASE SetsPolicy(r)
    BY <1>1, <2>5, <2>6, <2>10, PolicyIsInvisible
  <2> QED
    BY <1>3, <2>7, <2>8, <2>9, <2>10
<1>4. CASE \E r \in Requests : Serve(r)
  BY <1>2, <1>3, <1>4, TableSteps
<1>5. CASE DeleteProject \/ Restart \/ UNCHANGED vars
  <2>1. Same(secrets, secrets')
    BY <1>5 DEF DeleteProject, Restart, vars, Same
  <2>2. \A q \in Requests : InHand(q)' => InHand(q) /\ Held(q)' = Held(q)
    BY <1>5 DEF DeleteProject, request, Restart, vars, InHand, Held
  <2>3. Rotating' \subseteq Rotating
    BY <2>2 DEF Rotating, InHand, Held
  <2> QED
    BY <2>1, <2>3
<1> QED
  BY <1>4, <1>5 DEF Next

\* The table and its racing handlers implement the promise, whatever creates,
\* batches, rotates, deletes and crashes overlap: each secret has a history that
\* only grows at its end, a value is added behind the one its writer has read,
\* and a deleted secret stays deleted unless a rotation had read it before.
THEOREM StoreImplementsPromise == Spec => ImplementsVersionedSecrets
<1> DEFINE H == [a \in Aliases |-> HistoryOf(a)]
           L == [a \in Aliases |-> LiveRows(a) # {}]
<1>1. Init => Abstract!Init
  <2> SUFFICES ASSUME Init PROVE Abstract!Init
    OBVIOUS
  <2>1. \A a \in Aliases : Hist(secrets, a) = <<>> /\ ~IsLive(secrets, a)
    <3>1. \A a \in Aliases : InAlias(secrets, a) = {}
      BY DEF Init, InAlias
    <3> QED
      BY <3>1, HistEmpty DEF IsLive
  <2>2. /\ History(secrets) = [a \in Aliases |-> <<>>]
        /\ Resolves(secrets) = [a \in Aliases |-> FALSE]
        /\ Rotating = {}
    <3>1. \A a \in Aliases : IsLive(secrets, a) = FALSE
      BY <2>1
    <3>2. Resolves(secrets) = [a \in Aliases |-> FALSE]
      BY <3>1 DEF Resolves
    <3>3. History(secrets) = [a \in Aliases |-> <<>>]
      BY <2>1 DEF History
    <3>4. Rotating = {}
      BY DEF Init, Rotating
    <3> QED
      BY <3>2, <3>3, <3>4
  <2> QED
    BY <2>2, Mapping DEF Abstract!Init
<1>2. HInv /\ HInv' /\ [Next]_vars => [Abstract!Next]_(Abstract!vars)
  <2> SUFFICES ASSUME HInv, HInv', [Next]_vars
               PROVE  Abstract!Next
    BY DEF Abstract!vars
  <2>0. IInv'
    BY DEF HInv
  <2>1. H = History(secrets) /\ L = Resolves(secrets)
    BY Mapping
  <2>2. H' = History(secrets') /\ L' = Resolves(secrets')
    <3>1. (H = History(secrets) /\ L = Resolves(secrets))'
      BY Mapping, PTL
    <3> QED
      BY <3>1 DEF History, Resolves, Hist, IsLive, InAlias
  <2>3. Same(secrets, secrets') => H' = H /\ L' = L
    BY <2>1, <2>2 DEF Same, History, Resolves
  <2> HIDE DEF H, L
  <2>4. \A b \in Aliases : /\ H[b] = Hist(secrets, b) /\ H'[b] = Hist(secrets', b)
                            /\ L[b] = IsLive(secrets, b) /\ L'[b] = IsLive(secrets', b)
    BY <2>1, <2>2 DEF History, Resolves
  <2>5. ASSUME NEW A \in (SUBSET Aliases) \ {{}}, NEW w \in Requests,
               Creates(secrets, secrets', A, w), Rotating' = Rotating
        PROVE  Abstract!Create(A, w)
    <3>1. \A a \in A : H[a] = <<>>
      BY <2>4, <2>5 DEF Creates
    <3>2. H' = [a \in Aliases |-> IF a \in A THEN <<w>> ELSE H[a]]
      BY <2>2, <2>4, <2>5 DEF Creates, History
    <3>3. L' = [a \in Aliases |-> a \in A \/ L[a]]
      <4>1. \A b \in Aliases : IsLive(secrets', b) = (b \in A \/ IsLive(secrets, b))
        BY <2>5 DEF Creates, IsLive
      <4>2. L' = [b \in Aliases |-> L'[b]] /\ L = [b \in Aliases |-> L[b]]
        BY <2>1, <2>2 DEF Resolves
      <4> QED
        BY <2>4, <4>1, <4>2
    <3> QED
      BY <2>5, <3>1, <3>2, <3>3 DEF H, L, Abstract!Create
  <2>6. ASSUME NEW a \in Aliases, NEW w \in Requests,
               Supersedes(secrets, secrets', a, w),
               Mine(a, w) \in Rotating, Rotating' = Rotating \ {Mine(a, w)}
        PROVE  Abstract!Supersede(a, w)
    <3>1. Mine(a, w) = <<a, Len(H[a]), w>>
      BY <2>4 DEF Mine
    <3>2. H' = [H EXCEPT ![a] = Append(H[a], w)]
      BY <2>1, <2>2, <2>4, <2>6 DEF Supersedes, History
    <3>3. L' = [L EXCEPT ![a] = TRUE]
      <4>1. \A b \in Aliases : IsLive(secrets', b) = IF b = a THEN TRUE ELSE IsLive(secrets, b)
        BY <2>6 DEF Supersedes, IsLive
      <4>2. L' = [b \in Aliases |-> L'[b]] /\ L = [b \in Aliases |-> L[b]]
        BY <2>1, <2>2 DEF Resolves
      <4>3. \A b \in Aliases : L'[b] = IF b = a THEN TRUE ELSE L[b]
        BY <2>4, <4>1
      <4> QED
        BY <4>2, <4>3
    <3> QED
      BY <2>6, <3>1, <3>2, <3>3 DEF H, L, Abstract!Supersede
  <2>7. ASSUME NEW a \in Aliases, Retires(secrets, secrets', a), Rotating' = Rotating
        PROVE  Abstract!Retire(a)
    <3>1. L[a]
      BY <2>4, <2>7 DEF Retires
    <3>2. H' = H
      BY <2>1, <2>2, <2>7 DEF Retires, History
    <3>3. L' = [L EXCEPT ![a] = FALSE]
      <4>1. \A b \in Aliases : IsLive(secrets', b) = IF b = a THEN FALSE ELSE IsLive(secrets, b)
        BY <2>7 DEF Retires, IsLive
      <4>2. L' = [b \in Aliases |-> L'[b]] /\ L = [b \in Aliases |-> L[b]]
        BY <2>1, <2>2 DEF Resolves
      <4> QED
        BY <2>4, <4>1, <4>2
    <3> QED
      BY <2>7, <3>1, <3>2, <3>3 DEF H, L, Abstract!Retire
  <2>8. ASSUME Same(secrets, secrets'), Rotating' \subseteq Rotating
        PROVE  Abstract!Abandon
    BY <2>3, <2>8 DEF H, L, Abstract!Abandon
  <2>9. ASSUME NEW a \in Aliases, NEW w \in Requests, Same(secrets, secrets'),
               IsLive(secrets, a), Rotating' = Rotating \cup {Mine(a, w)}
        PROVE  Abstract!Begin(a, w)
    <3>1. Mine(a, w) = <<a, Len(H[a]), w>> /\ L[a]
      BY <2>4, <2>9 DEF Mine
    <3> QED
      BY <2>3, <2>9, <3>1 DEF H, L, Abstract!Begin
  <2> QED
    BY <2>0, <2>5, <2>6, <2>7, <2>8, <2>9, StepMaps DEF Abstract!Next
<1> QED
  BY <1>1, <1>2, HandlersInvariance, PTL DEF Spec, ImplementsVersionedSecrets, Abstract!Spec
=============================================================================
