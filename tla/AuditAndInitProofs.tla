------------------------- MODULE AuditAndInitProofs -------------------------
(***************************************************************************)
(* Proofs about two components that have nothing to do with each other:    *)
(* the audit log (AuditLog and AuditReading, the first part) and keynv     *)
(* init (VaultKeys and InitMigration, the second).                         *)
(*                                                                         *)
(* The audit log: while nobody bypasses the server the table is one chain  *)
(* and no walk raises a false alarm; an answer "ok" speaks for every row   *)
(* that was there when the walk began; and a reader that turns the pages   *)
(* is shown every entry, once.  The inductive invariant of a walk says     *)
(* where it stands: its cursor is a row (or 0), its tail is the hash of    *)
(* that row, every row up to the cursor follows from the ones before it,   *)
(* and the table it began with is a prefix of the table.  That of a reader *)
(* says up to which id its screen is filled: its cursor, or the end of the *)
(* table at its last request.                                              *)
(*                                                                         *)
(* keynv init: an alias in a mapping means the value the .env file said,   *)
(* nothing that may be a secret is committed unasked, and what a .env file *)
(* said is kept.  First what planVaultKeys makes of any files: the entries *)
(* of a plan stand in a strict total order, so that "the first" and the    *)
(* numbers exist, and entries of one key have one value.  Then the steps:  *)
(* the invariant says of each step of the process what is stored already,  *)
(* what is still to be written and what has its mapping (MigrationInv),    *)
(* and that the stored keys have the plan's values (PlanMeans).            *)
(***************************************************************************)
EXTENDS AuditReading, InitMigration,
        SequenceTheorems, FiniteSetTheorems, WellFoundedInduction, TLAPS

Cells == Row \cup {Null}

\* The rows of a table up to id c
UpTo(c, t) == {i \in Live(t) : i <= c}

\* Nothing is removed and each row follows from the one before.
Linear ==
  edits = 0 =>
    \A i \in 1..Len(audit) :
      /\ audit[i] # Null
      /\ audit[i].prev = IF i = 1 THEN GENESIS_HASH ELSE audit[i - 1].hash
      /\ \E k \in Keys \cup {Keyless} :
           audit[i].hash = ComputeHash(k, audit[i].prev, audit[i].event)

\* Where the walk stands
Cursor(w) ==
  \/ cursor[w] = 0 /\ tail[w] = GENESIS_HASH
  \/ cursor[w] \in Live(audit) /\ tail[w] = audit[cursor[w]].hash

\* What it has checked
Checked(w) ==
  /\ \A i \in UpTo(cursor[w], audit) : RowFollows(i, key, audit)
  /\ total[w] = Cardinality(UpTo(cursor[w], audit))

\* The table it began with is still there.
Extends(w) ==
  /\ Len(base[w].table) <= Len(audit)
  /\ \A i \in 1..Len(base[w].table) : audit[i] = base[w].table[i]

WalkOK(w) ==
  /\ base[w].edits <= edits
  /\ reply[w] = "none" => cursor[w] = 0 /\ tail[w] = GENESIS_HASH /\ total[w] = 0
  /\ reply[w] = "running" /\ base[w].edits = edits
       => Cursor(w) /\ Checked(w) /\ Extends(w)

WalkInv == \A w \in Walks : WalkOK(w)

IInv == TypeOK /\ Linear /\ WalkInv

----------------------------------------------------------------------------
(* Lemmas about tables *)

\* A table is a function from ids to cells.
LEMMA TableShape ==
  ASSUME NEW t \in Seq(Cells)
  PROVE  /\ Len(t) \in Nat
         /\ DOMAIN t = 1..Len(t)
         /\ Live(t) = {i \in 1..Len(t) : t[i] # Null}
         /\ Live(t) \subseteq 1..Len(t)
         /\ \A i \in Live(t) : t[i] \in Row
BY LenProperties DEF Live, Cells

\* If row c is the last one before id i, HashBefore gives its hash.
LEMMA HashBeforeIs ==
  ASSUME NEW t \in Seq(Cells), NEW i \in Nat, NEW c \in Live(t), c < i,
         \A j \in Live(t) : j < i => j <= c
  PROVE  HashBefore(i, t) = t[c].hash
<1>1. Before(i, t) = {c}
  BY TableShape DEF Before
<1> QED
  BY <1>1 DEF HashBefore

\* If no row is before id i, HashBefore gives GENESIS_HASH.
LEMMA HashBeforeFirst ==
  ASSUME NEW t, NEW i, \A j \in Live(t) : ~(j < i)
  PROVE  HashBefore(i, t) = GENESIS_HASH
BY DEF HashBefore, Before

\* HashBefore(i, t) depends on nothing that comes at id i or later.
LEMMA HashBeforeLocal ==
  ASSUME NEW t \in Seq(Cells), NEW u \in Seq(Cells), NEW n \in Nat,
         n <= Len(t), n <= Len(u), \A j \in 1..n : t[j] = u[j],
         NEW i \in 1..(n + 1)
  PROVE  HashBefore(i, t) = HashBefore(i, u)
<1>1. \A j \in Nat : j < i => (j \in Live(t) <=> j \in Live(u))
  BY TableShape
<1>2. \A j \in Live(t) \cup Live(u) : j \in Nat
  BY TableShape
<1>3. Before(i, t) = Before(i, u)
  BY <1>1, <1>2 DEF Before
<1>4. CASE Before(i, t) = {}
  BY <1>3, <1>4 DEF HashBefore
<1>5. CASE Before(i, t) # {}
  <2> DEFINE b == CHOOSE j \in Before(i, t) : TRUE
  <2>1. b \in Before(i, t)
    BY <1>5
  <2>2. b \in 1..n
    BY <2>1, TableShape DEF Before
  <2> QED
    BY <1>3, <1>5, <2>2 DEF HashBefore
<1> QED
  BY <1>4, <1>5
----------------------------------------------------------------------------
(* Typing *)

\* The hash of a row is a hash.
LEMMA HashBeforeType ==
  ASSUME NEW t \in Seq(Cells), NEW i \in Nat
  PROVE  HashBefore(i, t) \in Hashes
<1>1. CASE Before(i, t) = {}
  <2>1. GENESIS_HASH \in Hashes
    BY EmptySeq DEF GENESIS_HASH, Hashes
  <2> QED
    BY <1>1, <2>1 DEF HashBefore
<1>2. CASE Before(i, t) # {}
  <2> DEFINE b == CHOOSE j \in Before(i, t) : TRUE
  <2>1. b \in Before(i, t)
    BY <1>2
  <2>2. b \in Live(t)
    BY <2>1 DEF Before
  <2>3. t[b] \in Row
    BY <2>2, TableShape
  <2> QED
    BY <1>2, <2>3 DEF HashBefore, Row
<1> QED
  BY <1>1, <1>2

\* The row that appendAudit inserts is a row.
LEMMA NewRowType ==
  ASSUME TypeOK, NEW event \in Events
  PROVE  [prev |-> LastHash, event |-> event,
          hash |-> ComputeHash(key, LastHash, event)] \in Row
<1>1. LastHash \in Hashes
  <2>1. audit \in Seq(Cells)
    BY DEF TypeOK, Cells
  <2>2. Len(audit) + 1 \in Nat
    BY <2>1, LenProperties
  <2> QED
    BY <2>1, <2>2, HashBeforeType DEF LastHash
<1>2. ComputeHash(key, LastHash, event) \in Hashes
  <2>1. [key |-> key, event |-> event]
           \in [key : Keys \cup {Keyless}, event : Events]
    BY DEF TypeOK
  <2> QED
    BY <1>1, <2>1, AppendProperties DEF Hashes, ComputeHash
<1> QED
  BY <1>1, <1>2 DEF Row

LEMMA InitType == Init => TypeOK
<1> SUFFICES ASSUME Init
             PROVE  TypeOK
  OBVIOUS
<1>1. <<>> \in Seq(Row \cup {Null}) /\ Len(<<>>) = 0
  BY EmptySeq
<1>2. GENESIS_HASH \in Hashes
  BY EmptySeq DEF GENESIS_HASH, Hashes
<1> QED
  BY <1>1, <1>2, BoundAssumption DEF Init, TypeOK

\* One row altered: the table still is a table.
LEMMA EditedType ==
  ASSUME TypeOK, NEW i \in Live(audit), NEW event \in Events
  PROVE  /\ [audit EXCEPT ![i].event = event] \in Seq(Cells)
         /\ Len([audit EXCEPT ![i].event = event]) = Len(audit)
<1>1. audit \in Seq(Cells) /\ i \in 1..Len(audit) /\ audit[i] \in Row
  BY TableShape DEF TypeOK, Cells
<1> DEFINE cell == [audit[i] EXCEPT !.event = event]
<1>2. cell \in Cells
  BY <1>1 DEF Cells, Row
<1>3. [audit EXCEPT ![i].event = event] = [audit EXCEPT ![i] = cell]
  BY <1>1
<1> HIDE DEF cell
<1>4. [audit EXCEPT ![i] = cell] \in Seq(Cells)
       /\ Len([audit EXCEPT ![i] = cell]) = Len(audit)
  BY <1>1, <1>2, ExceptSeq
<1> QED
  BY <1>3, <1>4

LEMMA RemovedType ==
  ASSUME TypeOK, NEW i \in Live(audit)
  PROVE  /\ [audit EXCEPT ![i] = Null] \in Seq(Cells)
         /\ Len([audit EXCEPT ![i] = Null]) = Len(audit)
<1>1. audit \in Seq(Cells) /\ i \in 1..Len(audit) /\ Null \in Cells
  BY TableShape DEF TypeOK, Cells
<1> QED
  BY <1>1, ExceptSeq

LEMMA NextType == TypeOK /\ [Next]_vars => TypeOK'
<1> SUFFICES ASSUME TypeOK, [Next]_vars
             PROVE  TypeOK'
  OBVIOUS
<1> USE DEF TypeOK, walks
<1>1. ASSUME NEW event \in Events, AppendAudit(event)
      PROVE  TypeOK'
  <2>1. audit' \in Seq(Row \cup {Null}) /\ Len(audit') = Len(audit) + 1
    BY <1>1, NewRowType, AppendProperties DEF AppendAudit
  <2> QED
    BY <1>1, <2>1, LenProperties, BoundAssumption DEF AppendAudit
<1>2. ASSUME NEW w \in Walks, Begin(w)
      PROVE  TypeOK'
  BY <1>2 DEF Begin
<1>3. ASSUME NEW w \in Walks, VerifyPage(w)
      PROVE  TypeOK'
  <2>1. PICK e \in Rest(w) :
          \/ /\ cursor' = [cursor EXCEPT ![w] = e]
             /\ tail' = [tail EXCEPT ![w] = audit[e].hash]
             /\ total' = [total EXCEPT ![w] = @ + Cardinality(Page(w, e))]
             /\ UNCHANGED reply
          \/ /\ reply' = [reply EXCEPT ![w] = "broken"]
             /\ UNCHANGED <<cursor, tail, total>>
    BY <1>3 DEF VerifyPage
  <2>2. e \in Live(audit) /\ e \in 1..Len(audit) /\ audit[e] \in Row
    BY TableShape DEF Rest, Page, Cells
  <2>3. Cardinality(Page(w, e)) \in Nat
    <3>1. Page(w, e) \in SUBSET (1..Len(audit))
      BY TableShape DEF Page, Cells
    <3>2. IsFiniteSet(1..Len(audit))
      BY FS_Interval, LenProperties
    <3> QED
      BY <3>1, <3>2, FS_Subset, FS_CardinalityType
  <2>4. e \in 0..MaxRows /\ audit[e].hash \in Hashes
    BY <2>2, LenProperties, BoundAssumption DEF Row
  <2>5. UNCHANGED <<audit, key, edits, restarts, base>>
    BY <1>3 DEF VerifyPage
  <2>6. /\ cursor' \in [Walks -> 0..MaxRows]
        /\ tail' \in [Walks -> Hashes]
    BY <2>1, <2>4
  <2>7. total' \in [Walks -> Nat]
    <3> HIDE DEF Page
    <3>1. total[w] + Cardinality(Page(w, e)) \in Nat
      BY <2>3
    <3> QED
      BY <2>1, <3>1
  <2>8. reply' \in [Walks -> {"none", "running", "ok", "broken", "lost"}]
    BY <2>1
  <2> QED
    BY <2>5, <2>6, <2>7, <2>8
<1>4. ASSUME NEW w \in Walks, VerifyDone(w)
      PROVE  TypeOK'
  BY <1>4 DEF VerifyDone
<1>5. ASSUME NEW i \in 1..MaxRows, NEW event \in Events, EditRow(i, event)
      PROVE  TypeOK'
  <2>1. audit' \in Seq(Row \cup {Null}) /\ Len(audit') = Len(audit)
    BY <1>5, EditedType DEF EditRow, Cells
  <2> QED
    BY <1>5, <2>1, BoundAssumption DEF EditRow
<1>6. ASSUME NEW i \in 1..MaxRows, RemoveRow(i)
      PROVE  TypeOK'
  <2>1. audit' \in Seq(Row \cup {Null}) /\ Len(audit') = Len(audit)
    BY <1>6, RemovedType DEF RemoveRow, Cells
  <2> QED
    BY <1>6, <2>1, BoundAssumption DEF RemoveRow
<1>7. CASE Restart
  BY <1>7, BoundAssumption DEF Restart
<1>8. CASE UNCHANGED vars
  BY <1>8 DEF vars
<1> QED
  BY <1>1, <1>2, <1>3, <1>4, <1>5, <1>6, <1>7, <1>8 DEF Next

\* Every variable of AuditLog keeps its type: a cursor is an id that has been
\* assigned and the cells of the table are rows or removed rows (TypeOK).
THEOREM TypeCorrect == Spec => []TypeOK
BY InitType, NextType, PTL DEF Spec
----------------------------------------------------------------------------
(* What a walk has checked *)

\* Tables that agree on ids 1..n agree on what follows from what there.
LEMMA FollowsLocal ==
  ASSUME NEW t \in Seq(Cells), NEW u \in Seq(Cells), NEW n \in Nat,
         n <= Len(t), n <= Len(u), \A j \in 1..n : t[j] = u[j],
         NEW c \in 0..n, NEW k
  PROVE  /\ UpTo(c, t) = UpTo(c, u)
         /\ \A i \in UpTo(c, t) : RowFollows(i, k, t) <=> RowFollows(i, k, u)
<1>1. \A j : j \in UpTo(c, t) => j \in 1..n /\ t[j] # Null
  BY TableShape DEF UpTo
<1>2. \A j : j \in UpTo(c, u) => j \in 1..n /\ u[j] # Null
  BY TableShape DEF UpTo
<1>3. UpTo(c, t) = UpTo(c, u)
  BY <1>1, <1>2, TableShape DEF UpTo
<1>4. ASSUME NEW i \in UpTo(c, t)
      PROVE  RowFollows(i, k, t) <=> RowFollows(i, k, u)
  <2>1. i \in 1..n /\ t[i] = u[i]
    BY <1>1, <1>4
  <2>2. HashBefore(i, t) = HashBefore(i, u)
    BY <2>1, HashBeforeLocal
  <2> QED
    BY <2>1, <2>2 DEF RowFollows
<1> QED
  BY <1>3, <1>4

\* verifyChain expects in the first row after the cursor, as in the others, the
\* hash of the row before it.
LEMMA ExpectedIs ==
  ASSUME TypeOK, NEW w \in Walks, Cursor(w), NEW i \in Live(audit), cursor[w] < i
  PROVE  ExpectedPrev(w, i) = HashBefore(i, audit)
<1>1. audit \in Seq(Cells) /\ cursor[w] \in Nat /\ i \in Nat
  <2>1. audit \in Seq(Cells) /\ cursor[w] \in Nat
    BY BoundAssumption DEF TypeOK, Cells
  <2> QED
    BY <2>1, TableShape
<1>2. \A j \in Live(audit) : j \in Nat
  BY <1>1, TableShape
<1>3. CASE \E j \in Live(audit) : cursor[w] < j /\ j < i
  BY <1>3 DEF ExpectedPrev
<1>4. CASE ~\E j \in Live(audit) : cursor[w] < j /\ j < i
  <2>1. ExpectedPrev(w, i) = tail[w]
    BY <1>4 DEF ExpectedPrev, StartOfPage
  <2>2. CASE cursor[w] = 0 /\ tail[w] = GENESIS_HASH
    <3>1. \A j \in Live(audit) : 0 < j
      BY <1>1, TableShape
    <3>2. \A j \in Live(audit) : ~(j < i)
      BY <1>1, <1>2, <1>4, <2>2, <3>1
    <3> QED
      BY <2>1, <2>2, <3>2, HashBeforeFirst
  <2>3. CASE cursor[w] \in Live(audit) /\ tail[w] = audit[cursor[w]].hash
    <3>1. \A j \in Live(audit) : j < i => j <= cursor[w]
      BY <1>1, <1>2, <1>4
    <3> QED
      BY <1>1, <2>1, <2>3, <3>1, HashBeforeIs
  <2> QED
    BY <2>2, <2>3 DEF Cursor
<1> QED
  BY <1>3, <1>4

\* What verifyChain accepts after the cursor follows from the rows before it.
LEMMA AcceptedFollows ==
  ASSUME TypeOK, NEW w \in Walks, Cursor(w), NEW i \in Live(audit),
         cursor[w] < i, RowOK(w, i)
  PROVE  RowFollows(i, key, audit)
BY ExpectedIs DEF RowFollows, RowOK, HashMatches

\* A page that is accepted extends what the walk has checked.
LEMMA PageChecked ==
  ASSUME TypeOK, NEW w \in Walks, Cursor(w), Checked(w), NEW e \in Rest(w),
         \A i \in Page(w, e) : RowOK(w, i)
  PROVE  /\ \A i \in UpTo(e, audit) : RowFollows(i, key, audit)
         /\ total[w] + Cardinality(Page(w, e)) = Cardinality(UpTo(e, audit))
<1>1. audit \in Seq(Cells) /\ cursor[w] \in Nat /\ e \in Nat /\ cursor[w] < e
  <2>1. audit \in Seq(Cells) /\ cursor[w] \in Nat
    BY BoundAssumption DEF TypeOK, Cells
  <2> QED
    BY <2>1, TableShape DEF Rest, Page
<1>2. \A j \in Live(audit) : j \in 1..Len(audit) /\ j \in Nat
  BY <1>1, TableShape
<1>3. UpTo(e, audit) = UpTo(cursor[w], audit) \cup Page(w, e)
  BY <1>1, <1>2 DEF UpTo, Page
<1>4. UpTo(cursor[w], audit) \cap Page(w, e) = {}
  BY <1>1, <1>2 DEF UpTo, Page
<1>5. IsFiniteSet(UpTo(cursor[w], audit)) /\ IsFiniteSet(Page(w, e))
  <2>1. IsFiniteSet(1..Len(audit))
    BY <1>1, FS_Interval, LenProperties
  <2>2. /\ UpTo(cursor[w], audit) \in SUBSET (1..Len(audit))
        /\ Page(w, e) \in SUBSET (1..Len(audit))
    BY <1>2 DEF UpTo, Page
  <2> QED
    BY <2>1, <2>2, FS_Subset
<1>6. Cardinality(UpTo(e, audit))
        = Cardinality(UpTo(cursor[w], audit)) + Cardinality(Page(w, e))
  <2>1. /\ Cardinality(UpTo(cursor[w], audit)) \in Nat
        /\ Cardinality(Page(w, e)) \in Nat
    BY <1>5, FS_CardinalityType
  <2>2. Cardinality(UpTo(e, audit))
          = Cardinality(UpTo(cursor[w], audit)) + Cardinality(Page(w, e))
            - Cardinality(UpTo(cursor[w], audit) \cap Page(w, e))
    BY <1>3, <1>5, FS_Union
  <2>3. Cardinality(UpTo(cursor[w], audit) \cap Page(w, e)) = 0
    BY <1>4, FS_EmptySet
  <2> DEFINE all == Cardinality(UpTo(e, audit))
             before == Cardinality(UpTo(cursor[w], audit))
             page == Cardinality(Page(w, e))
             both == Cardinality(UpTo(cursor[w], audit) \cap Page(w, e))
  <2>4. before \in Nat /\ page \in Nat /\ both = 0 /\ all = before + page - both
    BY <2>1, <2>2, <2>3
  <2> HIDE DEF all, before, page, both
  <2>5. all = before + page
    BY <2>4
  <2> QED
    BY <2>5 DEF all, before, page
<1>7. \A i \in Page(w, e) : RowFollows(i, key, audit)
  BY AcceptedFollows DEF Page
<1> QED
  BY <1>3, <1>6, <1>7 DEF Checked
----------------------------------------------------------------------------
(* The chain stays linear *)

\* In a linear table the row before id i is i - 1.
LEMMA LinearBefore ==
  ASSUME TypeOK, Linear, edits = 0, NEW i \in 1..(Len(audit) + 1)
  PROVE  HashBefore(i, audit) = IF i = 1 THEN GENESIS_HASH ELSE audit[i - 1].hash
<1>1. audit \in Seq(Cells) /\ Len(audit) \in Nat
  BY LenProperties DEF TypeOK, Cells
<1>2. Live(audit) = 1..Len(audit)
  BY <1>1, TableShape DEF Linear
<1>3. CASE i = 1
  <2>1. \A j \in Live(audit) : ~(j < i)
    BY <1>2, <1>3
  <2> QED
    BY <1>3, <2>1, HashBeforeFirst
<1>4. CASE i # 1
  <2>1. i - 1 \in Live(audit) /\ i - 1 < i /\ i \in Nat
    BY <1>1, <1>2, <1>4
  <2>2. \A j \in Live(audit) : j < i => j <= i - 1
    BY <1>1, <1>2
  <2>3. HashBefore(i, audit) = audit[i - 1].hash
    BY <1>1, <2>1, <2>2, HashBeforeIs
  <2> QED
    BY <1>4, <2>3
<1> QED
  BY <1>3, <1>4

\* What an append leaves of the table, and what it adds.
LEMMA Appended ==
  ASSUME TypeOK, NEW event \in Events, AppendAudit(event)
  PROVE  /\ audit \in Seq(Cells) /\ audit' \in Seq(Cells)
         /\ Len(audit) \in Nat /\ Len(audit') = Len(audit) + 1
         /\ \A i \in 1..Len(audit) : audit'[i] = audit[i]
         /\ audit'[Len(audit')] = [prev |-> LastHash, event |-> event,
                                   hash |-> ComputeHash(key, LastHash, event)]
         /\ audit'[Len(audit')] # Null
<1> DEFINE row == [prev |-> LastHash, event |-> event,
                   hash |-> ComputeHash(key, LastHash, event)]
<1>1. row \in Row
  BY NewRowType
<1>2. row \in Cells /\ audit \in Seq(Cells) /\ audit' = Append(audit, row)
  BY <1>1 DEF AppendAudit, TypeOK, Cells
<1> HIDE DEF row
<1>3. /\ audit' \in Seq(Cells) /\ Len(audit) \in Nat
      /\ Len(audit') = Len(audit) + 1
      /\ \A i \in 1..Len(audit) : audit'[i] = audit[i]
      /\ audit'[Len(audit')] = row
  BY <1>2, AppendProperties, LenProperties
<1> QED
  BY <1>1, <1>2, <1>3, NullAssumption DEF row

LEMMA NextLinear == TypeOK /\ Linear /\ [Next]_vars => Linear'
<1> SUFFICES ASSUME TypeOK, Linear, [Next]_vars, edits' = 0
             PROVE  \A i \in 1..Len(audit') :
                      /\ audit'[i] # Null
                      /\ audit'[i].prev = IF i = 1 THEN GENESIS_HASH
                                                  ELSE audit'[i - 1].hash
                      /\ \E k \in Keys \cup {Keyless} : audit'[i].hash
                           = ComputeHash(k, audit'[i].prev, audit'[i].event)
  BY DEF Linear, ComputeHash, GENESIS_HASH
<1>1. ASSUME NEW event \in Events, AppendAudit(event), NEW i \in 1..Len(audit')
      PROVE  /\ audit'[i] # Null
             /\ audit'[i].prev = IF i = 1 THEN GENESIS_HASH
                                         ELSE audit'[i - 1].hash
             /\ \E k \in Keys \cup {Keyless} : audit'[i].hash
                  = ComputeHash(k, audit'[i].prev, audit'[i].event)
  <2>1. edits = 0 /\ key \in Keys \cup {Keyless}
    BY <1>1 DEF AppendAudit, TypeOK
  <2> DEFINE row == [prev |-> LastHash, event |-> event,
                     hash |-> ComputeHash(key, LastHash, event)]
  <2>2. /\ Len(audit) \in Nat /\ Len(audit') = Len(audit) + 1
        /\ \A j \in 1..Len(audit) : audit'[j] = audit[j]
        /\ audit'[Len(audit')] = row
        /\ audit'[Len(audit')] # Null
    BY <1>1, Appended
  <2>3. i # 1 => i - 1 \in 1..Len(audit) /\ audit'[i - 1] = audit[i - 1]
    BY <2>2
  <2>4. CASE i = Len(audit')
    <3>1. Len(audit) + 1 \in 1..(Len(audit) + 1) /\ i = Len(audit) + 1
      BY <2>2, <2>4
    <3>2. LastHash = IF i = 1 THEN GENESIS_HASH ELSE audit[i - 1].hash
      BY <2>1, <3>1, LinearBefore DEF LastHash
    <3>3. audit'[i] = row /\ audit'[i] # Null
      BY <2>2, <2>4
    <3>4. /\ row.prev = LastHash
          /\ row.event = event
          /\ row.hash = ComputeHash(key, LastHash, event)
      OBVIOUS
    <3> HIDE DEF row
    <3>5. /\ audit'[i].prev = LastHash
          /\ audit'[i].event = event
          /\ audit'[i].hash = ComputeHash(key, LastHash, event)
      BY <3>3, <3>4
    <3> QED
      BY <2>1, <2>3, <3>2, <3>3, <3>5
  <2>5. CASE i # Len(audit')
    <3>1. i \in 1..Len(audit) /\ audit'[i] = audit[i]
      BY <2>2, <2>5
    <3> QED
      BY <2>1, <2>3, <3>1 DEF Linear
  <2> QED
    BY <2>4, <2>5
<1>2. CASE audit' = audit /\ edits' = edits
  BY <1>2 DEF Linear
<1>3. ASSUME NEW i \in 1..MaxRows, NEW event \in Events, EditRow(i, event)
      PROVE  FALSE
  BY <1>3 DEF EditRow, TypeOK
<1>4. ASSUME NEW i \in 1..MaxRows, RemoveRow(i)
      PROVE  FALSE
  BY <1>4 DEF RemoveRow, TypeOK
<1> QED
  BY <1>1, <1>2, <1>3, <1>4
     DEF Next, vars, Begin, VerifyPage, VerifyDone, Restart
----------------------------------------------------------------------------
(* Where the walks stand *)

\* A walk that stands somewhere in the table stands there after an append.
LEMMA AppendWalk ==
  ASSUME TypeOK, NEW w \in Walks, WalkOK(w), NEW event \in Events, AppendAudit(event)
  PROVE  WalkOK(w)'
<1>1. UNCHANGED <<key, edits, cursor, tail, total, reply, base>>
  BY DEF AppendAudit, walks
<1>2. CASE ~(reply[w] = "running" /\ base[w].edits = edits)
  BY <1>1, <1>2 DEF WalkOK
<1>3. CASE reply[w] = "running" /\ base[w].edits = edits
  <2>1. Cursor(w) /\ Checked(w) /\ Extends(w)
    BY <1>3 DEF WalkOK
  <2>2. /\ audit \in Seq(Cells) /\ audit' \in Seq(Cells)
        /\ Len(audit) \in Nat /\ Len(audit') = Len(audit) + 1
        /\ \A i \in 1..Len(audit) : audit'[i] = audit[i]
    BY Appended
  <2>3. cursor[w] \in 0..Len(audit)
    BY <2>1, <2>2, TableShape DEF Cursor
  <2>4. Cursor(w)'
    <3>1. cursor[w] \in Live(audit) =>
            cursor[w] \in Live(audit') /\ audit'[cursor[w]] = audit[cursor[w]]
      BY <2>2, TableShape
    <3> QED
      BY <1>1, <2>1, <3>1 DEF Cursor, GENESIS_HASH
  <2>5. Checked(w)'
    <3>1. /\ UpTo(cursor[w], audit) = UpTo(cursor[w], audit')
          /\ \A i \in UpTo(cursor[w], audit) :
               RowFollows(i, key, audit) <=> RowFollows(i, key, audit')
      <4>1. Len(audit) <= Len(audit) /\ Len(audit) <= Len(audit')
        BY <2>2
      <4>2. \A j \in 1..Len(audit) : audit[j] = audit'[j]
        BY <2>2
      <4> QED
        BY <2>2, <2>3, <4>1, <4>2, FollowsLocal
    <3>2. /\ \A i \in UpTo(cursor[w], audit') : RowFollows(i, key, audit')
          /\ total[w] = Cardinality(UpTo(cursor[w], audit'))
      BY <2>1, <3>1 DEF Checked
    <3>3. cursor'[w] = cursor[w] /\ total'[w] = total[w] /\ key' = key
      BY <1>1
    <3>4. /\ \A i \in UpTo(cursor'[w], audit') : RowFollows(i, key', audit')
          /\ total'[w] = Cardinality(UpTo(cursor'[w], audit'))
      BY <3>2, <3>3
    <3> QED
      BY <3>4 DEF Checked
  <2>6. Extends(w)'
    <3>1. base[w].table \in Seq(Row \cup {Null})
      BY DEF TypeOK
    <3>2. Len(base[w].table) \in Nat
      BY <3>1, LenProperties
    <3> QED
      BY <1>1, <2>1, <2>2, <3>2 DEF Extends
  <2> QED
    BY <1>1, <2>4, <2>5, <2>6 DEF WalkOK
<1> QED
  BY <1>2, <1>3

\* A walk begins before the first row.
LEMMA BeginWalk ==
  ASSUME TypeOK, NEW w \in Walks, WalkOK(w), Begin(w)
  PROVE  WalkOK(w)'
<1>1. /\ cursor'[w] = 0 /\ tail'[w] = GENESIS_HASH /\ total'[w] = 0
      /\ reply'[w] = "running"
      /\ base'[w] = [table |-> audit, edits |-> edits]
      /\ UNCHANGED <<audit, key, edits>>
  BY DEF WalkOK, Begin, TypeOK
<1>2. UpTo(0, audit) = {}
  <2>1. audit \in Seq(Cells)
    BY DEF TypeOK, Cells
  <2> QED
    BY <2>1, TableShape DEF UpTo
<1>3. Checked(w)'
  BY <1>1, <1>2, FS_EmptySet DEF Checked
<1>4. Cursor(w)' /\ Extends(w)' /\ edits \in Nat
  BY <1>1, LenProperties, BoundAssumption DEF Cursor, Extends, TypeOK, GENESIS_HASH
<1> QED
  BY <1>1, <1>3, <1>4 DEF WalkOK

\* A page that is accepted moves the walk on; one that is not ends it.
LEMMA PageWalk ==
  ASSUME TypeOK, NEW w \in Walks, WalkOK(w), VerifyPage(w)
  PROVE  WalkOK(w)'
<1>1. UNCHANGED <<audit, key, edits, base>> /\ reply[w] = "running"
  BY DEF VerifyPage
<1>2. PICK e \in Rest(w) :
        \/ /\ \A i \in Page(w, e) : RowOK(w, i)
           /\ cursor' = [cursor EXCEPT ![w] = e]
           /\ tail' = [tail EXCEPT ![w] = audit[e].hash]
           /\ total' = [total EXCEPT ![w] = @ + Cardinality(Page(w, e))]
           /\ UNCHANGED reply
        \/ reply' = [reply EXCEPT ![w] = "broken"]
  BY DEF VerifyPage
<1>3. CASE reply' = [reply EXCEPT ![w] = "broken"]
  BY <1>1, <1>3 DEF WalkOK, TypeOK
<1>4. CASE ~(base[w].edits = edits) /\ UNCHANGED reply
  BY <1>1, <1>4 DEF WalkOK
<1>5. CASE /\ base[w].edits = edits
           /\ \A i \in Page(w, e) : RowOK(w, i)
           /\ cursor' = [cursor EXCEPT ![w] = e]
           /\ tail' = [tail EXCEPT ![w] = audit[e].hash]
           /\ total' = [total EXCEPT ![w] = @ + Cardinality(Page(w, e))]
           /\ UNCHANGED reply
  <2>1. Cursor(w) /\ Checked(w) /\ Extends(w)
    BY <1>1, <1>5 DEF WalkOK
  <2>2. /\ \A i \in UpTo(e, audit) : RowFollows(i, key, audit)
        /\ total[w] + Cardinality(Page(w, e)) = Cardinality(UpTo(e, audit))
    BY <1>5, <2>1, PageChecked
  <2>3. /\ cursor'[w] = e
        /\ tail'[w] = audit[e].hash
        /\ total'[w] = total[w] + Cardinality(Page(w, e))
    BY <1>5 DEF TypeOK
  <2>4. Checked(w)'
    BY <1>1, <2>2, <2>3 DEF Checked
  <2>5. Cursor(w)'
    BY <1>1, <2>3 DEF Cursor, Rest, Page
  <2>6. Extends(w)'
    BY <1>1, <2>1 DEF Extends
  <2> QED
    BY <1>1, <1>5, <2>4, <2>5, <2>6 DEF WalkOK
<1> QED
  BY <1>2, <1>3, <1>4, <1>5

LEMMA NextWalkInv == TypeOK /\ WalkInv /\ [Next]_vars => WalkInv'
<1> SUFFICES ASSUME TypeOK, WalkInv, [Next]_vars, NEW w \in Walks
             PROVE  WalkOK(w)'
  BY DEF WalkInv
<1>0. WalkOK(w)
  BY DEF WalkInv
<1>1. ASSUME NEW event \in Events, AppendAudit(event)
      PROVE  WalkOK(w)'
  BY <1>0, <1>1, AppendWalk
<1>2. CASE \/ UNCHANGED vars
           \/ \E v \in Walks \ {w} : Begin(v) \/ VerifyPage(v) \/ VerifyDone(v)
  <2>1. /\ cursor'[w] = cursor[w] /\ tail'[w] = tail[w] /\ total'[w] = total[w]
        /\ reply'[w] = reply[w] /\ base'[w] = base[w]
        /\ UNCHANGED <<audit, key, edits>>
    BY <1>2 DEF vars, Begin, VerifyPage, VerifyDone, TypeOK
  <2>2. (Cursor(w)' <=> Cursor(w)) /\ (Extends(w)' <=> Extends(w))
    BY <2>1 DEF Cursor, Extends, GENESIS_HASH
  <2>3. Checked(w)' <=> Checked(w)
    BY <2>1 DEF Checked
  <2> QED
    BY <1>0, <2>1, <2>2, <2>3 DEF WalkOK, GENESIS_HASH
<1>3. CASE Begin(w)
  BY <1>0, <1>3, BeginWalk
<1>4. CASE VerifyPage(w)
  BY <1>0, <1>4, PageWalk
<1>5. CASE VerifyDone(w)
  BY <1>0, <1>5 DEF VerifyDone, WalkOK, TypeOK
<1>6. CASE edits' = edits + 1 /\ UNCHANGED walks
  <2>1. base[w].edits \in Nat /\ edits \in Nat
    BY BoundAssumption DEF TypeOK
  <2> QED
    BY <1>0, <1>6, <2>1 DEF WalkOK, walks, GENESIS_HASH
<1>7. CASE Restart
  BY <1>0, <1>7 DEF Restart, WalkOK, TypeOK, GENESIS_HASH
<1> QED
  BY <1>1, <1>2, <1>3, <1>4, <1>5, <1>6, <1>7 DEF Next, EditRow, RemoveRow

LEMMA InitIInv == Init => IInv
<1> SUFFICES ASSUME Init
             PROVE  IInv
  OBVIOUS
<1>1. Linear
  BY DEF Init, Linear
<1>2. WalkInv
  BY DEF Init, WalkInv, WalkOK
<1> QED
  BY <1>1, <1>2, InitType DEF IInv

LEMMA Invariance == Spec => []IInv
<1>1. IInv /\ [Next]_vars => IInv'
  BY NextType, NextLinear, NextWalkInv DEF IInv
<1> QED
  BY <1>1, InitIInv, PTL DEF Spec
----------------------------------------------------------------------------
(* What a reader relies on *)

\* Only a page that is refused makes an answer "broken", only an empty one "ok".
LEMMA Answers ==
  ASSUME TypeOK, [Next]_vars, NEW w \in Walks
  PROVE  /\ reply[w] # "broken" /\ reply'[w] = "broken"
              => \E e \in Rest(w) : \E i \in Page(w, e) : ~RowOK(w, i)
         /\ reply[w] # "ok" /\ reply'[w] = "ok" => Rest(w) = {}
         /\ reply'[w] # reply[w] /\ reply'[w] = "broken" => reply[w] = "running"
<1>1. CASE VerifyPage(w)
  BY <1>1 DEF VerifyPage, TypeOK
<1>2. CASE VerifyDone(w)
  BY <1>2 DEF VerifyDone, TypeOK
<1>3. CASE Begin(w)
  BY <1>3 DEF Begin, TypeOK
<1>4. CASE Restart
  BY <1>4 DEF Restart, TypeOK
<1>5. CASE reply'[w] = reply[w]
  BY <1>5
<1> QED
  BY <1>1, <1>2, <1>3, <1>4, <1>5
     DEF Next, vars, walks, AppendAudit, Begin, VerifyPage, VerifyDone,
         EditRow, RemoveRow, TypeOK

\* While nobody bypasses the server (edits = 0), each row that appendAudit
\* (append.ts) wrote carries the hash of the row before it, under a key that
\* was configured at the time, for any number of rows, keys and restarts; and
\* every variable keeps its type (LogConsistent).
THEOREM OneChain == Spec => []LogConsistent
<1>1. IInv => ChainIsLinear
  <2> SUFFICES ASSUME IInv, edits = 0, NEW i \in Live(audit)
               PROVE  \E k \in Keys \cup {Keyless} : RowFollows(i, k, audit)
    BY DEF ChainIsLinear
  <2>1. i \in 1..Len(audit) /\ Len(audit) \in Nat
    BY TableShape DEF IInv, TypeOK, Cells
  <2>2. audit[i].prev = HashBefore(i, audit)
    BY <2>1, LinearBefore DEF IInv, Linear
  <2> QED
    BY <2>1, <2>2 DEF IInv, Linear, RowFollows
<1>2. IInv => LogConsistent
  BY <1>1 DEF IInv, LogConsistent
<1> QED
  BY <1>2, Invariance, PTL

\* Whatever is appended between its pages and wherever the table ends, a walk
\* reports a broken chain only if the server was bypassed or a row was written
\* under another key (NoFalseAlarm).
THEOREM NoAlarm == Spec => NoFalseAlarm
<1>1. ASSUME IInv, [Next]_vars, NEW w \in Walks,
             reply[w] # "broken", reply'[w] = "broken"
      PROVE  edits > 0 \/ \E i \in Live(audit) :
               audit[i].hash # ComputeHash(key, audit[i].prev, audit[i].event)
  <2> SUFFICES ASSUME edits = 0,
                      \A i \in Live(audit) : audit[i].hash
                        = ComputeHash(key, audit[i].prev, audit[i].event)
               PROVE  FALSE
    BY BoundAssumption, <1>1 DEF IInv, TypeOK
  <2>1. TypeOK /\ Linear /\ WalkOK(w)
    BY <1>1 DEF IInv, WalkInv
  <2>2. reply[w] = "running"
    BY <1>1, <2>1, Answers
  <2>3. PICK i \in Live(audit) : cursor[w] < i /\ ~RowOK(w, i)
    BY <1>1, <2>1, Answers DEF Page
  <2>4. base[w].edits = edits
    BY <2>1, BoundAssumption DEF WalkOK, TypeOK
  <2>5. Cursor(w)
    BY <2>1, <2>2, <2>4 DEF WalkOK
  <2>6. i \in 1..Len(audit) /\ Len(audit) \in Nat
    BY <2>1, TableShape DEF TypeOK, Cells
  <2>7. audit[i].prev = HashBefore(i, audit)
    BY <2>1, <2>6, LinearBefore DEF Linear
  <2> QED
    BY <2>1, <2>3, <2>5, <2>7, ExpectedIs DEF RowOK, HashMatches
<1>2. IInv /\ [Next]_vars =>
        \A w \in Walks :
          reply[w] # "broken" /\ reply'[w] = "broken"
            => edits > 0 \/ \E i \in Live(audit) :
                 audit[i].hash # ComputeHash(key, audit[i].prev, audit[i].event)
  BY <1>1
<1> QED
  BY <1>2, Invariance, PTL DEF Spec, NoFalseAlarm

\* An answer "ok" of POST /v1/audit/verify speaks for every row of the table as
\* it was when the walk began: none was altered or taken out from between
\* others, whatever was appended meanwhile (OkMeansIntact).
THEOREM OkIsSound == Spec => OkMeansIntact
<1>1. ASSUME IInv, [Next]_vars, NEW w \in Walks,
             reply[w] = "running", reply'[w] = "ok", edits = base[w].edits
      PROVE  /\ Intact(key, base[w].table)
             /\ total[w] >= Cardinality(Live(base[w].table))
  <2> DEFINE t == base[w].table
  <2>1. TypeOK /\ WalkOK(w)
    BY <1>1 DEF IInv, WalkInv
  <2>2. Cursor(w) /\ Checked(w) /\ Extends(w)
    BY <1>1, <2>1 DEF WalkOK
  <2>3. /\ audit \in Seq(Cells) /\ t \in Seq(Cells) /\ cursor[w] \in Nat
        /\ Len(audit) \in Nat /\ Len(t) \in Nat /\ Len(t) <= Len(audit)
        /\ \A i \in 1..Len(t) : t[i] = audit[i]
    <3>1. audit \in Seq(Cells) /\ t \in Seq(Cells) /\ cursor[w] \in Nat
      BY <2>1, BoundAssumption DEF TypeOK, Cells
    <3>2. Len(t) <= Len(audit) /\ \A i \in 1..Len(t) : t[i] = audit[i]
      BY <1>1, <2>2 DEF Extends
    <3> QED
      BY <3>1, <3>2, LenProperties
  <2> HIDE DEF t
  <2>4. UpTo(cursor[w], audit) = Live(audit)
    <3>1. Rest(w) = {}
      BY <1>1, <2>1, Answers
    <3> QED
      BY <2>3, <3>1, TableShape DEF Rest, Page, UpTo
  <2>5. Live(t) \subseteq Live(audit)
    BY <2>3, TableShape
  <2>6. Intact(key, t)
    <3>1. UpTo(Len(t), t) = Live(t)
      BY <2>3, TableShape DEF UpTo
    <3>2. \A i \in UpTo(Len(t), t) : RowFollows(i, key, t) <=> RowFollows(i, key, audit)
      BY <2>3, FollowsLocal
    <3>3. \A i \in Live(audit) : RowFollows(i, key, audit)
      BY <2>2, <2>4 DEF Checked
    <3> QED
      BY <2>5, <3>1, <3>2, <3>3 DEF Intact
  <2>7. total[w] >= Cardinality(Live(t))
    <3>1. IsFiniteSet(Live(audit))
      <4>1. IsFiniteSet(1..Len(audit)) /\ Live(audit) \in SUBSET (1..Len(audit))
        BY <2>3, FS_Interval, TableShape
      <4> QED
        BY <4>1, FS_Subset
    <3>2. /\ Cardinality(Live(t)) <= Cardinality(Live(audit))
          /\ Cardinality(Live(t)) \in Nat /\ Cardinality(Live(audit)) \in Nat
      BY <2>5, <3>1, FS_Subset, FS_CardinalityType
    <3>3. total[w] = Cardinality(Live(audit))
      BY <2>2, <2>4 DEF Checked
    <3> QED
      BY <3>2, <3>3
  <2> QED
    BY <2>6, <2>7 DEF t
<1>2. IInv /\ [Next]_vars =>
        \A w \in Walks :
          /\ reply[w] = "running" /\ reply'[w] = "ok"
          /\ edits = base[w].edits
          => /\ Intact(key, base[w].table)
             /\ total[w] >= Cardinality(Live(base[w].table))
  BY <1>1
<1> QED
  BY <1>2, Invariance, PTL DEF Spec, OkMeansIntact

----------------------------------------------------------------------------
(* The readers: the order of the rows *)

\* Among some ids up to n, a later one has a higher place, and every place from
\* 1 to their number is taken.
LEMMA Places ==
  ASSUME NEW n \in Nat, NEW S \in SUBSET (1..n)
  PROVE  /\ IsFiniteSet(S) /\ Cardinality(S) \in Nat
         /\ \A i \in S : i \in Nat /\ Place(i, S) \in Nat
         /\ \A i \in S : 1 <= Place(i, S) /\ Place(i, S) <= Cardinality(S)
         /\ \A i, j \in S : i < j => Place(i, S) < Place(j, S)
         /\ \A p \in 1..Cardinality(S) : \E i \in S : Place(i, S) = p
<1>0. \A i \in S : i \in Nat
  OBVIOUS
<1>1. IsFiniteSet(S) /\ Cardinality(S) \in Nat
  <2>1. IsFiniteSet(1..n)
    BY FS_Interval
  <2> QED
    BY <2>1, FS_Subset, FS_CardinalityType
<1>2. ASSUME NEW i \in S
      PROVE  Place(i, S) \in 1..Cardinality(S)
  <2> DEFINE T == {j \in S : j <= i}
  <2>1. T \in SUBSET S /\ i \in T
    OBVIOUS
  <2> HIDE DEF T
  <2>2. IsFiniteSet(T) /\ Cardinality(T) <= Cardinality(S) /\ Cardinality(T) \in Nat
    BY <1>1, <2>1, FS_Subset, FS_CardinalityType
  <2>3. Cardinality(T) # 0
    BY <2>1, <2>2, FS_EmptySet
  <2>4. Cardinality(T) \in 1..Cardinality(S)
    BY <1>1, <2>2, <2>3
  <2> QED
    BY <2>4 DEF T, Place
<1>3. ASSUME NEW i \in S, NEW j \in S, i < j
      PROVE  Place(i, S) < Place(j, S)
  <2> DEFINE T == {k \in S : k <= i}
             U == {k \in S : k <= j}
  <2>1. T \in SUBSET U /\ U \in SUBSET S /\ j \in U /\ j \notin T
    <3>1. i \in Nat /\ j \in Nat /\ \A k \in S : k \in Nat
      BY <1>0
    <3>2. \A k \in S : k <= i => k <= j
      BY <1>3, <3>1
    <3>3. j <= j /\ ~(j <= i)
      BY <1>3, <3>1
    <3> QED
      BY <3>2, <3>3
  <2> HIDE DEF T, U
  <2>2. IsFiniteSet(U) /\ Cardinality(U) \in Nat
    BY <1>1, <2>1, FS_Subset, FS_CardinalityType
  <2>3. /\ IsFiniteSet(T) /\ Cardinality(T) \in Nat
        /\ Cardinality(T) <= Cardinality(U) /\ Cardinality(U) # Cardinality(T)
    BY <2>1, <2>2, FS_Subset, FS_CardinalityType
  <2>4. Cardinality(T) < Cardinality(U)
    BY <2>2, <2>3
  <2> QED
    BY <2>4 DEF T, U, Place
<1>4. ASSUME NEW p \in 1..Cardinality(S)
      PROVE  \E i \in S : Place(i, S) = p
  <2> DEFINE P == 1..Cardinality(S)
             f == [i \in S |-> Place(i, S)]
  <2>1. f \in [S -> P]
    BY <1>2
  <2>2. \A i, j \in S : f[i] = f[j] => i = j
    <3>1. \A i, j \in S : /\ i \in Nat /\ j \in Nat
                          /\ Place(i, S) \in Nat /\ Place(j, S) \in Nat
      BY <1>2
    <3>2. \A i, j \in S : i < j \/ j < i \/ i = j
      BY <3>1
    <3> QED
      BY <1>3, <3>1, <3>2
  <2>3. IsFiniteSet(P) /\ Cardinality(P) = Cardinality(S)
    BY <1>1, FS_Interval
  <2> HIDE DEF P
  <2>4. f \in Injection(S, P)
    BY <2>1, <2>2 DEF Injection, IsInjective
  <2>5. f \in Surjection(S, P)
    <3> HIDE DEF f
    <3> QED
      BY <2>3, <2>4, FS_Injection
  <2> QED
    BY <2>5 DEF Surjection, P
<1>5. \A i \in S : /\ Place(i, S) \in Nat
                  /\ 1 <= Place(i, S) /\ Place(i, S) <= Cardinality(S)
  BY <1>1, <1>2
<1> QED
  BY <1>0, <1>1, <1>3, <1>4, <1>5

\* Ascending lists a set of ids, each once and in order.
LEMMA AscendingLists ==
  ASSUME NEW n \in Nat, NEW S \in SUBSET (1..n)
  PROVE  /\ Ascending(S) \in Seq(1..n)
         /\ \A k \in 1..Cardinality(S) : Ascending(S)[k] \in S
         /\ Len(Ascending(S)) = Cardinality(S) /\ Cardinality(S) \in Nat
         /\ \A i, j \in 1..Cardinality(S) :
              i < j => Ascending(S)[i] < Ascending(S)[j]
         /\ \A i \in S : \E k \in 1..Cardinality(S) : Ascending(S)[k] = i
<1> DEFINE N == Cardinality(S)
           a(k) == CHOOSE i \in S : Place(i, S) = k
<1>1. N \in Nat /\ \A k \in 1..N : a(k) \in S /\ Place(a(k), S) = k
  BY Places
<1>2. Ascending(S) = [k \in 1..N |-> a(k)]
  BY DEF Ascending
<1>0. \A i \in S : i \in Nat
  OBVIOUS
<1> HIDE DEF a, N
<1>3. Ascending(S) \in Seq(1..n) /\ Len(Ascending(S)) = N
  <2>1. \A k \in 1..N : a(k) \in 1..n
    BY <1>1
  <2> QED
    BY <1>1, <1>2, <2>1, IsASeq
<1>4. ASSUME NEW i \in 1..N, NEW j \in 1..N, i < j
      PROVE  a(i) < a(j)
  <2>1. a(i) \in S /\ a(j) \in S /\ a(i) \in Nat /\ a(j) \in Nat
    BY <1>0, <1>1
  <2>2. Place(a(i), S) = i /\ Place(a(j), S) = j
    BY <1>1
  <2>3. a(j) < a(i) => Place(a(j), S) < Place(a(i), S)
    BY <2>1, Places
  <2>4. ~(a(j) < a(i)) /\ a(i) # a(j)
    BY <1>4, <2>2, <2>3
  <2> QED
    BY <2>1, <2>4
<1>5. ASSUME NEW i \in S
      PROVE  \E k \in 1..N : a(k) = i
  <2>0. N \in Nat /\ Place(i, S) \in Nat /\ 1 <= Place(i, S) /\ Place(i, S) <= N
    BY Places DEF N
  <2>1. Place(i, S) \in 1..N
    BY <2>0
  <2>2. a(Place(i, S)) \in S /\ Place(a(Place(i, S)), S) = Place(i, S)
    BY <1>1, <2>1
  <2> DEFINE b == a(Place(i, S))
  <2> HIDE DEF b
  <2>3. b \in S /\ Place(b, S) = Place(i, S) /\ Place(i, S) \in Nat
    BY <2>1, <2>2 DEF b
  <2>4. ~(b < i) /\ ~(i < b)
    <3>1. /\ b < i => Place(b, S) < Place(i, S)
          /\ i < b => Place(i, S) < Place(b, S)
      BY <2>3, Places
    <3> QED
      BY <2>3, <3>1
  <2>5. b = i
    BY <1>0, <2>3, <2>4
  <2> QED
    BY <2>1, <2>5 DEF b
<1>6. \A k \in 1..N : Ascending(S)[k] = a(k)
  BY <1>2
<1> QED
  BY <1>1, <1>3, <1>4, <1>5, <1>6 DEF N

\* The ids in the first places are no fewer than the limit, unless they are all.
LEMMA FirstPlaces ==
  ASSUME NEW n \in Nat, NEW S \in SUBSET (1..n), NEW limit \in Nat,
         NEW E, E = {i \in S : Place(i, S) <= limit}, Cardinality(E) # limit
  PROVE  E = S
<1>1. /\ Cardinality(S) \in Nat
      /\ \A i \in S : /\ i \in Nat /\ Place(i, S) \in Nat
                     /\ 1 <= Place(i, S) /\ Place(i, S) <= Cardinality(S)
  BY Places
<1> SUFFICES ASSUME NEW m \in S, ~(Place(m, S) <= limit)
             PROVE  FALSE
  OBVIOUS
<1>2. limit < Cardinality(S)
  <2>1. /\ Place(m, S) \in Nat /\ Place(m, S) <= Cardinality(S)
    BY <1>1
  <2> QED
    BY <1>1, <2>1
<1> DEFINE P == 1..limit
           f == [i \in E |-> Place(i, S)]
<1>3. f \in [E -> P]
  <2>1. \A i \in E : Place(i, S) \in P
    BY <1>1
  <2> QED
    BY <2>1
<1>4. \A i, j \in E : f[i] = f[j] => i = j
  <2>1. \A i, j \in S : i < j => Place(i, S) < Place(j, S)
    BY Places
  <2>2. \A i, j \in S : i < j \/ j < i \/ i = j
    BY <1>1
  <2>3. \A i \in S : Place(i, S) \in Nat
    BY <1>1
  <2>4. \A i, j \in S : Place(i, S) = Place(j, S) => i = j
    BY <2>1, <2>2, <2>3
  <2> QED
    BY <2>4
<1>5. \A p \in P : \E i \in E : f[i] = p
  <2> SUFFICES ASSUME NEW p \in P
               PROVE  \E i \in E : f[i] = p
    OBVIOUS
  <2>1. p \in 1..Cardinality(S) /\ p <= limit
    BY <1>1, <1>2
  <2>2. PICK i \in S : Place(i, S) = p
    BY <2>1, Places
  <2>3. i \in E /\ f[i] = p
    BY <2>1, <2>2
  <2> QED
    BY <2>3
<1>6. IsFiniteSet(P) /\ Cardinality(P) = limit
  BY FS_Interval
<1> HIDE DEF P, f
<1>7. f \in Injection(E, P)
  BY <1>3, <1>4 DEF Injection, IsInjective
<1>8. f \in Surjection(E, P)
  BY <1>3, <1>5 DEF Surjection
<1>9. Cardinality(E) = Cardinality(P)
  BY <1>6, <1>7, <1>8, FS_Injection
<1> QED
  BY <1>6, <1>9

\* Ids up to n have a last one.
LEMMA LastPlace ==
  ASSUME NEW n \in Nat, NEW S \in SUBSET (1..n), S # {}
  PROVE  \E i \in S : \A j \in S : j <= i
<1>1. Cardinality(S) \in Nat /\ Cardinality(S) # 0
  BY Places, FS_EmptySet
<1>2. Cardinality(S) \in 1..Cardinality(S)
  BY <1>1
<1>3. PICK i \in S : Place(i, S) = Cardinality(S)
  BY <1>2, Places
<1>4. ASSUME NEW j \in S
      PROVE  j <= i
  <2>1. i \in Nat /\ j \in Nat /\ Place(j, S) \in Nat /\ Place(j, S) <= Cardinality(S)
    BY Places
  <2>2. i < j => Place(i, S) < Place(j, S)
    BY Places
  <2>3. ~(i < j)
    BY <1>1, <1>3, <2>1, <2>2
  <2> QED
    BY <2>1, <2>3
<1> QED
  BY <1>4

\* One answer of GET /v1/audit: rows after the cursor that the filter lets
\* through, none of them left out before another; all of them if no cursor comes
\* with it, and else the cursor is the last of them.
LEMMA Answer ==
  ASSUME TypeOK, NEW f, NEW since \in Nat, NEW limit \in Nat \ {0},
         NEW E, E = Entries(f, since, limit)
  PROVE  /\ E \in SUBSET (1..Len(audit)) /\ E \subseteq Matching(f, since)
         /\ Len(audit) \in Nat
         /\ Cardinality(E) # limit =>
              NextCursor(E, limit) = Null /\ E = Matching(f, since)
         /\ Cardinality(E) = limit =>
              /\ NextCursor(E, limit) \in E
              /\ \A j \in E : j <= NextCursor(E, limit)
              /\ \A i \in Matching(f, since) : i <= NextCursor(E, limit) => i \in E
<1> DEFINE M == Matching(f, since)
<1>1. audit \in Seq(Cells)
  BY DEF TypeOK, Cells
<1>2. Len(audit) \in Nat /\ M \in SUBSET (1..Len(audit))
  BY <1>1, TableShape DEF Matching
<1>3. E = {i \in M : Place(i, M) <= limit}
  BY DEF Entries
<1>4. \A i \in M : i \in Nat /\ Place(i, M) \in Nat
  BY <1>2, Places
<1>5. \A i, j \in M : i < j => Place(i, M) < Place(j, M)
  BY <1>2, Places
<1> HIDE DEF M
<1>6. E \in SUBSET (1..Len(audit)) /\ E \subseteq M
  BY <1>2, <1>3
<1>7. CASE Cardinality(E) # limit
  <2>1. E = M
    BY <1>2, <1>3, <1>7, FirstPlaces
  <2> QED
    BY <1>2, <1>6, <1>7, <2>1 DEF M, NextCursor
<1>8. CASE Cardinality(E) = limit
  <2>1. E # {}
    BY <1>8, FS_EmptySet
  <2>2. \E i \in E : \A j \in E : j <= i
    BY <1>2, <1>6, <2>1, LastPlace
  <2> DEFINE c == CHOOSE i \in E : \A j \in E : j <= i
  <2>3. c \in E /\ \A j \in E : j <= c
    BY <2>2
  <2>4. NextCursor(E, limit) = c
    BY <1>8 DEF NextCursor
  <2> HIDE DEF c
  <2>5. ASSUME NEW i \in M, i <= c
        PROVE  i \in E
    <3>1. c \in M /\ Place(c, M) <= limit
      BY <1>3, <2>3
    <3>2. i = c \/ i < c
      BY <1>4, <2>5, <3>1
    <3>3. Place(i, M) <= limit
      BY <1>4, <1>5, <3>1, <3>2
    <3> QED
      BY <1>3, <3>3
  <2> QED
    BY <1>2, <1>6, <1>8, <2>3, <2>4, <2>5 DEF M
<1> QED
  BY <1>7, <1>8

----------------------------------------------------------------------------
(* What a reader has on the screen *)

Sorted(s) == \A i, j \in DOMAIN s : i < j => s[i] < s[j]

\* The id up to which a page has been filled
Mark(v) == IF v.next = Null THEN v.upTo ELSE v.next

\* Every entry up to id m that all requests asked for is on the screen.
Lists(v, m) ==
  \A i \in Live(audit) :
    i <= m /\ audit[i].event \in v.common => \E k \in DOMAIN v.shown : v.shown[k] = i

ViewOK(v) ==
  /\ v \in Views
  /\ Sorted(v.shown)
  /\ v.next # Null => \A k \in DOMAIN v.shown : v.shown[k] <= v.next
  /\ Mark(v) <= Len(audit)
  /\ edits = 0 => Lists(v, Mark(v))

ReadInv ==
  /\ view \in [Readers -> Views]
  /\ \A r \in Readers : ViewOK(view[r])

\* An answer of GET /v1/audit is appended to a screen that is filled up to the
\* cursor of the request.
LEMMA ShownOK ==
  ASSUME TypeOK, NEW v \in Views, NEW f \in Filters,
         NEW since \in Nat, NEW limit \in Nat \ {0},
         Sorted(v.shown), \A k \in DOMAIN v.shown : v.shown[k] <= since,
         edits = 0 => Lists(v, since)
  PROVE  ViewOK(Shown(v, f, since, limit))
<1> DEFINE E == Entries(f, since, limit)
           A == Ascending(E)
           c == NextCursor(E, limit)
           s == v.shown \o A
           u == Shown(v, f, since, limit)
<1>1. /\ E \in SUBSET (1..Len(audit)) /\ E \subseteq Matching(f, since)
      /\ Len(audit) \in Nat
      /\ Cardinality(E) # limit => c = Null /\ E = Matching(f, since)
      /\ Cardinality(E) = limit =>
           /\ c \in E
           /\ \A j \in E : j <= c
           /\ \A i \in Matching(f, since) : i <= c => i \in E
  BY Answer
<1>2. /\ u = [v EXCEPT !.shown = s, !.next = c, !.common = v.common \cap f,
                       !.upTo = Len(audit)]
  BY DEF Shown
<1>3. /\ u.page = v.page /\ u.shown = s /\ u.next = c /\ u.later = v.later
      /\ u.common = v.common \cap f /\ u.upTo = Len(audit)
  BY <1>2 DEF Views
<1>4. Len(audit) <= MaxRows /\ MaxRows \in Nat
  BY BoundAssumption DEF TypeOK
<1>5. E \in SUBSET (1..MaxRows)
  BY <1>1, <1>4
<1> HIDE DEF E, c
<1>6. /\ A \in Seq(1..MaxRows) /\ Len(A) = Cardinality(E) /\ Len(A) \in Nat
      /\ \A k \in 1..Len(A) : A[k] \in E
      /\ \A i, j \in 1..Len(A) : i < j => A[i] < A[j]
      /\ \A i \in E : \E k \in 1..Len(A) : A[k] = i
  <2>1. /\ A \in Seq(1..MaxRows)
        /\ \A k \in 1..Cardinality(E) : A[k] \in E
        /\ Len(A) = Cardinality(E) /\ Cardinality(E) \in Nat
        /\ \A i, j \in 1..Cardinality(E) : i < j => A[i] < A[j]
        /\ \A i \in E : \E k \in 1..Cardinality(E) : A[k] = i
    BY <1>4, <1>5, AscendingLists
  <2> HIDE DEF A
  <2> QED
    BY <2>1
<1>7. v.shown \in Seq(1..MaxRows) /\ Len(v.shown) \in Nat
      /\ DOMAIN v.shown = 1..Len(v.shown)
  BY LenProperties DEF Views
<1> HIDE DEF A
<1>8. /\ s \in Seq(1..MaxRows) /\ Len(s) = Len(v.shown) + Len(A)
      /\ \A i \in 1..(Len(v.shown) + Len(A)) :
           s[i] = IF i <= Len(v.shown) THEN v.shown[i] ELSE A[i - Len(v.shown)]
  BY <1>6, <1>7, ConcatProperties
<1>9. DOMAIN s = 1..(Len(v.shown) + Len(A))
  BY <1>8, LenProperties
<1> HIDE DEF s, u
<1>10. /\ \A i \in 1..Len(v.shown) : i \in DOMAIN s /\ s[i] = v.shown[i]
       /\ \A i \in DOMAIN s : ~(i <= Len(v.shown)) =>
            i - Len(v.shown) \in 1..Len(A) /\ s[i] = A[i - Len(v.shown)]
       /\ \A k \in 1..Len(A) : k + Len(v.shown) \in DOMAIN s
                               /\ s[k + Len(v.shown)] = A[k]
  <2>1. \A i \in 1..Len(v.shown) : i \in DOMAIN s /\ s[i] = v.shown[i]
    BY <1>6, <1>7, <1>8, <1>9
  <2>2. ASSUME NEW i \in DOMAIN s, ~(i <= Len(v.shown))
        PROVE  i - Len(v.shown) \in 1..Len(A) /\ s[i] = A[i - Len(v.shown)]
    <3>1. i \in 1..(Len(v.shown) + Len(A))
      BY <1>9
    <3>2. i - Len(v.shown) \in 1..Len(A)
      BY <1>6, <1>7, <2>2, <3>1
    <3> QED
      BY <1>8, <2>2, <3>1, <3>2
  <2>3. ASSUME NEW k \in 1..Len(A)
        PROVE  /\ k + Len(v.shown) \in DOMAIN s
               /\ s[k + Len(v.shown)] = A[k]
    <3>1. /\ k + Len(v.shown) \in 1..(Len(v.shown) + Len(A))
          /\ ~(k + Len(v.shown) <= Len(v.shown))
          /\ (k + Len(v.shown)) - Len(v.shown) = k
      BY <1>6, <1>7
    <3> QED
      BY <1>8, <1>9, <3>1
  <2> QED
    BY <2>1, <2>2, <2>3
<1>11. \A i \in E : i \in Nat /\ since < i
  BY <1>1, <1>5 DEF Matching
<1>12. \A k \in 1..Len(v.shown) : v.shown[k] \in Nat /\ v.shown[k] <= since
  <2>1. \A k \in 1..Len(v.shown) : v.shown[k] \in 1..MaxRows
    BY <1>7, ElementOfSeq
  <2> QED
    BY <1>4, <1>7, <2>1
<1>13. u \in Views
  <2>1. c \in 1..MaxRows \cup {Null}
    BY <1>1, <1>5
  <2>2. Len(audit) \in 0..MaxRows
    BY <1>1, <1>4
  <2> QED
    BY <1>2, <1>8, <2>1, <2>2 DEF Views
<1>14. Sorted(s)
  <2> SUFFICES ASSUME NEW i \in DOMAIN s, NEW j \in DOMAIN s, i < j
               PROVE  s[i] < s[j]
    BY DEF Sorted
  <2>0. i \in Nat /\ j \in Nat
    BY <1>9
  <2>1. CASE j <= Len(v.shown)
    <3>1. i \in DOMAIN v.shown /\ j \in DOMAIN v.shown
      BY <1>7, <1>9, <2>0, <2>1
    <3> QED
      BY <1>7, <1>10, <3>1 DEF Sorted
  <2>2. CASE i <= Len(v.shown) /\ ~(j <= Len(v.shown))
    <3>1. i \in 1..Len(v.shown) /\ j - Len(v.shown) \in 1..Len(A)
      BY <1>9, <1>10, <2>2
    <3>2. s[j] \in E /\ s[i] \in Nat /\ s[i] <= since
      BY <1>6, <1>10, <1>12, <2>2, <3>1
    <3> QED
      BY <1>11, <3>2
  <2>3. CASE ~(i <= Len(v.shown))
    <3>1. ~(j <= Len(v.shown))
      BY <1>7, <2>0, <2>3
    <3>2. /\ i - Len(v.shown) \in 1..Len(A) /\ s[i] = A[i - Len(v.shown)]
          /\ j - Len(v.shown) \in 1..Len(A) /\ s[j] = A[j - Len(v.shown)]
      BY <1>10, <2>3, <3>1
    <3>3. i - Len(v.shown) < j - Len(v.shown)
      BY <1>7, <2>0
    <3> QED
      BY <1>6, <3>2, <3>3
  <2> QED
    BY <2>1, <2>2, <2>3
<1>15. ASSUME c # Null, NEW k \in DOMAIN s
       PROVE  s[k] <= c
  <2>1. c \in E /\ \A j \in E : j <= c
    BY <1>1, <1>15
  <2>2. CASE k <= Len(v.shown)
    <3>1. s[k] \in Nat /\ s[k] <= since
      BY <1>7, <1>9, <1>10, <1>12, <2>2
    <3> QED
      BY <1>11, <2>1, <3>1
  <2>3. CASE ~(k <= Len(v.shown))
    <3>1. s[k] \in E
      BY <1>6, <1>10, <2>3
    <3> QED
      BY <2>1, <3>1
  <2> QED
    BY <2>2, <2>3
<1>16. c # Null => c \in E /\ c <= Len(audit)
  <2>1. c # Null => c \in E /\ c \in 1..Len(audit)
    BY <1>1
  <2> QED
    BY <1>1, <2>1
<1>17. Mark(u) <= Len(audit)
  BY <1>1, <1>3, <1>16 DEF Mark
<1>18. ASSUME edits = 0, NEW i \in Live(audit), i <= Mark(u),
              audit[i].event \in u.common
       PROVE  \E k \in DOMAIN s : s[k] = i
  <2>0. i \in Nat
    <3>1. audit \in Seq(Cells)
      BY DEF TypeOK, Cells
    <3>2. i \in 1..Len(audit)
      BY <3>1, TableShape
    <3> QED
      BY <1>1, <3>2
  <2>1. audit[i].event \in v.common /\ audit[i].event \in f
    BY <1>3, <1>18
  <2>2. CASE i <= since
    <3>1. PICK k \in DOMAIN v.shown : v.shown[k] = i
      BY <1>18, <2>1, <2>2 DEF Lists
    <3> QED
      BY <1>7, <1>10, <3>1
  <2>3. CASE ~(i <= since)
    <3>1. i \in Matching(f, since)
      BY <1>18, <2>0, <2>1, <2>3 DEF Matching
    <3>2. i \in E
      <4>1. CASE c = Null
        <5>1. Cardinality(E) # limit
          <6>1. Cardinality(E) = limit => c \in E
            BY <1>1
          <6>2. c \notin Nat
            BY <4>1, CursorAssumption
          <6> QED
            BY <1>11, <6>1, <6>2
        <5> QED
          BY <1>1, <3>1, <5>1
      <4>2. CASE c # Null
        <5>1. Cardinality(E) = limit /\ i <= c
          BY <1>1, <1>3, <1>18, <4>2 DEF Mark
        <5> QED
          BY <1>1, <3>1, <5>1
      <4> QED
        BY <4>1, <4>2
    <3>3. PICK k \in 1..Len(A) : A[k] = i
      BY <1>6, <3>2
    <3> QED
      BY <1>10, <3>3
  <2> QED
    BY <2>2, <2>3
<1>19. /\ u.next # Null => \A k \in DOMAIN u.shown : u.shown[k] <= u.next
       /\ edits = 0 => Lists(u, Mark(u))
  BY <1>3, <1>15, <1>18 DEF Lists
<1>20. ViewOK(u)
  BY <1>3, <1>13, <1>14, <1>17, <1>19 DEF ViewOK
<1> QED
  BY <1>20 DEF u

\* What one request reads of the table stays when others append to it; only an
\* edit by hand takes it away.
LEMMA TableGrows ==
  ASSUME TypeOK, [Next]_vars
  PROVE  /\ Len(audit) \in Nat /\ Len(audit) <= Len(audit')
         /\ edits' = 0 => edits = 0
         /\ edits' = 0 =>
              \A i \in Live(audit') :
                i <= Len(audit) => i \in Live(audit) /\ audit'[i] = audit[i]
<1>0. audit \in Seq(Cells) /\ Len(audit) \in Nat /\ edits \in Nat
  BY LenProperties, BoundAssumption DEF TypeOK, Cells
<1>1. ASSUME NEW event \in Events, AppendAudit(event)
      PROVE  /\ Len(audit) <= Len(audit') /\ edits' = edits
             /\ \A i \in Live(audit') :
                  i <= Len(audit) => i \in Live(audit) /\ audit'[i] = audit[i]
  <2>1. /\ audit' \in Seq(Cells) /\ Len(audit') = Len(audit) + 1
        /\ \A i \in 1..Len(audit) : audit'[i] = audit[i]
    BY <1>1, Appended
  <2>2. \A i \in Live(audit') : i \in Nat /\ 1 <= i /\ audit'[i] # Null
    BY <1>0, <2>1, TableShape
  <2>3. \A i \in Live(audit') : i <= Len(audit) => i \in 1..Len(audit)
    BY <1>0, <2>2
  <2>4. \A i \in 1..Len(audit) : audit[i] # Null => i \in Live(audit)
    BY <1>0, TableShape
  <2>5. edits' = edits
    BY <1>1 DEF AppendAudit
  <2> QED
    BY <1>0, <2>1, <2>2, <2>3, <2>4, <2>5
<1>2. CASE audit' = audit /\ edits' = edits
  BY <1>0, <1>2
<1>3. ASSUME NEW i \in 1..MaxRows, NEW event \in Events, EditRow(i, event)
      PROVE  Len(audit') = Len(audit) /\ edits' # 0
  BY <1>0, <1>3, EditedType DEF EditRow
<1>4. ASSUME NEW i \in 1..MaxRows, RemoveRow(i)
      PROVE  Len(audit') = Len(audit) /\ edits' # 0
  BY <1>0, <1>4 DEF RemoveRow
<1> QED
  BY <1>0, <1>1, <1>2, <1>3, <1>4
     DEF Next, vars, Begin, VerifyPage, VerifyDone, Restart

\* What is on a screen stays right while others append.
LEMMA GrowsOK ==
  ASSUME TypeOK, [Next]_vars, UNCHANGED view, NEW r \in Readers, ViewOK(view[r])
  PROVE  ViewOK(view[r])'
<1> DEFINE v == view[r]
<1>1. view'[r] = v
  OBVIOUS
<1>2. /\ v \in Views
      /\ Sorted(v.shown)
      /\ v.next # Null => \A k \in DOMAIN v.shown : v.shown[k] <= v.next
      /\ Mark(v) <= Len(audit)
      /\ edits = 0 => Lists(v, Mark(v))
  BY DEF ViewOK
<1> HIDE DEF v
<1>3. Mark(v) \in Nat
  BY <1>2, BoundAssumption DEF Mark, Views
<1>4. Len(audit') \in Nat /\ audit' \in Seq(Cells)
  BY NextType, LenProperties DEF TypeOK, Cells
<1>5. Mark(v) <= Len(audit')
  BY <1>2, <1>3, <1>4, TableGrows
<1>6. ASSUME edits' = 0, NEW i \in Live(audit'), i <= Mark(v),
             audit'[i].event \in v.common
      PROVE  \E k \in DOMAIN v.shown : v.shown[k] = i
  <2>1. i \in Nat /\ i <= Len(audit)
    BY <1>2, <1>3, <1>4, <1>6, TableGrows, TableShape
  <2>2. edits = 0 /\ i \in Live(audit) /\ audit[i].event \in v.common
    BY <1>6, <2>1, TableGrows
  <2> QED
    BY <1>2, <1>6, <2>2 DEF Lists
<1>7. edits' = 0 => \A i \in Live(audit') :
        i <= Mark(v) /\ audit'[i].event \in v.common
          => \E k \in DOMAIN v.shown : v.shown[k] = i
  BY <1>6
<1>8. /\ v \in Views
      /\ Sorted(v.shown)
      /\ v.next # Null => \A k \in DOMAIN v.shown : v.shown[k] <= v.next
      /\ Mark(v) <= Len(audit')
      /\ edits' = 0 => \A i \in Live(audit') :
           i <= Mark(v) /\ audit'[i].event \in v.common
             => \E k \in DOMAIN v.shown : v.shown[k] = i
  BY <1>2, <1>5, <1>7
<1> QED
  BY <1>1, <1>8 DEF ViewOK, Lists, Mark, v

LEMMA ClosedOK == TypeOK => ViewOK(Closed)
<1> SUFFICES ASSUME TypeOK
             PROVE  ViewOK(Closed)
  OBVIOUS
<1>1. audit \in Seq(Cells) /\ Len(audit) \in Nat
  BY LenProperties DEF TypeOK, Cells

<1>2. Closed \in Views
  <2>1. <<>> \in Seq(1..MaxRows)
    BY EmptySeq
  <2>2. Events \in Filters
    BY EventAssumption DEF Filters
  <2>3. 0 \in 0..MaxRows
    BY BoundAssumption
  <2> QED
    BY <2>1, <2>2, <2>3 DEF Closed, Views
<1>3. /\ Closed.shown = <<>> /\ Closed.next = Null /\ Closed.upTo = 0
  BY DEF Closed
<1>4. Sorted(<<>>) /\ Len(<<>>) = 0
  BY EmptySeq DEF Sorted
<1>5. Mark(Closed) = 0
  BY <1>3 DEF Mark
<1>6. Lists(Closed, 0)
  BY <1>1, TableShape DEF Lists
<1> QED
  BY <1>1, <1>2, <1>3, <1>4, <1>5, <1>6 DEF ViewOK

\* The first answer of a page
LEMMA FirstAnswerOK ==
  ASSUME TypeOK, NEW v \in Views, v.shown = <<>>,
         NEW f \in Filters, NEW limit \in Nat \ {0}
  PROVE  ViewOK(Shown(v, f, 0, limit))
<1>1. DOMAIN v.shown = {} /\ Sorted(v.shown)
  BY EmptySeq DEF Sorted
<1>2. edits = 0 => Lists(v, 0)
  <2>1. audit \in Seq(Cells)
    BY DEF TypeOK, Cells
  <2>2. \A i \in Live(audit) : ~(i <= 0)
    BY <2>1, TableShape
  <2> QED
    BY <2>2 DEF Lists
<1> QED
  BY <1>1, <1>2, ShownOK

\* Each request of a reader leaves its screen right.
LEMMA OpenOK ==
  ASSUME TypeOK, ReadInv, NEW r \in Readers, OpenAudit(r) \/ OpenProjectAudit(r)
  PROVE  ViewOK(view'[r]) /\ \A q \in Readers \ {r} : view'[q] = view[q]
<1>1. Closed \in Views
  BY ClosedOK DEF ViewOK
<1>2. CASE OpenAudit(r)
  <2>1. PICK f \in Filters, later \in Filters, limit \in 1..PageSize :
          view' = [view EXCEPT ![r] =
            Shown([Closed EXCEPT !.page = "org", !.later = later], f, 0, limit)]
    BY <1>2 DEF OpenAudit
  <2> DEFINE v == [Closed EXCEPT !.page = "org", !.later = later]
  <2>2. v \in Views /\ v.shown = <<>>
    BY <1>1 DEF Views, Closed
  <2>3. limit \in Nat \ {0}
    BY PageAssumption
  <2>4. view' = [view EXCEPT ![r] = Shown(v, f, 0, limit)]
    BY <2>1
  <2> HIDE DEF v
  <2>5. ViewOK(Shown(v, f, 0, limit))
    BY <2>2, <2>3, FirstAnswerOK
  <2> QED
    BY <2>4, <2>5 DEF ReadInv
<1>3. CASE OpenProjectAudit(r)
  <2> DEFINE v == [Closed EXCEPT !.page = "project"]
  <2>1. PICK f \in Filters : view' = [view EXCEPT ![r] = Shown(v, f, 0, PageSize)]
    BY <1>3 DEF OpenProjectAudit
  <2>2. v \in Views /\ v.shown = <<>>
    BY <1>1 DEF Views, Closed
  <2> HIDE DEF v
  <2>3. ViewOK(Shown(v, f, 0, PageSize))
    BY <2>2, PageAssumption, FirstAnswerOK
  <2> QED
    BY <2>1, <2>3 DEF ReadInv
<1> QED
  BY <1>2, <1>3

LEMMA SelectOK ==
  ASSUME TypeOK, ReadInv, NEW r \in Readers, SelectProject(r)
  PROVE  ViewOK(view'[r]) /\ \A q \in Readers \ {r} : view'[q] = view[q]
<1>1. PICK f \in Filters : view' = [view EXCEPT ![r].later = f]
  BY DEF SelectProject
<1> DEFINE v == view[r]
           u == [v EXCEPT !.later = f]
<1>2. v \in Views /\ ViewOK(v)
  BY DEF ReadInv
<1>3. view' = [view EXCEPT ![r] = u]
  BY <1>1
<1> HIDE DEF v
<1>4. /\ u \in Views
      /\ u.shown = v.shown /\ u.next = v.next /\ u.upTo = v.upTo
      /\ u.common = v.common
  BY <1>2 DEF Views
<1> HIDE DEF u
<1>5. ViewOK(u)
  BY <1>2, <1>4 DEF ViewOK, Mark, Lists
<1> QED
  BY <1>3, <1>5 DEF ReadInv

LEMMA LoadMoreOK ==
  ASSUME TypeOK, ReadInv, NEW r \in Readers, LoadMore(r)
  PROVE  ViewOK(view'[r]) /\ \A q \in Readers \ {r} : view'[q] = view[q]
<1> DEFINE v == view[r]
           u == Shown(v, v.later, v.next, PageSize)
<1>1. v \in Views /\ ViewOK(v) /\ v.next # Null
  BY DEF ReadInv, LoadMore
<1>2. view' = [view EXCEPT ![r] = u]
  BY DEF LoadMore
<1> HIDE DEF v
<1>3. v.next \in Nat /\ v.later \in Filters /\ PageSize \in Nat \ {0}
  BY <1>1, PageAssumption DEF Views
<1>4. Mark(v) = v.next
  BY <1>1 DEF Mark
<1>5. /\ Sorted(v.shown) /\ \A k \in DOMAIN v.shown : v.shown[k] <= v.next
      /\ edits = 0 => Lists(v, v.next)
  BY <1>1, <1>4 DEF ViewOK
<1>6. ViewOK(u)
  BY <1>1, <1>3, <1>5, ShownOK
<1> HIDE DEF u
<1> QED
  BY <1>2, <1>6 DEF ReadInv

LEMMA ReadingStep == TypeOK /\ ReadInv /\ [ReadingNext]_readingVars => ReadInv'
<1> SUFFICES ASSUME TypeOK, ReadInv, [ReadingNext]_readingVars
             PROVE  ReadInv'
  OBVIOUS
<1>1. CASE [Next]_vars /\ UNCHANGED view
  <2>1. \A r \in Readers : ViewOK(view[r])'
    BY <1>1, GrowsOK DEF ReadInv
  <2> QED
    BY <1>1, <2>1 DEF ReadInv
<1>2. ASSUME NEW r \in Readers, Read(r)
      PROVE  ReadInv'
  <2>1. UNCHANGED vars
    BY <1>2 DEF Read, OpenAudit, OpenProjectAudit, SelectProject, LoadMore
  <2>2. ViewOK(view'[r]) /\ \A q \in Readers \ {r} : view'[q] = view[q]
    BY <1>2, OpenOK, SelectOK, LoadMoreOK DEF Read
  <2>3. \A q \in Readers : ViewOK(view'[q])
    BY <2>2 DEF ReadInv
  <2>4. audit' = audit /\ edits' = edits
    BY <2>1 DEF vars
  <2>5. \E s \in [Readers -> Views] : view' = s
    <3>1. \A q \in Readers : view'[q] \in Views
      BY <2>3 DEF ViewOK
    <3>2. \E x : view' = [view EXCEPT ![r] = x]
      BY <1>2 DEF Read, OpenAudit, OpenProjectAudit, SelectProject, LoadMore
    <3> QED
      BY <3>1, <3>2 DEF ReadInv
  <2> QED
    BY <2>3, <2>4, <2>5 DEF ReadInv, ViewOK, Lists, Mark
<1> QED
  BY <1>1, <1>2 DEF ReadingNext, readingVars

\* The readers change nothing of the log: with them it still is AuditLog, so
\* what is proved of AuditLog holds next to them.
THEOREM ReadingImplementsAuditLog == ReadingSpec => Spec
<1>1. ReadingInit => Init
  BY DEF ReadingInit
<1>2. [ReadingNext]_readingVars => [Next]_vars
  BY DEF ReadingNext, readingVars, Read, OpenAudit, OpenProjectAudit,
         SelectProject, LoadMore
<1> QED
  BY <1>1, <1>2, PTL DEF ReadingSpec, Spec

\* Whatever is appended between the pages of GET /v1/audit (audit.ts) and
\* wherever a page ends, the audit pages of the web application show no entry
\* twice and, once "load more" is gone, every entry that all their requests
\* asked for (EveryEntryOnce), for any number of rows and any page size.
THEOREM EntriesShownOnce == ReadingSpec => []EveryEntryOnce
<1>1. ReadingInit => ReadInv
  <2> SUFFICES ASSUME ReadingInit
               PROVE  ReadInv
    OBVIOUS
  <2>1. TypeOK
    BY InitType DEF ReadingInit
  <2>2. ViewOK(Closed) /\ view = [r \in Readers |-> Closed]
    BY <2>1, ClosedOK DEF ReadingInit
  <2> HIDE DEF ReadingInit
  <2> QED
    BY <2>2 DEF ReadInv, ViewOK
<1>2. IInv => TypeOK
  BY DEF IInv
<1>3. ReadInv => EveryEntryOnce
  BY DEF ReadInv, ViewOK, Sorted, Mark, Lists, EveryEntryOnce
<1>4. ReadingSpec => []IInv
  BY ReadingImplementsAuditLog, Invariance, PTL
<1> QED
  BY <1>1, <1>2, <1>3, <1>4, ReadingStep, PTL DEF ReadingSpec

-----------------------------------------------------------------------------
(* keynv init.  What planVaultKeys makes of the files it is given.         *)

(* A finite set has a minimal element under any strict order.              *)
LEMMA FiniteMinimal ==
  ASSUME NEW S, IsFiniteSet(S), S # {}, NEW R,
         \A x \in S : <<x, x>> \notin R,
         \A x, y, z \in S : <<x, y>> \in R /\ <<y, z>> \in R => <<x, z>> \in R
  PROVE  \E m \in S : \A k \in S : <<k, m>> \notin R
<1> DEFINE Below(m) == {s \in S : <<s, m>> \in R}
           T        == {Below(m) : m \in S}
<1>1. T \subseteq FiniteSubsetsOf(S) /\ T # {}
  <2>1. T \subseteq SUBSET S /\ T # {}
    <3>1. \A m \in S : Below(m) \in SUBSET S
      OBVIOUS
    <3>2. PICK m \in S : TRUE
      OBVIOUS
    <3>3. Below(m) \in T
      OBVIOUS
    <3> HIDE DEF Below
    <3>. QED BY <3>1, <3>3
  <2>. QED BY <2>1, FS_FiniteSubsetsOfFinite
<1>2. IsWellFoundedOn(StrictSubsetOrdering(S), FiniteSubsetsOf(S))
  BY FS_StrictSubsetOrderingWellFounded
<1>3. PICK B \in T : \A C \in T : <<C, B>> \notin StrictSubsetOrdering(S)
  <2> HIDE DEF T
  <2>. QED BY <1>1, <1>2, WFMin
<1>4. PICK m \in S : B = Below(m)
  OBVIOUS
<1>5. ASSUME NEW k \in S, <<k, m>> \in R PROVE FALSE
  <2>1. Below(k) \subseteq Below(m)
    BY <1>5
  <2>2. k \in Below(m) /\ k \notin Below(k)
    BY <1>5
  <2>3. <<Below(k), Below(m)>> \in StrictSubsetOrdering(S)
    BY <2>1, <2>2 DEF StrictSubsetOrdering
  <2>. QED BY <2>3, <1>3, <1>4
<1>. QED BY <1>5

LEMMA RankIs ==
  ASSUME NEW T, NEW order \in Seq(T), NEW x \in ToSet(order)
  PROVE  Rank(order, x) \in Nat \ {0} /\ order[Rank(order, x)] = x
<1>1. \E i \in DOMAIN order : order[i] = x
  BY DEF ToSet
<1>. QED BY <1>1 DEF Rank

(* Where the files of a tree stand in the listing. *)
LEMMA FileRanks ==
  ASSUME NEW root, NEW f \in Tree
  PROVE  DirRank(root, f.dir) \in Nat /\ SuffixRank(f.suffix) \in Nat
BY OrderAssumption, RankIs DEF OrderAssumption, DirRank, SuffixRank

LEMMA DirRankApart ==
  ASSUME NEW root, NEW f \in Tree, NEW g \in Tree,
         DirRank(root, f.dir) = DirRank(root, g.dir)
  PROVE  f.dir = g.dir
<1>1. ASSUME NEW d \in {f.dir, g.dir}, d # root
      PROVE  DirRank(root, d) \in Nat \ {0} /\ Paths[DirRank(root, d)] = d
  BY <1>1, OrderAssumption, RankIs DEF OrderAssumption, DirRank
<1>2. DirRank(root, root) = 0
  BY DEF DirRank
<1>. QED BY <1>1, <1>2

LEMMA SuffixRankApart ==
  ASSUME NEW f \in Tree, NEW g \in Tree, SuffixRank(f.suffix) = SuffixRank(g.suffix)
  PROVE  f.suffix = g.suffix
<1>1. ASSUME NEW s \in {f.suffix, g.suffix}, s # ""
      PROVE  SuffixRank(s) \in Nat \ {0} /\ Words[SuffixRank(s)] = s
  BY <1>1, OrderAssumption, RankIs DEF OrderAssumption, SuffixRank
<1>2. SuffixRank("") = 0
  BY DEF SuffixRank
<1>. QED BY <1>1, <1>2

LEMMA EarlierIsOrder ==
  ASSUME NEW root
  PROVE  /\ \A f \in Tree : ~Earlier(root, f, f)
         /\ \A f, g, h \in Tree : Earlier(root, f, g) /\ Earlier(root, g, h) => Earlier(root, f, h)
         /\ \A f, g \in Tree : f # g => Earlier(root, f, g) \/ Earlier(root, g, f)
<1>1. \A f \in Tree : DirRank(root, f.dir) \in Nat /\ SuffixRank(f.suffix) \in Nat
  BY FileRanks
<1>2. ASSUME NEW f \in Tree, NEW g \in Tree, f # g
      PROVE  Earlier(root, f, g) \/ Earlier(root, g, f)
  <2>1. f = [dir |-> f.dir, suffix |-> f.suffix] /\ g = [dir |-> g.dir, suffix |-> g.suffix]
    BY OrderAssumption DEF OrderAssumption
  <2>2. f.dir # g.dir \/ f.suffix # g.suffix
    BY <2>1, <1>2
  <2>3. DirRank(root, f.dir) # DirRank(root, g.dir) \/ SuffixRank(f.suffix) # SuffixRank(g.suffix)
    BY <2>2, DirRankApart, SuffixRankApart
  <2>. QED BY <2>3, <1>1 DEF Earlier
<1>3. \A f \in Tree : ~Earlier(root, f, f)
  BY <1>1 DEF Earlier
<1>4. \A f, g, h \in Tree : Earlier(root, f, g) /\ Earlier(root, g, h) => Earlier(root, f, h)
  BY <1>1 DEF Earlier
<1>. QED BY <1>2, <1>3, <1>4

(* What makes the entries of a plan comparable: they come from files of    *)
(* the tree, a file goes to one environment, and a slot has one entry.     *)
Orderly(P) ==
  /\ \A e \in P : /\ e.file \in Tree /\ e.first \in Tree /\ e.first.dir = e.file.dir
                  /\ e.opened \in Tree /\ e.name \in ToSet(Words)
  /\ \A a, b \in P : a.file = b.file \/ a.first = b.first => a.env = b.env
  /\ \A a, b \in P : a.first = b.first => a.opened = b.opened
  /\ \A a, b \in P : SameSlot(a, b) => a = b

LEMMA OrderlyFinite ==
  ASSUME NEW P, Orderly(P)
  PROVE  IsFiniteSet(P)
<1> DEFINE at == [e \in P |-> <<e.file, e.name>>]
<1>1. IsFiniteSet(Tree) /\ IsFiniteSet(ToSet(Words))
  <2>1. Words \in Seq(ToSet(Words))
    BY OrderAssumption DEF OrderAssumption
  <2>2. Words \in Surjection(1 .. Len(Words), ToSet(Words))
    BY <2>1 DEF Surjection, ToSet
  <2>3. IsFiniteSet(1 .. Len(Words))
    BY <2>1, FS_Interval
  <2>4. IsFiniteSet(ToSet(Words))
    BY <2>2, <2>3, FS_Surjection
  <2>. QED BY <2>4, OrderAssumption DEF OrderAssumption
<1>2. at \in [P -> Tree \X ToSet(Words)]
  BY DEF Orderly
<1>3. \A a, b \in P : at[a] = at[b] => a = b
  BY DEF Orderly, SameSlot, SameDir
<1>4. at \in Injection(P, Tree \X ToSet(Words))
  BY <1>2, <1>3 DEF Injection, IsInjective
<1>5. IsFiniteSet(Tree \X ToSet(Words))
  BY <1>1, FS_Product
<1> HIDE DEF at
<1>. QED BY <1>4, <1>5, FS_Injection

LEMMA NameRanks ==
  ASSUME NEW x \in ToSet(Words)
  PROVE  Rank(Words, x) \in Nat /\ Words[Rank(Words, x)] = x
BY OrderAssumption, RankIs DEF OrderAssumption

(* The names of a plan are seen one after the other. *)
LEMMA SeenIsOrder ==
  ASSUME NEW root, NEW P, Orderly(P)
  PROVE  /\ \A a \in P : ~SeenBefore(root, a, a)
         /\ \A a, b, c \in P : SeenBefore(root, a, b) /\ SeenBefore(root, b, c) => SeenBefore(root, a, c)
         /\ \A a, b \in P : a # b => SeenBefore(root, a, b) \/ SeenBefore(root, b, a)
<1>1. \A e \in P : /\ e.first \in Tree /\ e.opened \in Tree
                    /\ Rank(Words, e.name) \in Nat /\ Words[Rank(Words, e.name)] = e.name
  BY NameRanks DEF Orderly
<1>2. \A a \in P : ~SeenBefore(root, a, a)
  BY <1>1, EarlierIsOrder DEF SeenBefore
<1>3. ASSUME NEW a \in P, NEW b \in P, NEW c \in P, SeenBefore(root, a, b), SeenBefore(root, b, c)
      PROVE  SeenBefore(root, a, c)
  <2>1. CASE a.first = b.first /\ b.first = c.first
    <3>1. a.opened = b.opened /\ b.opened = c.opened
      BY <2>1 DEF Orderly
    <3>2. Rank(Words, a.name) < Rank(Words, b.name) /\ Rank(Words, b.name) < Rank(Words, c.name)
      BY <1>1, <1>3, <2>1, <3>1, EarlierIsOrder DEF SeenBefore
    <3>. QED BY <1>1, <2>1, <3>2 DEF SeenBefore
  <2>2. CASE a.opened = b.opened /\ b.opened = c.opened /\ ~(a.first = b.first /\ b.first = c.first)
    <3>1. \/ a.first = b.first /\ Earlier(root, b.first, c.first)
          \/ Earlier(root, a.first, b.first) /\ b.first = c.first
          \/ Earlier(root, a.first, b.first) /\ Earlier(root, b.first, c.first)
      BY <1>1, <1>3, <2>2, EarlierIsOrder DEF SeenBefore
    <3>2. Earlier(root, a.first, c.first)
      BY <1>1, <3>1, EarlierIsOrder
    <3>. QED BY <2>2, <3>2 DEF SeenBefore
  <2>3. CASE a.opened # b.opened \/ b.opened # c.opened
    <3>1. /\ a.opened # b.opened => a.first # b.first
          /\ b.opened # c.opened => b.first # c.first
      BY DEF Orderly
    <3>2. /\ a.opened = b.opened \/ Earlier(root, a.opened, b.opened)
          /\ b.opened = c.opened \/ Earlier(root, b.opened, c.opened)
      BY <1>3, <3>1 DEF SeenBefore
    <3>3. Earlier(root, a.opened, c.opened)
      BY <1>1, <2>3, <3>2, EarlierIsOrder
    <3>. QED BY <3>3 DEF SeenBefore
  <2>. QED BY <2>1, <2>2, <2>3
<1>4. ASSUME NEW a \in P, NEW b \in P, a # b
      PROVE  SeenBefore(root, a, b) \/ SeenBefore(root, b, a)
  <2>1. CASE a.opened # b.opened
    BY <1>1, <2>1, EarlierIsOrder DEF SeenBefore
  <2>2. CASE a.opened = b.opened /\ a.first # b.first
    BY <1>1, <2>2, EarlierIsOrder DEF SeenBefore
  <2>3. CASE a.first = b.first
    <3>1. a.name # b.name
      BY <1>4, <2>3 DEF Orderly, SameSlot, SameDir
    <3>2. Rank(Words, a.name) # Rank(Words, b.name)
      BY <1>1, <3>1
    <3>. QED BY <1>1, <2>3, <3>2 DEF SeenBefore
  <2>. QED BY <2>1, <2>2, <2>3
<1>. QED BY <1>2, <1>3, <1>4

(* Each group has a first entry. *)
LEMMA GroupHasFirst ==
  ASSUME NEW root, NEW P, Orderly(P), NEW e \in P
  PROVE  \E x \in Group(e, P) : \A y \in Group(e, P) : x = y \/ SeenBefore(root, x, y)
<1> DEFINE G == Group(e, P)
           R == {p \in P \X P : SeenBefore(root, p[1], p[2])}
<1>1. G \subseteq P /\ e \in G
  BY DEF Group, SameGroup
<1>2. IsFiniteSet(G)
  BY <1>1, OrderlyFinite, FS_Subset
<1>3. \A a, b \in P : <<a, b>> \in R <=> SeenBefore(root, a, b)
  OBVIOUS
<1>4. PICK x \in G : \A k \in G : <<k, x>> \notin R
  <2>1. \A a \in G : <<a, a>> \notin R
    BY <1>1, <1>3, SeenIsOrder
  <2>2. \A a, b, c \in G : <<a, b>> \in R /\ <<b, c>> \in R => <<a, c>> \in R
    BY <1>1, <1>3, SeenIsOrder
  <2> HIDE DEF G, R
  <2>. QED BY <1>1, <1>2, <2>1, <2>2, FiniteMinimal
<1> HIDE DEF R
<1>. QED BY <1>1, <1>3, <1>4, SeenIsOrder

(* The entries of a plan come one after the other. *)
LEMMA PlanIsOrder ==
  ASSUME NEW root, NEW P, Orderly(P)
  PROVE  /\ \A a \in P : ~PlanBefore(root, P, a, a)
         /\ \A a, b, c \in P : PlanBefore(root, P, a, b) /\ PlanBefore(root, P, b, c)
                                 => PlanBefore(root, P, a, c)
         /\ \A a, b \in P : a # b => PlanBefore(root, P, a, b) \/ PlanBefore(root, P, b, a)
<1> DEFINE Lead(a, b) == \E x \in Group(a, P) : \A y \in Group(b, P) : SeenBefore(root, x, y)
<1>1. \A a \in P : Group(a, P) \subseteq P /\ a \in Group(a, P)
  BY DEF Group, SameGroup
<1>2. \A a, b \in P : SameGroup(a, b) => Group(a, P) = Group(b, P)
  BY DEF Group, SameGroup
<1>3. \A a, b \in P : PlanBefore(root, P, a, b) <=>
          \/ SameGroup(a, b) /\ SeenBefore(root, a, b)
          \/ ~SameGroup(a, b) /\ Lead(a, b)
  BY DEF PlanBefore
<1>4. \A a, b, c \in P : SameGroup(a, b) /\ SameGroup(b, c) => SameGroup(a, c)
  BY DEF SameGroup
<1>5. \A a, b \in P : SameGroup(a, a) /\ (SameGroup(a, b) => SameGroup(b, a))
  BY DEF SameGroup
<1>6. \A a \in P : ~Lead(a, a)
  BY <1>1, SeenIsOrder
<1>7. ASSUME NEW a \in P, NEW b \in P, NEW c \in P, Lead(a, b), Lead(b, c)
      PROVE  Lead(a, c)
  <2>1. PICK x \in Group(a, P) : \A y \in Group(b, P) : SeenBefore(root, x, y)
    BY <1>7
  <2>2. PICK y \in Group(b, P) : \A z \in Group(c, P) : SeenBefore(root, y, z)
    BY <1>7
  <2>3. \A z \in Group(c, P) : SeenBefore(root, x, z)
    BY <1>1, <2>1, <2>2, SeenIsOrder
  <2>. QED BY <2>3
<1>8. ASSUME NEW a \in P, NEW b \in P, ~SameGroup(a, b)
      PROVE  Lead(a, b) \/ Lead(b, a)
  <2>1. PICK x \in Group(a, P) : \A y \in Group(a, P) : x = y \/ SeenBefore(root, x, y)
    BY GroupHasFirst
  <2>2. PICK y \in Group(b, P) : \A z \in Group(b, P) : y = z \/ SeenBefore(root, y, z)
    BY GroupHasFirst
  <2>3. x # y
    BY <1>8 DEF Group, SameGroup
  <2>4. CASE SeenBefore(root, x, y)
    <3>1. \A z \in Group(b, P) : SeenBefore(root, x, z)
      BY <1>1, <2>2, <2>4, SeenIsOrder
    <3>. QED BY <3>1
  <2>5. CASE SeenBefore(root, y, x)
    <3>1. \A z \in Group(a, P) : SeenBefore(root, y, z)
      BY <1>1, <2>1, <2>5, SeenIsOrder
    <3>. QED BY <3>1
  <2>. QED BY <1>1, <2>3, <2>4, <2>5, SeenIsOrder
<1>9. \A a, b, c \in P : /\ SameGroup(a, b) => (Lead(a, c) <=> Lead(b, c))
                         /\ SameGroup(b, c) => (Lead(a, b) <=> Lead(a, c))
  BY <1>2
<1> HIDE DEF Lead
<1>10. \A a \in P : ~PlanBefore(root, P, a, a)
  BY <1>3, <1>6, SeenIsOrder
<1>11. \A a, b, c \in P : PlanBefore(root, P, a, b) /\ PlanBefore(root, P, b, c)
                            => PlanBefore(root, P, a, c)
  BY <1>3, <1>4, <1>5, <1>6, <1>7, <1>9, SeenIsOrder
<1>12. \A a, b \in P : a # b => PlanBefore(root, P, a, b) \/ PlanBefore(root, P, b, a)
  BY <1>3, <1>5, <1>8, SeenIsOrder
<1>. QED BY <1>10, <1>11, <1>12

(* Of any entries of a plan there is a first one. *)
LEMMA FirstsExist ==
  ASSUME NEW root, NEW P, Orderly(P), NEW S \in SUBSET P, S # {}
  PROVE  Firsts(root, P, S) # {}
<1> DEFINE R == {p \in P \X P : PlanBefore(root, P, p[1], p[2])}
<1>1. IsFiniteSet(S)
  BY OrderlyFinite, FS_Subset
<1>2. \A a, b \in P : <<a, b>> \in R <=> PlanBefore(root, P, a, b)
  OBVIOUS
<1>3. \A a \in S : <<a, a>> \notin R
  BY <1>2, PlanIsOrder
<1>4. \A a, b, c \in S : <<a, b>> \in R /\ <<b, c>> \in R => <<a, c>> \in R
  BY <1>2, PlanIsOrder
<1> HIDE DEF R
<1>5. PICK m \in S : \A k \in S : <<k, m>> \notin R
  BY <1>1, <1>3, <1>4, FiniteMinimal
<1>. QED BY <1>2, <1>5 DEF Firsts

(* What is read from the files of a tree. *)
Readable(S) ==
  /\ \A e \in S : e.file \in Tree /\ e.name \in ToSet(Words)
  /\ \A a, b \in S : a.file = b.file => a.env = b.env
  /\ \A a, b \in S : a.file = b.file /\ a.name = b.name => a = b

(* A kept entry has the file of the last and the place of the first of its slot. *)
Spans(root, S, e, x, y) ==
  /\ x \in S /\ y \in S /\ SameSlot(x, y)
  /\ \A z \in S : SameSlot(z, x) => ~Earlier(root, z.file, x.file) /\ ~Earlier(root, y.file, z.file)
  /\ e = [file |-> y.file, first |-> x.file, opened |-> Opened(root, x, S),
          env |-> y.env, name |-> y.name, value |-> y.value]

LEMMA KeptSpans ==
  ASSUME NEW root, NEW S, NEW e \in LastWins(root, S)
  PROVE  \E x, y \in S : Spans(root, S, e, x, y)
<1>1. PICK q \in S \X S : /\ SameSlot(q[1], q[2])
                          /\ \A z \in S : SameSlot(z, q[1]) =>
                               ~Earlier(root, z.file, q[1].file) /\ ~Earlier(root, q[2].file, z.file)
                          /\ e = [file |-> q[2].file, first |-> q[1].file,
                                  opened |-> Opened(root, q[1], S), env |-> q[2].env,
                                  name |-> q[2].name, value |-> q[2].value]
  BY DEF LastWins
<1>2. q[1] \in S /\ q[2] \in S
  OBVIOUS
<1>3. Spans(root, S, e, q[1], q[2])
  BY <1>1, <1>2 DEF Spans
<1>. QED BY <1>2, <1>3

LEMMA SpansUnique ==
  ASSUME NEW root, NEW S, Readable(S), NEW d, NEW e, NEW x, NEW y, NEW v, NEW w,
         Spans(root, S, d, x, y), Spans(root, S, e, v, w), SameSlot(y, w)
  PROVE  x = v /\ y = w
<1>1. x \in S /\ y \in S /\ v \in S /\ w \in S
  BY DEF Spans
<1>2. SameSlot(v, x) /\ SameSlot(x, v) /\ SameSlot(w, x) /\ SameSlot(y, v)
  BY DEF Spans, SameSlot, SameDir
<1>3. /\ ~Earlier(root, v.file, x.file) /\ ~Earlier(root, x.file, v.file)
      /\ ~Earlier(root, y.file, w.file) /\ ~Earlier(root, w.file, y.file)
  BY <1>1, <1>2 DEF Spans
<1>4. x.file \in Tree /\ y.file \in Tree /\ v.file \in Tree /\ w.file \in Tree
  BY <1>1 DEF Readable
<1>5. x.file = v.file /\ y.file = w.file
  BY <1>3, <1>4, EarlierIsOrder
<1>6. x.name = v.name /\ y.name = w.name
  BY <1>2 DEF SameSlot, SameDir
<1>. QED BY <1>1, <1>5, <1>6 DEF Readable

(* The first file of a directory for an environment is a file of the tree. *)
LEMMA OpenedIs ==
  ASSUME NEW root, NEW S, Readable(S), NEW e \in S
  PROVE  Opened(root, e, S) \in Tree
<1> DEFINE files == {x.file : x \in {x \in S : SameDir(x, e)}}
           R == {p \in Tree \X Tree : Earlier(root, p[1], p[2])}
<1>1. files \subseteq Tree /\ e.file \in files
  BY DEF Readable, SameDir
<1>2. IsFiniteSet(files)
  BY <1>1, OrderAssumption, FS_Subset DEF OrderAssumption
<1>3. \A f, g \in Tree : <<f, g>> \in R <=> Earlier(root, f, g)
  OBVIOUS
<1> HIDE DEF files, R
<1>4. /\ \A f \in files : <<f, f>> \notin R
      /\ \A f, g, h \in files : <<f, g>> \in R /\ <<g, h>> \in R => <<f, h>> \in R
  BY <1>1, <1>3, EarlierIsOrder
<1>5. PICK f \in files : \A g \in files : <<g, f>> \notin R
  BY <1>1, <1>2, <1>4, FiniteMinimal
<1>6. f \in FirstFiles(root, files)
  BY <1>1, <1>3, <1>5 DEF FirstFiles
<1>7. Opened(root, e, S) \in FirstFiles(root, files)
  BY <1>6 DEF Opened, files
<1>. QED BY <1>1, <1>7 DEF FirstFiles

LEMMA KeptIsOrderly ==
  ASSUME NEW root, NEW S, Readable(S)
  PROVE  Orderly(LastWins(root, S))
<1> DEFINE P == LastWins(root, S)
<1>1. ASSUME NEW e \in P
      PROVE  /\ e.file \in Tree /\ e.first \in Tree /\ e.first.dir = e.file.dir
             /\ e.opened \in Tree /\ e.name \in ToSet(Words)
  <2>1. PICK x \in S, y \in S : Spans(root, S, e, x, y)
    BY KeptSpans
  <2>2. /\ e.file = y.file /\ e.first = x.file /\ e.name = y.name /\ SameSlot(x, y)
        /\ e.opened = Opened(root, x, S)
    BY <2>1 DEF Spans
  <2>. QED BY <2>1, <2>2, OpenedIs DEF Readable, SameSlot, SameDir
<1>2. ASSUME NEW a \in P, NEW b \in P
      PROVE  /\ a.file = b.file \/ a.first = b.first => a.env = b.env
             /\ a.first = b.first => a.opened = b.opened
             /\ SameSlot(a, b) => a = b
  <2>1. PICK x \in S, y \in S : Spans(root, S, a, x, y)
    BY KeptSpans
  <2>2. PICK v \in S, w \in S : Spans(root, S, b, v, w)
    BY KeptSpans
  <2>3. /\ a.file = y.file /\ a.first = x.file /\ a.env = y.env /\ a.name = y.name /\ SameSlot(x, y)
        /\ b.file = w.file /\ b.first = v.file /\ b.env = w.env /\ b.name = w.name /\ SameSlot(v, w)
    BY <2>1, <2>2 DEF Spans
  <2>4. a.file = b.file \/ a.first = b.first => a.env = b.env
    BY <2>3 DEF Readable, SameSlot, SameDir
  <2>6. ASSUME a.first = b.first PROVE a.opened = b.opened
    <3>1. x.file = v.file /\ x.env = v.env
      BY <2>3, <2>6 DEF Readable
    <3>2. Opened(root, x, S) = Opened(root, v, S)
      BY <3>1 DEF Opened, SameDir
    <3>. QED BY <2>1, <2>2, <3>2 DEF Spans
  <2>5. ASSUME SameSlot(a, b) PROVE a = b
    <3>1. SameSlot(y, w)
      BY <2>3, <2>5 DEF SameSlot, SameDir
    <3>2. x = v /\ y = w
      BY <2>1, <2>2, <3>1, SpansUnique
    <3>. QED BY <2>1, <2>2, <3>2 DEF Spans
  <2>. QED BY <2>4, <2>5, <2>6
<1>. QED BY <1>1, <1>2 DEF Orderly

(* Entries that end on one key with one number have one name. *)
LEMMA NumbersApart ==
  ASSUME NEW root, NEW P, Orderly(P), NEW a \in P, NEW b \in P, a.env = b.env,
         KeyOf(root, a, P) = KeyOf(root, b, P), Number(root, a, P) = Number(root, b, P)
  PROVE  a.name = b.name
<1> DEFINE clash   == {x \in P : x.env = a.env /\ KeyOf(root, x, P) = KeyOf(root, a, P)}
           heads   == Firsts(root, P, clash)
           others  == {x \in clash : \A h \in heads : x.name # h.name}
           upTo(e) == {x \in others : x = e \/ PlanBefore(root, P, x, e)}
<1>1. clash = {x \in P : x.env = b.env /\ KeyOf(root, x, P) = KeyOf(root, b, P)}
  OBVIOUS
<1>2. /\ Number(root, a, P) = IF a \notin others THEN 1 ELSE 1 + Cardinality(upTo(a))
      /\ Number(root, b, P) = IF b \notin others THEN 1 ELSE 1 + Cardinality(upTo(b))
  BY <1>1 DEF Number
<1>3. a \in clash /\ b \in clash /\ clash \subseteq P
  OBVIOUS
<1>4. heads \subseteq clash /\ \A h, k \in heads : ~PlanBefore(root, P, h, k)
  BY DEF Firsts
<1>5. others \subseteq P
  OBVIOUS
<1>6. (a \notin others => \E h \in heads : a.name = h.name) /\ (b \notin others => \E h \in heads : b.name = h.name)
  BY <1>3
<1> HIDE DEF clash, heads, others
<1>7. \A h, k \in heads : h = k
  BY <1>3, <1>4, PlanIsOrder
<1>8. \A e \in P : upTo(e) \subseteq P /\ IsFiniteSet(upTo(e)) /\ Cardinality(upTo(e)) \in Nat
  BY <1>5, OrderlyFinite, FS_Subset, FS_CardinalityType
<1>9. ASSUME NEW e \in others PROVE Cardinality(upTo(e)) # 0
  <2>1. e \in upTo(e)
    BY <1>9
  <2>2. IsFiniteSet(upTo(e))
    BY <1>5, <1>8
  <2> HIDE DEF upTo
  <2>. QED BY <2>1, <2>2, FS_EmptySet
<1>10. ASSUME NEW e \in others, NEW f \in others, PlanBefore(root, P, e, f)
       PROVE  Cardinality(upTo(e)) # Cardinality(upTo(f))
  <2>1. upTo(e) \subseteq upTo(f)
    <3>1. ASSUME NEW x \in others, PlanBefore(root, P, x, e)
          PROVE  PlanBefore(root, P, x, f)
      BY <1>5, <1>10, <3>1, PlanIsOrder
    <3>. QED BY <1>10, <3>1
  <2>2. f \in upTo(f) /\ f \notin upTo(e)
    BY <1>5, <1>10, PlanIsOrder
  <2>3. IsFiniteSet(upTo(f))
    BY <1>5, <1>8
  <2> HIDE DEF upTo
  <2>. QED BY <2>1, <2>2, <2>3, FS_Subset
<1> DEFINE c == Cardinality(upTo(a))
           d == Cardinality(upTo(b))
<1>11. c \in Nat /\ d \in Nat /\ (a \in others => c # 0) /\ (b \in others => d # 0)
  BY <1>8, <1>9
<1>12. (IF a \notin others THEN 1 ELSE 1 + c) = (IF b \notin others THEN 1 ELSE 1 + d)
  BY <1>2
<1>13. a \in others /\ b \in others /\ c = d => a = b
  BY <1>5, <1>10, PlanIsOrder
<1> HIDE DEF upTo, c, d
<1>14. CASE a \notin others /\ b \notin others
  BY <1>6, <1>7, <1>14
<1>15. CASE a \in others /\ b \in others
  BY <1>15, <1>11, <1>12, <1>13
<1>16. ~(a \in others /\ b \notin others) /\ ~(a \notin others /\ b \in others)
  BY <1>11, <1>12
<1>. QED BY <1>14, <1>15, <1>16

(* Entries of one name that end on one key have one value. *)
LEMMA KeysApart ==
  ASSUME NEW root, SlugsApartBelow(root), NEW P, Orderly(P), \A e \in P : Reached(root, e.file),
         NEW a \in P, NEW b \in P, a.env = b.env, a.name = b.name,
         KeyOf(root, a, P) = KeyOf(root, b, P)
  PROVE  a.value = b.value
<1> DEFINE group    == Group(a, P)
           rel(x)   == RelativeDir(root, x.file.dir)
           agree(e) == \A x \in group : x.value = e.value
           apart    == \A x, y \in group : x # y => InitialSlug(rel(x)) # InitialSlug(rel(y))
           keyOf(e)   == ToAliasKey(IF agree(e) THEN NoSlug
                                  ELSE IF apart THEN InitialSlug(rel(e)) ELSE FullSlug(rel(e)), e.name)
<1>1. group = Group(b, P) /\ a \in group /\ b \in group /\ group \subseteq P
  BY DEF Group, SameGroup
<1>2. KeyOf(root, a, P) = keyOf(a) /\ KeyOf(root, b, P) = keyOf(b)
  BY <1>1 DEF KeyOf
<1>3. CASE agree(a) \/ agree(b)
  BY <1>1, <1>3
<1>4. CASE ~agree(a) /\ ~agree(b) /\ a # b
  <2>1. a.file.dir # b.file.dir
    BY <1>4 DEF Orderly, SameSlot, SameDir
  <2>2. a.file \in {f \in Tree : Reached(root, f)} /\ b.file \in {f \in Tree : Reached(root, f)}
        /\ a.name \in ToSet(Words)
    BY DEF Orderly
  <2>3. /\ ToAliasKey(FullSlug(rel(a)), a.name) # ToAliasKey(FullSlug(rel(b)), a.name)
        /\ InitialSlug(rel(a)) # InitialSlug(rel(b)) =>
             ToAliasKey(InitialSlug(rel(a)), a.name) # ToAliasKey(InitialSlug(rel(b)), a.name)
    BY <2>1, <2>2 DEF SlugsApartBelow
  <2>4. apart => InitialSlug(rel(a)) # InitialSlug(rel(b))
    BY <1>1, <1>4
  <2>5. keyOf(a) = ToAliasKey(IF apart THEN InitialSlug(rel(a)) ELSE FullSlug(rel(a)), a.name)
        /\ keyOf(b) = ToAliasKey(IF apart THEN InitialSlug(rel(b)) ELSE FullSlug(rel(b)), a.name)
    BY <1>4
  <2> HIDE DEF rel, apart, agree, group, keyOf
  <2>. QED BY <1>2, <2>3, <2>4, <2>5
<1>. QED BY <1>3, <1>4

Resolved(root, P, e) ==
  [file |-> e.file, first |-> e.first, opened |-> e.opened,
   env |-> e.env, name |-> e.name, value |-> e.value,
   key |-> [text |-> KeyOf(root, e, P), n |-> Number(root, e, P)]]

LEMMA PlanResolves ==
  ASSUME NEW root, NEW S, NEW r \in PlanVaultKeys(root, S)
  PROVE  \E e \in LastWins(root, S) : r = Resolved(root, LastWins(root, S), e)
BY DEF PlanVaultKeys, Resolved

(* The plan of an orderly listing is orderly. *)
LEMMA PlanIsOrderly ==
  ASSUME NEW root, NEW S, Readable(S)
  PROVE  Orderly(PlanVaultKeys(root, S))
<1> DEFINE K == LastWins(root, S)
<1>1. Orderly(K)
  BY KeptIsOrderly
<1>2. \A r \in PlanVaultKeys(root, S) : \E e \in K :
         /\ r = Resolved(root, K, e) /\ r.file = e.file /\ r.first = e.first /\ r.opened = e.opened
         /\ r.env = e.env /\ r.name = e.name
  BY PlanResolves DEF Resolved
<1> HIDE DEF K
<1>. QED BY <1>1, <1>2 DEF Orderly, SameSlot, SameDir

(* One key of a plan stands for one value. *)
LEMMA PlanAgrees ==
  ASSUME NEW root, SlugsApartBelow(root), NEW S, Readable(S), \A e \in S : Reached(root, e.file)
  PROVE  \A r, s \in PlanVaultKeys(root, S) : Composite(r) = Composite(s) => r.value = s.value
<1> DEFINE K == LastWins(root, S)
<1>1. Orderly(K)
  BY KeptIsOrderly
<1>2. ASSUME NEW e \in K PROVE Reached(root, e.file)
  <2>1. PICK x \in S, y \in S : Spans(root, S, e, x, y)
    BY KeptSpans
  <2>2. e.file = y.file
    BY <2>1 DEF Spans
  <2>. QED BY <2>2
<1>3. SUFFICES ASSUME NEW r \in PlanVaultKeys(root, S), NEW s \in PlanVaultKeys(root, S),
                      Composite(r) = Composite(s)
               PROVE  r.value = s.value
  OBVIOUS
<1>4. PICK a \in K : r = Resolved(root, K, a)
  BY PlanResolves
<1>5. PICK b \in K : s = Resolved(root, K, b)
  BY PlanResolves
<1>6. r.env = a.env /\ r.value = a.value /\ r.key.text = KeyOf(root, a, K) /\ r.key.n = Number(root, a, K)
  BY <1>4 DEF Resolved
<1>7. s.env = b.env /\ s.value = b.value /\ s.key.text = KeyOf(root, b, K) /\ s.key.n = Number(root, b, K)
  BY <1>5 DEF Resolved
<1>8. r.env = s.env /\ r.key = s.key
  BY <1>3 DEF Composite
<1> HIDE DEF K
<1>9. a.env = b.env /\ KeyOf(root, a, K) = KeyOf(root, b, K) /\ Number(root, a, K) = Number(root, b, K)
  BY <1>6, <1>7, <1>8
<1>10. a.name = b.name
  BY <1>1, <1>9, NumbersApart
<1>11. a.value = b.value
  BY <1>1, <1>2, <1>9, <1>10, KeysApart
<1>. QED BY <1>6, <1>7, <1>11

-----------------------------------------------------------------------------
(* The invariant. *)

JobShape ==
  job = [step |-> job.step, mode |-> job.mode, root |-> job.root, files |-> job.files,
         plan |-> job.plan, envs |-> job.envs, default |-> job.default, secret |-> job.secret,
         seen |-> job.seen, stored |-> job.stored, todo |-> job.todo]

(* Which form passes which steps. *)
StepOfMode ==
  \/ job.mode = "none" /\ job.step = "idle"
  \/ job.mode = "file" /\ job.step \in {"upload", "write"}
  \/ job.mode = "auto" /\ job.step \in {"project", "upload", "write", "backup"}
  \/ /\ job.mode = "ask"
     /\ job.step \in {"map", "select", "project", "upload", "write", "wrap", "backup"}

ModeOK ==
  /\ StepOfMode
  /\ job.step \in {"map", "select"} => job.secret = {}
  /\ job.step \in {"map", "select", "project"} => job.stored = {}
  /\ job.step = "upload" /\ job.mode # "ask" => job.stored = {}
  /\ job.seen.scripts \in [DOMAIN job.seen.scripts -> [tool : STRING, wraps : 0 .. 1]]

Scans == job.mode \in {"auto", "ask"}

(* A plan of a scan is orderly and tells of nothing that is to be skipped. *)
PlanOK ==
  Scans => /\ \E cwd \in Cwd : job.root = FindProjectRoot(cwd)
           /\ \A f \in job.files : Reached(job.root, f)
           /\ Orderly(job.plan)
           /\ \A r \in job.plan : ClassifyEntry(r.name, r.value) # "skip"

AutoTakesAll == job.mode = "auto" => job.secret = {r \in job.plan : MaybeSecret(r)}

(* What is to be uploaded are secrets of the plan, in the batches all.     *)
UploadOK ==
  /\ job.step = "upload" => job.todo \subseteq job.secret
  /\ job.step = "upload" /\ job.mode = "auto" =>
       \A r \in job.secret : \E g \in job.todo : Composite(g) = Composite(r)
  /\ job.mode = "file" => job.secret = job.plan /\ (job.step = "upload" => job.todo = job.plan)
  /\ job.step = "write" /\ job.mode # "ask" => \A r \in job.secret : Composite(r) \in job.stored

HasMapping(r) == Target(r) \in DOMAIN mappings /\ r.name \in DOMAIN mappings[Target(r)]

(* An entry has its mapping, or its file is still to be written.           *)
WriteOK ==
  /\ job.step = "write" /\ Scans =>
       \A r \in job.plan : Target(r) \in job.todo \/ HasMapping(r)
  /\ job.step \in {"wrap", "backup"} =>
       /\ job.todo \subseteq job.files
       /\ \A r \in job.plan : HasMapping(r)

MigrationInv ==
  /\ MigrationTypeOK /\ JobShape /\ ModeOK /\ PlanOK /\ AutoTakesAll /\ UploadOK /\ WriteOK

(* What the vault has of the plan is what the .env files said.             *)
PlanMeans ==
  /\ Scans => \A r, s \in job.plan : Composite(r) = Composite(s) => r.value = s.value
  /\ \A r \in job.secret : Composite(r) \in job.stored => vault[Composite(r)] = r.value

MeaningInv == MigrationInv /\ PlanMeans /\ AliasesMeanTheirValue
BackupsOK ==
  /\ backups = [f \in Tree |-> backups[f]]
  /\ \A f \in Tree : backups[f] \in [DOMAIN backups[f] -> Contents]

LocalTypeOK ==
  /\ disk \in [Tree -> Contents \cup {Missing}]
  /\ BackupsOK
  /\ pkg \in [DOMAIN pkg -> [tool : STRING, wraps : 0 .. 1]]
  /\ agents \in 0 .. 1

-----------------------------------------------------------------------------
(* What is read and planned. *)

LEMMA SourcesAreReadable ==
  ASSUME MigrationTypeOK, NEW fs \in SUBSET Tree, NEW env, \A f \in fs : disk[f] # Missing
  PROVE  /\ Readable(SourcesOf(fs, env))
         /\ \A e \in SourcesOf(fs, env) : e.file \in fs /\ ClassifyEntry(e.name, e.value) # "skip"
<1>1. ASSUME NEW e \in SourcesOf(fs, env)
      PROVE  /\ e.file \in fs /\ disk[e.file] # Garbled
             /\ e = [file |-> e.file, env |-> env[e.file], name |-> e.name, value |-> disk[e.file][e.name]]
             /\ e.name \in DOMAIN disk[e.file]
             /\ ClassifyEntry(e.name, e.value) # "skip"
  <2>1. PICK f \in fs : disk[f] # Garbled /\ e \in EntriesOf(f, env[f])
    BY DEF SourcesOf
  <2>2. PICK n \in DOMAIN disk[f] :
          /\ ClassifyEntry(n, disk[f][n]) # "skip"
          /\ e = [file |-> f, env |-> env[f], name |-> n, value |-> disk[f][n]]
    BY <2>1 DEF EntriesOf
  <2>3. e.file = f /\ e.name = n /\ e.value = disk[f][n]
    BY <2>2
  <2>. QED BY <2>1, <2>2, <2>3
<1>2. \A e \in SourcesOf(fs, env) : e.name \in ToSet(Words)
  <2>1. \A f \in fs : disk[f] # Garbled => disk[f] \in Contents \ {Garbled}
    BY DEF MigrationTypeOK
  <2>. QED BY <1>1, <2>1, FilesAssumption DEF FilesAssumption
<1>3. ASSUME NEW a \in SourcesOf(fs, env), NEW b \in SourcesOf(fs, env), a.file = b.file
      PROVE  a.env = b.env /\ (a.name = b.name => a = b)
  <2>1. /\ a = [file |-> a.file, env |-> env[a.file], name |-> a.name, value |-> disk[a.file][a.name]]
        /\ b = [file |-> b.file, env |-> env[b.file], name |-> b.name, value |-> disk[b.file][b.name]]
    BY <1>1
  <2>. QED BY <1>3, <2>1
<1>4. Readable(SourcesOf(fs, env))
  BY <1>1, <1>2, <1>3 DEF Readable
<1>. QED BY <1>1, <1>4

LEMMA PlanTells ==
  ASSUME NEW root, NEW S, NEW r \in PlanVaultKeys(root, S)
  PROVE  \E e \in S : r.name = e.name /\ r.value = e.value
<1>1. PICK k \in LastWins(root, S) : r = Resolved(root, LastWins(root, S), k)
  BY PlanResolves
<1>2. PICK x \in S, y \in S : Spans(root, S, k, x, y)
  BY KeptSpans
<1>3. k.name = y.name /\ k.value = y.value
  BY <1>2 DEF Spans
<1>. QED BY <1>1, <1>3 DEF Resolved

(* The plan of what is on the disk. *)
LEMMA PlanOfDisk ==
  ASSUME MigrationTypeOK, NEW root, NEW fs \in SUBSET Tree, NEW env,
         \A f \in fs : disk[f] # Missing /\ Reached(root, f)
  PROVE  LET p == PlanVaultKeys(root, SourcesOf(fs, env))
         IN /\ Orderly(p)
            /\ \A r \in p : ClassifyEntry(r.name, r.value) # "skip"
            /\ SlugsApartBelow(root) =>
                 \A r, s \in p : Composite(r) = Composite(s) => r.value = s.value
<1> DEFINE S == SourcesOf(fs, env)
           p == PlanVaultKeys(root, S)
<1>1. /\ Readable(S)
      /\ \A e \in S : e.file \in fs /\ ClassifyEntry(e.name, e.value) # "skip"
  BY SourcesAreReadable
<1> HIDE DEF S
<1>2. Orderly(p)
  BY <1>1, PlanIsOrderly
<1>3. \A r \in p : ClassifyEntry(r.name, r.value) # "skip"
  BY <1>1, PlanTells
<1>4. ASSUME SlugsApartBelow(root)
      PROVE  \A r, s \in p : Composite(r) = Composite(s) => r.value = s.value
  <2>1. \A e \in S : Reached(root, e.file)
    BY <1>1
  <2>. QED BY <1>1, <1>4, <2>1, PlanAgrees
<1>. QED BY <1>2, <1>3, <1>4 DEF S

LEMMA HitsAreReached ==
  ASSUME NEW root, NEW present, NEW fs \in FindEnvFiles(root, present)
  PROVE  fs \subseteq Tree \cap present /\ \A f \in fs : Reached(root, f)
BY DEF FindEnvFiles

(* Every composite of the secrets has its group. *)
LEMMA GroupsCover ==
  ASSUME Orderly(job.plan), job.secret \subseteq job.plan
  PROVE  Groups \subseteq job.secret
         /\ \A r \in job.secret : \E g \in Groups : Composite(g) = Composite(r)
<1>1. ASSUME NEW r \in job.secret PROVE \E g \in Groups : Composite(g) = Composite(r)
  <2> DEFINE S == {s \in job.secret : Composite(s) = Composite(r)}
  <2>1. S \in SUBSET job.plan /\ S # {}
    OBVIOUS
  <2>2. PICK g \in Foremost(S) : TRUE
    <3> HIDE DEF S
    <3>. QED BY <2>1, FirstsExist DEF Foremost
  <2>3. g \in S
    BY <2>2 DEF Foremost, Firsts
  <2>4. S = {s \in job.secret : Composite(s) = Composite(g)}
    BY <2>3
  <2>5. g \in Groups
    BY <2>2, <2>3, <2>4 DEF Groups
  <2>. QED BY <2>3, <2>5
<1>. QED BY <1>1 DEF Groups

-----------------------------------------------------------------------------
(* What the steps do to their data. *)

VaultGrows == /\ DOMAIN vault \subseteq DOMAIN vault'
              /\ \A c \in DOMAIN vault : vault'[c] = vault[c]

LEMMA PutGrows ==
  ASSUME NEW gs, Accepts(gs), Put(gs)
  PROVE  /\ VaultGrows
         /\ \A g \in gs : Composite(g) \in DOMAIN vault' /\ vault'[Composite(g)] = g.value
<1> DEFINE new == [c \in {Composite(g) : g \in gs} |-> (CHOOSE g \in gs : Composite(g) = c).value]
<1>1. DOMAIN new = {Composite(g) : g \in gs}
  OBVIOUS
<1>2. ASSUME NEW g \in gs PROVE Composite(g) \in DOMAIN new /\ new[Composite(g)] = g.value
  <2>1. (CHOOSE h \in gs : Composite(h) = Composite(g)) = g
    BY DEF Accepts
  <2>. QED BY <2>1
<1>3. DOMAIN new \cap DOMAIN vault = {}
  BY <1>1 DEF Accepts
<1>4. vault' = Onto(new, vault)
  BY DEF Put
<1> HIDE DEF new
<1>5. /\ DOMAIN vault' = DOMAIN new \cup DOMAIN vault
      /\ \A x \in DOMAIN new : vault'[x] = new[x]
      /\ \A x \in DOMAIN vault \ DOMAIN new : vault'[x] = vault[x]
  BY <1>4 DEF Onto
<1>6. VaultGrows
  <2>1. \A c \in DOMAIN vault : c \in DOMAIN vault \ DOMAIN new
    BY <1>3
  <2>2. \A c \in DOMAIN vault : c \in DOMAIN vault' /\ vault'[c] = vault[c]
    BY <1>5, <2>1
  <2>. QED BY <2>2 DEF VaultGrows
<1>7. ASSUME NEW g \in gs PROVE Composite(g) \in DOMAIN vault' /\ vault'[Composite(g)] = g.value
  <2>1. Composite(g) \in DOMAIN new /\ new[Composite(g)] = g.value
    BY <1>2
  <2>. QED BY <1>5, <2>1
<1>. QED BY <1>6, <1>7

(* A step of the process leaves what it has read and planned alone. *)
LEMMA GotoIs ==
  ASSUME JobShape, NEW step, NEW todo, Goto(step, todo)
  PROVE  /\ job'.step = step /\ job'.todo = todo /\ JobShape'
         /\ job'.mode = job.mode /\ job'.root = job.root /\ job'.files = job.files
         /\ job'.plan = job.plan /\ job'.default = job.default /\ job'.secret = job.secret
         /\ job'.seen = job.seen /\ job'.stored = job.stored /\ job'.envs = job.envs
<1> DEFINE new == [step |-> step, mode |-> job.mode, root |-> job.root, files |-> job.files,
                   plan |-> job.plan, envs |-> job.envs, default |-> job.default,
                   secret |-> job.secret, seen |-> job.seen, stored |-> job.stored, todo |-> todo]
<1>1. job' = new
  BY DEF Goto, JobShape
<1>. QED BY <1>1 DEF JobShape

-----------------------------------------------------------------------------
(* The first invariant, step by step. *)

(* The process is gone: nothing is asked of what it held. *)
LEMMA ExitKeepsInv ==
  ASSUME Exit, LocalTypeOK'
  PROVE  MigrationInv'
<1>1. /\ job'.step = "idle" /\ job'.mode = "none" /\ job'.files = {} /\ job'.plan = {}
      /\ job'.secret = {} /\ job'.stored = {} /\ job'.seen.scripts = <<>> /\ JobShape'
  BY DEF Exit, Idle, JobShape
<1>2. MigrationTypeOK'
  BY <1>1 DEF MigrationTypeOK, LocalTypeOK, BackupsOK
<1>3. ModeOK'
  BY <1>1 DEF ModeOK, StepOfMode
<1>4. PlanOK' /\ AutoTakesAll' /\ UploadOK' /\ WriteOK'
  BY <1>1 DEF PlanOK, Scans, AutoTakesAll, UploadOK, WriteOK
<1>. QED BY <1>1, <1>2, <1>3, <1>4 DEF MigrationInv

(* What the user and the server do leaves the process where it is. *)
LEMMA OthersKeepInv ==
  ASSUME MigrationInv, LocalTypeOK', UNCHANGED <<job, mappings>>, VaultGrows
  PROVE  MigrationInv'
<1>1. MigrationTypeOK'
  BY DEF MigrationInv, MigrationTypeOK, LocalTypeOK, BackupsOK, VaultGrows
<1>2. JobShape' /\ ModeOK' /\ PlanOK' /\ AutoTakesAll' /\ UploadOK'
  BY DEF MigrationInv, JobShape, ModeOK, StepOfMode, PlanOK, Scans, AutoTakesAll, UploadOK
<1>3. WriteOK'
  BY DEF MigrationInv, WriteOK, Scans, HasMapping, Target
<1>. QED BY <1>1, <1>2, <1>3 DEF MigrationInv

LEMMA SameLocalTypeOK ==
  ASSUME MigrationInv, UNCHANGED <<disk, backups, pkg, agents>>
  PROVE  LocalTypeOK'
<1>1. BackupsOK
  BY DEF MigrationInv, MigrationTypeOK, BackupsOK
<1>2. BackupsOK'
  BY <1>1 DEF BackupsOK
<1>. QED BY <1>2 DEF MigrationInv, MigrationTypeOK, LocalTypeOK

(* Steps before the upload: the process has no alias and writes nothing. *)
LEMMA ToProject ==
  ASSUME MigrationInv, LocalTypeOK', UNCHANGED vault, JobShape',
         job'.step \in {"map", "select", "project"}, StepOfMode', job'.stored = {},
         job'.step \in {"map", "select"} => job'.secret = {},
         job'.files \subseteq Tree, job'.secret \subseteq job'.plan,
         job'.seen.scripts \in [DOMAIN job'.seen.scripts -> [tool : STRING, wraps : 0 .. 1]],
         PlanOK', AutoTakesAll'
  PROVE  MigrationInv'
<1>1. job'.mode # "file"
  BY DEF StepOfMode
<1>2. UploadOK' /\ WriteOK'
  BY <1>1 DEF UploadOK, WriteOK
<1>3. ModeOK'
  BY DEF ModeOK
<1>4. MigrationTypeOK'
  BY DEF MigrationTypeOK, LocalTypeOK, BackupsOK, StepOfMode
<1>. QED BY <1>2, <1>3, <1>4 DEF MigrationInv

LEMMA StartAutoKeepsInv ==
  ASSUME MigrationInv, StartAuto
  PROVE  MigrationInv'
<1>1. PICK cwd \in Cwd :
        LET root == FindProjectRoot(cwd)
        IN \E fs \in FindEnvFiles(root, Present) :
             LET p    == PlanVaultKeys(root, SourcesOf(fs, [f \in fs |-> SuggestedEnv(f.suffix)]))
                 envs == {r.env : r \in p}
             IN \E first \in Firsts(root, p, p) :
                  Start([Idle EXCEPT !.step = "project", !.mode = "auto", !.root = root,
                           !.files = fs, !.plan = p, !.envs = envs,
                           !.default = PickDefaultEnv(envs, first.env),
                           !.secret = {r \in p : MaybeSecret(r)}])
  BY DEF StartAuto
<1> DEFINE root == FindProjectRoot(cwd)
<1>2. PICK fs \in FindEnvFiles(root, Present) :
        LET p    == PlanVaultKeys(root, SourcesOf(fs, [f \in fs |-> SuggestedEnv(f.suffix)]))
            envs == {r.env : r \in p}
        IN \E first \in Firsts(root, p, p) :
             Start([Idle EXCEPT !.step = "project", !.mode = "auto", !.root = root,
                      !.files = fs, !.plan = p, !.envs = envs,
                      !.default = PickDefaultEnv(envs, first.env),
                      !.secret = {r \in p : MaybeSecret(r)}])
  BY <1>1
<1> DEFINE S == SourcesOf(fs, [f \in fs |-> SuggestedEnv(f.suffix)])
           p == PlanVaultKeys(root, S)
<1>3. /\ job'.step = "project" /\ job'.mode = "auto" /\ job'.root = root /\ job'.files = fs
      /\ job'.plan = p /\ job'.secret = {r \in p : MaybeSecret(r)} /\ job'.stored = {}
      /\ job'.seen.scripts = <<>> /\ JobShape' /\ UNCHANGED <<local, server>>
  <2> HIDE DEF S, root
  <2>1. PICK first \in Firsts(root, p, p) :
          Start([Idle EXCEPT !.step = "project", !.mode = "auto", !.root = root,
                   !.files = fs, !.plan = p, !.envs = {r.env : r \in p},
                   !.default = PickDefaultEnv({r.env : r \in p}, first.env),
                   !.secret = {r \in p : MaybeSecret(r)}])
    BY <1>2 DEF root, S
  <2> HIDE DEF p
  <2>. QED BY <2>1 DEF Start, Idle, JobShape
<1>4. fs \subseteq Tree \cap Present /\ \A f \in fs : Reached(root, f)
  BY HitsAreReached
<1>5. fs \in SUBSET Tree /\ \A f \in fs : disk[f] # Missing /\ Reached(root, f)
  BY <1>4 DEF Present
<1>6. Orderly(p) /\ \A r \in p : ClassifyEntry(r.name, r.value) # "skip"
  BY <1>5, PlanOfDisk DEF MigrationInv
<1> HIDE DEF p
<1>7. PlanOK' /\ AutoTakesAll'
  BY <1>3, <1>5, <1>6 DEF PlanOK, AutoTakesAll, MaybeSecret
<1>8. LocalTypeOK'
  BY <1>3, SameLocalTypeOK DEF local
<1>9. StepOfMode' /\ job'.files \subseteq Tree /\ job'.secret \subseteq job'.plan
  BY <1>3, <1>5 DEF StepOfMode
<1>. QED BY <1>3, <1>7, <1>8, <1>9, ToProject DEF server

LEMMA StartAskKeepsInv ==
  ASSUME MigrationInv, StartAsk
  PROVE  MigrationInv'
<1>1. PICK cwd \in Cwd :
        \E fs \in FindEnvFiles(FindProjectRoot(cwd), Present) :
        \E picked \in SUBSET fs, chosen \in ProjectChoices :
          Start([Idle EXCEPT !.step = "map", !.mode = "ask", !.root = FindProjectRoot(cwd),
                   !.files = picked, !.seen = [project |-> chosen, scripts |-> pkg]])
  BY DEF StartAsk
<1>2. PICK fs \in FindEnvFiles(FindProjectRoot(cwd), Present) :
        \E picked \in SUBSET fs, chosen \in ProjectChoices :
          Start([Idle EXCEPT !.step = "map", !.mode = "ask", !.root = FindProjectRoot(cwd),
                   !.files = picked, !.seen = [project |-> chosen, scripts |-> pkg]])
  BY <1>1
<1>3. PICK picked \in SUBSET fs, chosen \in ProjectChoices :
        Start([Idle EXCEPT !.step = "map", !.mode = "ask", !.root = FindProjectRoot(cwd),
                 !.files = picked, !.seen = [project |-> chosen, scripts |-> pkg]])
  BY <1>2
<1>4. /\ job'.step = "map" /\ job'.mode = "ask" /\ job'.root = FindProjectRoot(cwd) /\ job'.files = picked
      /\ job'.plan = {} /\ job'.secret = {} /\ job'.stored = {} /\ job'.seen.scripts = pkg
      /\ JobShape' /\ UNCHANGED <<local, server>>
  BY <1>3 DEF Start, Idle, JobShape
<1>5. picked \subseteq Tree /\ \A f \in picked : Reached(FindProjectRoot(cwd), f)
  BY HitsAreReached
<1>6. PlanOK' /\ AutoTakesAll'
  BY <1>4, <1>5 DEF PlanOK, AutoTakesAll, Orderly
<1>7. LocalTypeOK'
  BY <1>4, SameLocalTypeOK DEF local
<1>8. StepOfMode' /\ job'.files \subseteq Tree /\ job'.secret \subseteq job'.plan
  BY <1>4, <1>5 DEF StepOfMode
<1>9. pkg \in [DOMAIN pkg -> [tool : STRING, wraps : 0 .. 1]]
  BY DEF MigrationInv, MigrationTypeOK
<1>. QED BY <1>4, <1>6, <1>7, <1>8, <1>9, ToProject DEF server

LEMMA StartFileKeepsInv ==
  ASSUME MigrationInv, StartFile
  PROVE  MigrationInv'
<1>1. PICK f \in Present, cwd \in Cwd :
        LET found == {e \in EntriesOf(f, "dev") : ClassifyEntry(e.name, e.value) = "secret"}
            p == {[file |-> f, first |-> f, opened |-> f, env |-> "dev", name |-> e.name, value |-> e.value,
                   key |-> [text |-> ToAliasKey(NoSlug, e.name), n |-> 1]] : e \in found}
        IN Start([Idle EXCEPT !.step = "upload", !.mode = "file", !.root = cwd, !.files = {f},
                    !.plan = p, !.envs = {"dev"}, !.secret = p, !.todo = p])
  BY DEF StartFile
<1> DEFINE found == {e \in EntriesOf(f, "dev") : ClassifyEntry(e.name, e.value) = "secret"}
           p == {[file |-> f, first |-> f, opened |-> f, env |-> "dev", name |-> e.name, value |-> e.value,
                  key |-> [text |-> ToAliasKey(NoSlug, e.name), n |-> 1]] : e \in found}
<1>2. Start([Idle EXCEPT !.step = "upload", !.mode = "file", !.root = cwd, !.files = {f},
               !.plan = p, !.envs = {"dev"}, !.secret = p, !.todo = p])
  BY <1>1
<1> HIDE DEF p
<1>3. /\ job'.step = "upload" /\ job'.mode = "file" /\ job'.files = {f} /\ job'.plan = p
      /\ job'.secret = p /\ job'.todo = p /\ job'.stored = {} /\ job'.seen.scripts = <<>>
      /\ JobShape' /\ UNCHANGED <<local, server>>
  BY <1>2 DEF Start, Idle, JobShape
<1>4. LocalTypeOK'
  BY <1>3, SameLocalTypeOK DEF local
<1>5. MigrationTypeOK'
  BY <1>3, <1>4 DEF MigrationTypeOK, LocalTypeOK, BackupsOK, Present
<1>6. ModeOK'
  BY <1>3 DEF ModeOK, StepOfMode
<1>7. PlanOK' /\ AutoTakesAll' /\ UploadOK' /\ WriteOK'
  BY <1>3 DEF PlanOK, Scans, AutoTakesAll, UploadOK, WriteOK
<1>. QED BY <1>3, <1>5, <1>6, <1>7 DEF MigrationInv

LEMMA MapFilesKeepsInv ==
  ASSUME MigrationInv, MapFiles
  PROVE  MigrationInv'
<1>1. PICK env \in FileEnvMappings(job.files), first \in FirstFiles(job.root, job.files) :
        LET there == {f \in job.files : disk[f] # Missing}
            p     == PlanVaultKeys(job.root, SourcesOf(there, env))
            envs  == {env[f] : f \in job.files}
        IN IF p = {} THEN Exit
           ELSE job' = [job EXCEPT !.plan = p, !.step = "select", !.envs = envs,
                          !.default = PickDefaultEnv(envs, env[first])]
  BY DEF MapFiles
<1> DEFINE there == {f \in job.files : disk[f] # Missing}
           p == PlanVaultKeys(job.root, SourcesOf(there, env))
<1>2. LocalTypeOK' /\ UNCHANGED <<local, server>>
  BY SameLocalTypeOK DEF MapFiles, local
<1>3. CASE p = {}
  BY <1>1, <1>2, <1>3, ExitKeepsInv
<1>4. CASE p # {}
  <2>1. there \in SUBSET Tree /\ \A f \in there : disk[f] # Missing /\ Reached(job.root, f)
    <3>1. job.mode = "ask" /\ job.files \subseteq Tree
      BY DEF MigrationInv, MigrationTypeOK, ModeOK, StepOfMode, MapFiles, At
    <3>. QED BY <3>1 DEF MigrationInv, PlanOK, Scans
  <2>2. Orderly(p) /\ \A r \in p : ClassifyEntry(r.name, r.value) # "skip"
    <3> HIDE DEF there
    <3>. QED BY <2>1, PlanOfDisk DEF MigrationInv
  <2>3. job' = [job EXCEPT !.plan = p, !.step = "select", !.envs = {env[f] : f \in job.files},
                  !.default = PickDefaultEnv({env[f] : f \in job.files}, env[first])]
    BY <1>1, <1>4
  <2> HIDE DEF p
  <2>4. /\ job'.step = "select" /\ job'.mode = job.mode /\ job'.root = job.root /\ job'.files = job.files
        /\ job'.plan = p /\ job'.secret = job.secret /\ job'.stored = job.stored
        /\ job'.seen = job.seen /\ JobShape'
    <3>1. JobShape
      BY DEF MigrationInv
    <3>. QED BY <2>3, <3>1 DEF JobShape
  <2>5. /\ job.mode = "ask" /\ job.stored = {} /\ job.secret = {} /\ job.files \subseteq Tree
        /\ job.seen.scripts \in [DOMAIN job.seen.scripts -> [tool : STRING, wraps : 0 .. 1]]
    BY DEF MigrationInv, MigrationTypeOK, ModeOK, StepOfMode, MapFiles, At
  <2>6. PlanOK' /\ AutoTakesAll'
    BY <2>2, <2>4, <2>5 DEF MigrationInv, PlanOK, Scans, AutoTakesAll
  <2>7. StepOfMode'
    BY <2>4, <2>5 DEF StepOfMode
  <2>. QED BY <1>2, <2>4, <2>5, <2>6, <2>7, ToProject DEF server
<1>. QED BY <1>3, <1>4

LEMMA SelectSecretsKeepsInv ==
  ASSUME MigrationInv, SelectSecrets
  PROVE  MigrationInv'
<1>1. LocalTypeOK' /\ UNCHANGED <<local, server>>
  BY SameLocalTypeOK DEF SelectSecrets, local
<1>2. CASE Exit
  BY <1>1, <1>2, ExitKeepsInv
<1>3. ASSUME NEW selected,
             job' = [job EXCEPT !.step = "project",
                       !.secret = {r \in job.plan : Composite(r) \in selected}]
      PROVE  MigrationInv'
  <2>1. /\ job'.step = "project" /\ job'.mode = job.mode /\ job'.root = job.root
        /\ job'.files = job.files /\ job'.plan = job.plan /\ job'.stored = job.stored
        /\ job'.secret = {r \in job.plan : Composite(r) \in selected}
        /\ job'.seen = job.seen /\ JobShape'
    <3>1. JobShape
      BY DEF MigrationInv
    <3>. QED BY <1>3, <3>1 DEF JobShape
  <2>2. /\ job.mode = "ask" /\ job.stored = {} /\ job.files \subseteq Tree
        /\ job.seen.scripts \in [DOMAIN job.seen.scripts -> [tool : STRING, wraps : 0 .. 1]]
    BY DEF MigrationInv, MigrationTypeOK, ModeOK, StepOfMode, SelectSecrets, At
  <2>3. PlanOK' /\ AutoTakesAll'
    BY <2>1, <2>2 DEF MigrationInv, PlanOK, Scans, AutoTakesAll
  <2>4. StepOfMode'
    BY <2>1, <2>2 DEF StepOfMode
  <2>. QED BY <1>1, <2>1, <2>2, <2>3, <2>4, ToProject DEF server
<1>. QED BY <1>2, <1>3 DEF SelectSecrets

(* The upload begins with one entry for each composite of the secrets. *)
LEMMA BeginUploadKeepsInv ==
  ASSUME MigrationInv, At("project"), BeginUpload, UNCHANGED <<local, vault>>
  PROVE  MigrationInv'
<1>1. /\ JobShape /\ Scans /\ job.stored = {} /\ job.files \subseteq Tree
      /\ job.secret \subseteq job.plan /\ Orderly(job.plan)
  BY DEF MigrationInv, MigrationTypeOK, ModeOK, StepOfMode, At, PlanOK, Scans
<1>2. Groups \subseteq job.secret /\ \A r \in job.secret : \E g \in Groups : Composite(g) = Composite(r)
  BY <1>1, GroupsCover
<1>3. /\ job'.step = "upload" /\ job'.todo = Groups /\ JobShape'
      /\ job'.mode = job.mode /\ job'.root = job.root /\ job'.files = job.files
      /\ job'.plan = job.plan /\ job'.default = job.default /\ job'.secret = job.secret
      /\ job'.seen = job.seen /\ job'.stored = job.stored
  BY <1>1, GotoIs DEF BeginUpload
<1>4. LocalTypeOK'
  BY SameLocalTypeOK DEF local
<1>5. MigrationTypeOK'
  BY <1>1, <1>3, <1>4 DEF MigrationTypeOK, LocalTypeOK, BackupsOK, MigrationInv
<1>6. ModeOK'
  BY <1>1, <1>3 DEF ModeOK, StepOfMode, MigrationInv, Scans
<1>7. PlanOK' /\ AutoTakesAll'
  BY <1>1, <1>3 DEF PlanOK, AutoTakesAll, MigrationInv, Scans
<1>8. UploadOK' /\ WriteOK'
  BY <1>1, <1>2, <1>3 DEF UploadOK, WriteOK, Scans
<1>. QED BY <1>3, <1>5, <1>6, <1>7, <1>8 DEF MigrationInv

LEMMA ProjectKeepsInv ==
  ASSUME MigrationInv, ReconcileProject \/ CreateProject \/ LookupFails \/ EnsureEnvs
  PROVE  MigrationInv'
<1>1. At("project") /\ UNCHANGED <<local, vault>> /\ (BeginUpload \/ Exit)
  BY DEF ReconcileProject, CreateProject, LookupFails, EnsureEnvs, server
<1>2. LocalTypeOK'
  BY <1>1, SameLocalTypeOK DEF local
<1>. QED BY <1>1, <1>2, BeginUploadKeepsInv, ExitKeepsInv

(* The server takes some entries.  The job only moves on. *)
LEMMA UploadTypeOK ==
  ASSUME MigrationInv, LocalTypeOK', VaultGrows,
         job'.files = job.files, job'.plan = job.plan, job'.secret = job.secret,
         job'.mode = job.mode, job'.step \in {"upload", "write"},
         \A c \in job'.stored : c \in job.stored \/ c \in DOMAIN vault'
  PROVE  MigrationTypeOK'
<1>1. job'.stored \subseteq DOMAIN vault'
  BY DEF MigrationInv, MigrationTypeOK, VaultGrows
<1>. QED BY <1>1 DEF MigrationInv, MigrationTypeOK, LocalTypeOK, BackupsOK

LEMMA BatchKeepsInv ==
  ASSUME MigrationInv, Batch, job.mode \in {"auto", "file"}
  PROVE  MigrationInv'
<1>1. /\ At("upload") /\ UNCHANGED local /\ JobShape /\ job.todo \subseteq job.secret
      /\ job.mode = "auto" => \A r \in job.secret : \E g \in job.todo : Composite(g) = Composite(r)
      /\ job.mode = "file" => job.secret = job.plan /\ job.todo = job.plan
      /\ job.secret \subseteq job.plan
  BY DEF Batch, MigrationInv, MigrationTypeOK, UploadOK, At
<1>2. LocalTypeOK'
  BY <1>1, SameLocalTypeOK DEF local
<1>3. CASE Exit
  BY <1>2, <1>3, ExitKeepsInv
<1>4. ASSUME Accepts(job.todo), Put(job.todo),
             job' = [job EXCEPT !.step = "write", !.todo = Buckets,
                       !.stored = {Composite(g) : g \in job.todo}]
      PROVE  MigrationInv'
  <2>1. /\ VaultGrows
        /\ \A g \in job.todo : Composite(g) \in DOMAIN vault'
    BY <1>4, PutGrows
  <2>2. /\ job'.step = "write" /\ job'.todo = Buckets /\ job'.mode = job.mode /\ job'.root = job.root
        /\ job'.files = job.files /\ job'.plan = job.plan /\ job'.secret = job.secret
        /\ job'.default = job.default /\ job'.seen = job.seen
        /\ job'.stored = {Composite(g) : g \in job.todo} /\ JobShape'
    BY <1>1, <1>4 DEF JobShape
  <2>3. MigrationTypeOK'
    BY <1>2, <2>1, <2>2, UploadTypeOK
  <2>4. ModeOK'
    BY <2>2 DEF MigrationInv, ModeOK, StepOfMode
  <2>5. PlanOK' /\ AutoTakesAll'
    BY <2>2 DEF MigrationInv, PlanOK, Scans, AutoTakesAll
  <2>6. \A r \in job.secret : Composite(r) \in job'.stored
    BY <1>1, <2>2
  <2>7. UploadOK'
    BY <2>2, <2>6 DEF MigrationInv, UploadOK
  <2>8. \A r \in job'.plan : Target(r)' \in job'.todo
    BY <2>2 DEF Buckets, Target
  <2>9. WriteOK'
    BY <2>2, <2>8 DEF WriteOK
  <2>. QED BY <2>2, <2>3, <2>4, <2>5, <2>7, <2>9 DEF MigrationInv
<1>. QED BY <1>3, <1>4 DEF Batch

(* One request of the interactive form: its key is stored, or not.         *)
LEMMA UploadOneKeepsInv ==
  ASSUME MigrationInv, UploadOne
  PROVE  MigrationInv'
<1>1. PICK g \in Foremost(job.todo) :
        LET left == job.todo \ {g}
        IN \/ /\ Accepts({g}) /\ Put({g})
              /\ \/ job' = [job EXCEPT !.stored = @ \cup {Composite(g)}, !.todo = left]
                 \/ Goto("upload", left)
           \/ Goto("upload", left) /\ UNCHANGED vault
  BY DEF UploadOne
<1>2. /\ At("upload") /\ job.mode = "ask" /\ UNCHANGED local /\ JobShape
      /\ job.todo \subseteq job.secret /\ job.stored \subseteq DOMAIN vault
  BY DEF UploadOne, MigrationInv, MigrationTypeOK, UploadOK, At
<1>3. VaultGrows /\ (Put({g}) /\ Accepts({g}) => Composite(g) \in DOMAIN vault')
  BY <1>1, PutGrows DEF VaultGrows
<1>4. /\ job'.step = "upload" /\ job'.todo = job.todo \ {g} /\ job'.mode = job.mode
      /\ job'.root = job.root /\ job'.files = job.files /\ job'.plan = job.plan
      /\ job'.secret = job.secret /\ job'.default = job.default /\ job'.seen = job.seen /\ JobShape'
      /\ \A c \in job'.stored : c \in job.stored \/ c \in DOMAIN vault'
  <2>1. CASE Goto("upload", job.todo \ {g})
    BY <1>2, <2>1, GotoIs
  <2>2. CASE /\ Accepts({g}) /\ Put({g})
             /\ job' = [job EXCEPT !.stored = @ \cup {Composite(g)}, !.todo = job.todo \ {g}]
    BY <1>2, <1>3, <2>2 DEF JobShape, At
  <2>. QED BY <1>1, <2>1, <2>2
<1>5. LocalTypeOK'
  BY <1>2, SameLocalTypeOK DEF local
<1>6. MigrationTypeOK'
  BY <1>3, <1>4, <1>5, UploadTypeOK
<1>7. ModeOK'
  BY <1>2, <1>4 DEF MigrationInv, ModeOK, StepOfMode
<1>8. PlanOK' /\ AutoTakesAll'
  BY <1>4 DEF MigrationInv, PlanOK, Scans, AutoTakesAll
<1>9. UploadOK' /\ WriteOK'
  BY <1>2, <1>4 DEF UploadOK, WriteOK
<1>. QED BY <1>4, <1>6, <1>7, <1>8, <1>9 DEF MigrationInv

LEMMA UploadedAllKeepsInv ==
  ASSUME MigrationInv, UploadedAll
  PROVE  MigrationInv'
<1>1. /\ At("upload") /\ job.mode = "ask" /\ UNCHANGED <<local, server>> /\ JobShape
      /\ Goto("write", Buckets)
  BY DEF UploadedAll, MigrationInv
<1>2. /\ job'.step = "write" /\ job'.todo = Buckets /\ JobShape'
      /\ job'.mode = job.mode /\ job'.root = job.root /\ job'.files = job.files
      /\ job'.plan = job.plan /\ job'.default = job.default /\ job'.secret = job.secret
      /\ job'.seen = job.seen /\ job'.stored = job.stored
  BY <1>1, GotoIs
<1>3. LocalTypeOK' /\ VaultGrows
  BY <1>1, SameLocalTypeOK DEF local, server, VaultGrows
<1>4. MigrationTypeOK'
  BY <1>2, <1>3, UploadTypeOK
<1>5. ModeOK'
  BY <1>1, <1>2 DEF MigrationInv, ModeOK, StepOfMode
<1>6. PlanOK' /\ AutoTakesAll'
  BY <1>2 DEF MigrationInv, PlanOK, Scans, AutoTakesAll
<1>7. \A r \in job'.plan : Target(r)' \in job'.todo
  BY <1>2 DEF Buckets, Target
<1>8. UploadOK' /\ WriteOK'
  BY <1>1, <1>2, <1>7 DEF UploadOK, WriteOK
<1>. QED BY <1>2, <1>4, <1>5, <1>6, <1>8 DEF MigrationInv

-----------------------------------------------------------------------------
(* The files are written. *)

(* A step on the files after the upload: the job keeps all it knows.       *)
LEMMA FilesKeepInv ==
  ASSUME MigrationInv, LocalTypeOK', UNCHANGED vault, NEW step, NEW todo, Goto(step, todo), Scans,
         job.step \in {"write", "wrap", "backup"}, step \in {"write", "wrap", "backup"},
         step = "write" => job.step = "write", step = "wrap" => job.mode = "ask", WriteOK'
  PROVE  MigrationInv'
<1>1. /\ job'.step = step /\ job'.todo = todo /\ JobShape'
      /\ job'.mode = job.mode /\ job'.root = job.root /\ job'.files = job.files
      /\ job'.plan = job.plan /\ job'.default = job.default /\ job'.secret = job.secret
      /\ job'.seen = job.seen /\ job'.stored = job.stored
  BY GotoIs DEF MigrationInv
<1>2. MigrationTypeOK'
  BY <1>1 DEF MigrationInv, MigrationTypeOK, LocalTypeOK, BackupsOK
<1>3. ModeOK'
  BY <1>1 DEF MigrationInv, ModeOK, StepOfMode, Scans
<1>4. PlanOK' /\ AutoTakesAll'
  BY <1>1 DEF MigrationInv, PlanOK, Scans, AutoTakesAll
<1>5. UploadOK'
  BY <1>1 DEF MigrationInv, UploadOK, Scans
<1>. QED BY <1>1, <1>2, <1>3, <1>4, <1>5 DEF MigrationInv

(* What is written for a bucket names every entry of the bucket.           *)
LEMMA WrittenMaps ==
  ASSUME NEW at, Write(at, Onto(Composed(at), Lines(at)))
  PROVE  /\ \A x \in DOMAIN mappings \ {at} : x \in DOMAIN mappings' /\ mappings'[x] = mappings[x]
         /\ at \in DOMAIN mappings' /\ mappings'[at] = Onto(Composed(at), Lines(at))
         /\ DOMAIN mappings' = DOMAIN mappings \cup {at}
BY DEF Write, Onto

LEMMA WriteMappingKeepsInv ==
  ASSUME MigrationInv, WriteMapping
  PROVE  MigrationInv'
<1>1. PICK e \in Foremost({s \in job.plan : Target(s) \in job.todo}) :
        \/ /\ Write(Target(e), Onto(Composed(Target(e)), Lines(Target(e))))
           /\ Goto("write", job.todo \ {Target(e)})
        \/ Exit
  BY DEF WriteMapping, WriteFailed
<1> DEFINE at == Target(e)
<1>2. /\ At("write") /\ Scans /\ JobShape /\ UNCHANGED vault
      /\ UNCHANGED <<disk, backups, pkg, agents>>
  BY DEF WriteMapping, MigrationInv, Scans, server
<1>3. LocalTypeOK'
  BY <1>2, SameLocalTypeOK
<1>4. CASE Exit
  BY <1>3, <1>4, ExitKeepsInv
<1>5. CASE Write(at, Onto(Composed(at), Lines(at))) /\ Goto("write", job.todo \ {at})
  <2>1. /\ job'.step = "write" /\ job'.todo = job.todo \ {at} /\ job'.plan = job.plan
        /\ job'.default = job.default /\ job'.files = job.files
    BY <1>2, <1>5, GotoIs
  <2>2. /\ \A x \in DOMAIN mappings \ {at} : x \in DOMAIN mappings' /\ mappings'[x] = mappings[x]
        /\ at \in DOMAIN mappings' /\ mappings'[at] = Onto(Composed(at), Lines(at))
    BY <1>5, WrittenMaps
  <2>3. \A r \in job.plan : Target(r)' = Target(r)
    BY <2>1 DEF Target
  <2>4. ASSUME NEW r \in job.plan, Target(r) \notin job'.todo
        PROVE  HasMapping(r)'
    <3>1. CASE Target(r) = at
      <4>1. r.name \in DOMAIN Composed(at)
        BY <3>1 DEF Composed
      <4>2. r.name \in DOMAIN mappings'[at]
        BY <2>2, <4>1 DEF Onto
      <4>. QED BY <2>2, <2>3, <3>1, <4>2 DEF HasMapping
    <3>2. CASE Target(r) # at
      <4>1. HasMapping(r)
        BY <1>2, <2>1, <2>4, <3>2 DEF MigrationInv, WriteOK, At
      <4>. QED BY <2>2, <2>3, <3>2, <4>1 DEF HasMapping
    <3>. QED BY <3>1, <3>2
  <2>5. WriteOK'
    BY <2>1, <2>3, <2>4 DEF WriteOK
  <2> HIDE DEF at
  <2>. QED BY <1>2, <1>3, <1>5, <2>5, FilesKeepInv DEF At
<1>. QED BY <1>1, <1>4, <1>5

(* The mappings of the plan are all there: they stay while they and the    *)
(* plan do.                                                                *)
LEMMA MappingsStay ==
  ASSUME UNCHANGED mappings, job'.plan = job.plan, job'.default = job.default
  PROVE  \A r \in job.plan : HasMapping(r)' = HasMapping(r)
BY DEF HasMapping, Target

LEMMA WriteAiContextKeepsInv ==
  ASSUME MigrationInv, WriteAiContext
  PROVE  MigrationInv'
<1> DEFINE step == IF job.mode = "ask" THEN "wrap" ELSE "backup"
<1>1. /\ At("write") /\ Scans /\ job.todo = {} /\ JobShape /\ UNCHANGED vault
      /\ UNCHANGED <<disk, backups, pkg, mappings>> /\ agents' \in {1, agents}
      /\ Goto(step, job.files)
  BY DEF WriteAiContext, MigrationInv, Scans, server
<1>2. LocalTypeOK'
  BY <1>1 DEF MigrationInv, MigrationTypeOK, LocalTypeOK, BackupsOK
<1>3. /\ job'.step = step /\ job'.todo = job.files /\ job'.plan = job.plan
      /\ job'.default = job.default /\ job'.files = job.files
  BY <1>1, GotoIs
<1>4. \A r \in job.plan : HasMapping(r)
  BY <1>1 DEF MigrationInv, WriteOK, At
<1>5. \A r \in job.plan : HasMapping(r)'
  BY <1>1, <1>3, <1>4, MappingsStay
<1>6. step \in {"wrap", "backup"} /\ (step = "wrap" => job.mode = "ask")
  OBVIOUS
<1> HIDE DEF step
<1>7. WriteOK'
  BY <1>3, <1>5, <1>6 DEF WriteOK
<1>. QED BY <1>1, <1>2, <1>6, <1>7, FilesKeepInv DEF At

LEMMA WrapScriptsKeepsInv ==
  ASSUME MigrationInv, WrapScripts
  PROVE  MigrationInv'
<1> DEFINE scripts == job.seen.scripts
           chosen  == {s \in DOMAIN scripts : AnalyzeScript(scripts[s]) = "wrap"}
<1>1. /\ At("wrap") /\ Goto("backup", job.todo) /\ JobShape /\ UNCHANGED vault
      /\ UNCHANGED <<disk, backups, mappings, agents>>
      /\ pkg' = IF chosen = {} THEN pkg
                ELSE [s \in DOMAIN scripts |->
                        IF s \in chosen THEN [scripts[s] EXCEPT !.wraps = @ + 1]
                        ELSE scripts[s]]
  BY DEF WrapScripts, MigrationInv, server
<1>2. scripts \in [DOMAIN scripts -> [tool : STRING, wraps : 0 .. 1]]
  BY DEF MigrationInv, ModeOK
<1>3. ASSUME NEW s \in chosen
      PROVE  [scripts[s] EXCEPT !.wraps = @ + 1] \in [tool : STRING, wraps : 0 .. 1]
  <2>1. scripts[s] \in [tool : STRING, wraps : 0 .. 1] /\ AnalyzeScript(scripts[s]) = "wrap"
    BY <1>2
  <2>2. scripts[s].wraps = 0
    BY <2>1 DEF AnalyzeScript
  <2>. QED BY <2>1, <2>2
<1> HIDE DEF scripts
<1>4. pkg' \in [DOMAIN pkg' -> [tool : STRING, wraps : 0 .. 1]]
  <2>1. CASE chosen = {}
    BY <1>1, <2>1 DEF MigrationInv, MigrationTypeOK
  <2>2. CASE chosen # {}
    <3> DEFINE new == [s \in DOMAIN scripts |->
                         IF s \in chosen THEN [scripts[s] EXCEPT !.wraps = @ + 1] ELSE scripts[s]]
    <3>1. pkg' = new /\ DOMAIN new = DOMAIN scripts
      BY <1>1, <2>2
    <3>2. \A s \in DOMAIN scripts : new[s] \in [tool : STRING, wraps : 0 .. 1]
      BY <1>2, <1>3
    <3>3. new \in [DOMAIN scripts -> [tool : STRING, wraps : 0 .. 1]]
      BY <3>2
    <3>. QED BY <3>1, <3>3
  <2>. QED BY <2>1, <2>2
<1>5. LocalTypeOK'
  BY <1>1, <1>4 DEF MigrationInv, MigrationTypeOK, LocalTypeOK, BackupsOK
<1>6. job.mode = "ask" /\ Scans
  BY <1>1 DEF MigrationInv, ModeOK, StepOfMode, At, Scans
<1>7. /\ job'.step = "backup" /\ job'.todo = job.todo /\ job'.plan = job.plan
      /\ job'.default = job.default /\ job'.files = job.files
  BY <1>1, GotoIs
<1>8. \A r \in job.plan : HasMapping(r)'
  BY <1>1, <1>7, MappingsStay DEF MigrationInv, WriteOK, At
<1>9. WriteOK'
  BY <1>1, <1>7, <1>8 DEF WriteOK, MigrationInv, At
<1>. QED BY <1>1, <1>5, <1>6, <1>9, FilesKeepInv DEF At

(* A rename leaves the other backups as they are, and takes a free name.   *)
LEMMA RenameAdds ==
  ASSUME MigrationTypeOK, NEW f \in Tree, disk[f] # Missing, NEW now, NEW name,
         name \in BackupNames(f, now), Rename(f, name)
  PROVE  /\ name \notin DOMAIN backups[f] /\ disk[f] \in Contents
         /\ DOMAIN backups'[f] = DOMAIN backups[f] \cup {name}
         /\ backups'[f][name] = disk[f]
         /\ \A x \in DOMAIN backups[f] : backups'[f][x] = backups[f][x]
         /\ backups' = [g \in Tree |-> backups'[g]]
         /\ \A g \in Tree \ {f} : backups'[g] = backups[g]
         /\ backups'[f] = [x \in DOMAIN backups'[f] |-> backups'[f][x]]
         /\ disk' = [disk EXCEPT ![f] = Missing]
<1>1. name \notin DOMAIN backups[f]
  <2>1. CASE Exists(f, Plain)
    BY <2>1 DEF BackupNames, FirstFreePath, Exists
  <2>2. CASE ~Exists(f, Plain)
    BY <2>2 DEF BackupNames, Exists
  <2>. QED BY <2>1, <2>2
<1>2. disk[f] \in Contents
  BY DEF MigrationTypeOK
<1> DEFINE old == backups[f]
           new == Onto([x \in {name} |-> disk[f]], old)
<1>3. backups' = [backups EXCEPT ![f] = new] /\ disk' = [disk EXCEPT ![f] = Missing]
  BY DEF Rename
<1>4. /\ DOMAIN new = DOMAIN old \cup {name} /\ new[name] = disk[f]
      /\ \A x \in DOMAIN old : new[x] = old[x]
      /\ new = [x \in DOMAIN new |-> new[x]]
  BY <1>1 DEF Onto
<1>5. backups = [g \in Tree |-> backups[g]]
  BY DEF MigrationTypeOK
<1> HIDE DEF new
<1>6. /\ backups'[f] = new /\ backups' = [g \in Tree |-> backups'[g]]
      /\ \A g \in Tree \ {f} : backups'[g] = backups[g]
  BY <1>3, <1>5
<1>. QED BY <1>1, <1>2, <1>3, <1>4, <1>6

LEMMA BackupStep ==
  ASSUME BackupEnvFile
  PROVE  \E f \in FirstFiles(job.root, job.todo) :
           /\ Goto("backup", job.todo \ {f})
           /\ \/ UNCHANGED <<disk, backups>>
              \/ /\ disk[f] # Missing
                 /\ \E now \in Minutes : \E name \in BackupNames(f, now) : Rename(f, name)
BY DEF BackupEnvFile

LEMMA BackupEnvFileKeepsInv ==
  ASSUME MigrationInv, BackupEnvFile
  PROVE  MigrationInv'
<1>1. PICK f \in FirstFiles(job.root, job.todo) :
        /\ Goto("backup", job.todo \ {f})
        /\ \/ UNCHANGED <<disk, backups>>
           \/ /\ disk[f] # Missing
              /\ \E now \in Minutes : \E name \in BackupNames(f, now) : Rename(f, name)
  BY BackupStep
<1>2. /\ At("backup") /\ JobShape /\ UNCHANGED <<mappings, pkg, agents, vault>>
      /\ job.todo \subseteq job.files /\ job.files \subseteq Tree /\ f \in job.todo
      /\ \A r \in job.plan : HasMapping(r)
  BY DEF BackupEnvFile, MigrationInv, MigrationTypeOK, WriteOK, At, server, FirstFiles
<1>3. LocalTypeOK'
  <2>1. f \in Tree /\ MigrationTypeOK
    BY <1>2 DEF MigrationInv
  <2>2. CASE UNCHANGED <<disk, backups>>
    BY <1>2, <2>2, SameLocalTypeOK
  <2>3. CASE disk[f] # Missing /\ \E now \in Minutes : \E name \in BackupNames(f, now) : Rename(f, name)
    <3>1. PICK now \in Minutes : \E name \in BackupNames(f, now) : Rename(f, name)
      BY <2>3
    <3>2. PICK name \in BackupNames(f, now) : Rename(f, name)
      BY <3>1
    <3>3. /\ disk[f] \in Contents
          /\ DOMAIN backups'[f] = DOMAIN backups[f] \cup {name}
          /\ backups'[f][name] = disk[f]
          /\ \A x \in DOMAIN backups[f] : backups'[f][x] = backups[f][x]
          /\ backups' = [g \in Tree |-> backups'[g]]
          /\ \A g \in Tree \ {f} : backups'[g] = backups[g]
          /\ backups'[f] = [x \in DOMAIN backups'[f] |-> backups'[f][x]]
          /\ disk' = [disk EXCEPT ![f] = Missing]
      BY <2>1, <2>3, <3>2, RenameAdds
    <3>4. \A g \in Tree : backups[g] \in [DOMAIN backups[g] -> Contents]
      BY <2>1 DEF MigrationTypeOK
    <3>5. \A x \in DOMAIN backups'[f] : backups'[f][x] \in Contents
      BY <2>1, <3>3, <3>4
    <3>6. backups'[f] \in [DOMAIN backups'[f] -> Contents]
      BY <3>3, <3>5
    <3>7. BackupsOK'
      BY <3>3, <3>4, <3>6 DEF BackupsOK
    <3>8. disk' \in [Tree -> Contents \cup {Missing}]
      BY <2>1, <3>3 DEF MigrationTypeOK
    <3>. QED BY <1>2, <2>1, <3>7, <3>8 DEF MigrationTypeOK, LocalTypeOK
  <2>. QED BY <1>1, <2>2, <2>3
<1>4. Scans
  BY <1>2 DEF MigrationInv, ModeOK, StepOfMode, At, Scans
<1>5. /\ job'.step = "backup" /\ job'.todo = job.todo \ {f} /\ job'.plan = job.plan
      /\ job'.default = job.default /\ job'.files = job.files
  BY <1>1, <1>2, GotoIs
<1>6. \A r \in job.plan : HasMapping(r)'
  BY <1>2, <1>5, MappingsStay
<1>7. WriteOK'
  BY <1>2, <1>5, <1>6 DEF WriteOK
<1>. QED BY <1>1, <1>2, <1>3, <1>4, <1>7, FilesKeepInv DEF At

(* The other steps: the process ends, or somebody else writes.             *)
LEMMA EndsKeepInv ==
  ASSUME MigrationInv, Finish \/ WriteKeynvEnvMappings \/ Crash
  PROVE  MigrationInv'
<1>1. Exit /\ UNCHANGED <<disk, backups, pkg, agents>>
  BY DEF Finish, WriteKeynvEnvMappings, Crash, local
<1>. QED BY <1>1, SameLocalTypeOK, ExitKeepsInv

LEMMA UserKeepsInv ==
  ASSUME MigrationInv, UserWritesEnv \/ UserEditsScripts
  PROVE  MigrationInv'
<1>1. UNCHANGED <<job, mappings>> /\ VaultGrows
  BY DEF UserWritesEnv, UserEditsScripts, server, VaultGrows
<1>2. CASE UserWritesEnv
  <2>1. PICK f \in Tree, c \in Edits : disk' = [disk EXCEPT ![f] = c]
    BY <1>2 DEF UserWritesEnv
  <2>2. disk' \in [Tree -> Contents \cup {Missing}]
    BY <2>1, FilesAssumption DEF FilesAssumption, MigrationInv, MigrationTypeOK
  <2>3. BackupsOK'
    BY <1>2 DEF UserWritesEnv, MigrationInv, MigrationTypeOK, BackupsOK
  <2>4. LocalTypeOK'
    BY <1>2, <2>2, <2>3 DEF UserWritesEnv, MigrationInv, MigrationTypeOK, LocalTypeOK
  <2>. QED BY <1>1, <2>4, OthersKeepInv
<1>3. CASE UserEditsScripts
  <2>1. pkg' \in Scripts
    BY <1>3 DEF UserEditsScripts
  <2>2. pkg' \in [DOMAIN pkg' -> [tool : STRING, wraps : 0 .. 1]]
    BY <2>1, FilesAssumption DEF FilesAssumption
  <2>3. \A s \in DOMAIN pkg' : pkg'[s] \in [tool : STRING, wraps : 0 .. 1]
    BY <2>2
  <2>4. pkg' \in [DOMAIN pkg' -> [tool : STRING, wraps : 0 .. 1]]
    BY <2>2, <2>3
  <2>5. LocalTypeOK'
    BY <1>3, <2>4 DEF UserEditsScripts, MigrationInv, MigrationTypeOK, LocalTypeOK, BackupsOK
  <2>. QED BY <1>1, <2>5, OthersKeepInv
<1>. QED BY <1>2, <1>3

LEMMA MigrationInitInv ==
  ASSUME MigrationInit
  PROVE  MigrationInv
<1>1. /\ job = Idle /\ job.step = "idle" /\ job.mode = "none" /\ job.files = {} /\ job.plan = {}
      /\ job.secret = {} /\ job.stored = {} /\ job.seen.scripts = <<>> /\ JobShape
  BY DEF MigrationInit, Idle, JobShape
<1>2. disk \in [Tree -> Contents \cup {Missing}] /\ BackupsOK /\ agents \in 0 .. 1
  BY FilesAssumption DEF FilesAssumption, MigrationInit, BackupsOK
<1>3. pkg \in [DOMAIN pkg -> [tool : STRING, wraps : 0 .. 1]]
  <2>1. pkg \in Scripts
    BY FilesAssumption DEF FilesAssumption, MigrationInit
  <2>2. pkg \in [DOMAIN pkg -> [tool : STRING, wraps : 0 .. 1]]
    BY <2>1, FilesAssumption DEF FilesAssumption
  <2>3. \A s \in DOMAIN pkg : pkg[s] \in [tool : STRING, wraps : 0 .. 1]
    BY <2>2
  <2>. QED BY <2>2, <2>3
<1>4. MigrationTypeOK
  BY <1>1, <1>2, <1>3 DEF MigrationTypeOK, BackupsOK
<1>5. ModeOK
  BY <1>1 DEF ModeOK, StepOfMode
<1>6. PlanOK /\ AutoTakesAll /\ UploadOK /\ WriteOK
  BY <1>1 DEF PlanOK, Scans, AutoTakesAll, UploadOK, WriteOK
<1>. QED BY <1>1, <1>4, <1>5, <1>6 DEF MigrationInv

LEMMA MigrationStepInv ==
  ASSUME MigrationInv, [MigrationNext]_migrationVars
  PROVE  MigrationInv'
<1>1. CASE StartAuto                      BY <1>1, StartAutoKeepsInv
<1>2. CASE StartAsk                       BY <1>2, StartAskKeepsInv
<1>3. CASE StartFile                      BY <1>3, StartFileKeepsInv
<1>4. CASE MapFiles                       BY <1>4, MapFilesKeepsInv
<1>5. CASE SelectSecrets                  BY <1>5, SelectSecretsKeepsInv
<1>6. CASE ReconcileProject \/ CreateProject \/ LookupFails \/ EnsureEnvs
  BY <1>6, ProjectKeepsInv
<1>7. CASE UploadBatch \/ UploadSecrets
  BY <1>7, BatchKeepsInv DEF UploadBatch, UploadSecrets
<1>8. CASE UploadOne                      BY <1>8, UploadOneKeepsInv
<1>9. CASE UploadedAll                    BY <1>9, UploadedAllKeepsInv
<1>10. CASE WriteMapping                  BY <1>10, WriteMappingKeepsInv
<1>11. CASE WriteAiContext                BY <1>11, WriteAiContextKeepsInv
<1>12. CASE WrapScripts                   BY <1>12, WrapScriptsKeepsInv
<1>13. CASE BackupEnvFile                 BY <1>13, BackupEnvFileKeepsInv
<1>14. CASE Finish \/ WriteKeynvEnvMappings \/ Crash
  BY <1>14, EndsKeepInv
<1>15. CASE UserWritesEnv \/ UserEditsScripts
  BY <1>15, UserKeepsInv
<1>16. CASE UNCHANGED migrationVars
  <2>1. UNCHANGED <<job, mappings, disk, backups, pkg, agents, vault>>
    BY <1>16 DEF migrationVars
  <2>2. LocalTypeOK' /\ VaultGrows
    BY <2>1, SameLocalTypeOK DEF VaultGrows
  <2>. QED BY <2>1, <2>2, OthersKeepInv
<1>. QED BY <1>1, <1>2, <1>3, <1>4, <1>5, <1>6, <1>7, <1>8, <1>9, <1>10, <1>11, <1>12, <1>13,
            <1>14, <1>15, <1>16 DEF MigrationNext

(* keynv init keeps its types and the bookkeeping of its steps.            *)
THEOREM MigrationIsTyped == MigrationSpec => []MigrationInv
<1>1. MigrationInit => MigrationInv
  BY MigrationInitInv
<1>2. MigrationInv /\ [MigrationNext]_migrationVars => MigrationInv'
  BY MigrationStepInv
<1>. QED BY <1>1, <1>2, PTL DEF MigrationSpec

-----------------------------------------------------------------------------
(* An alias means the value its .env file said. *)

LEMMA AliasesStay ==
  ASSUME AliasesMeanTheirValue, VaultGrows, UNCHANGED mappings
  PROVE  AliasesMeanTheirValue'
BY DEF AliasesMeanTheirValue, VaultGrows

LEMMA ExitMeans ==
  ASSUME Exit
  PROVE  PlanMeans'
BY DEF Exit, Idle, PlanMeans, Scans

(* A process that has no alias yet: its plan alone matters.                *)
LEMMA FreshMeans ==
  ASSUME job'.stored = {},
         Scans' => \A r, s \in job'.plan : Composite(r) = Composite(s) => r.value = s.value
  PROVE  PlanMeans'
BY DEF PlanMeans, Composite

(* The process keeps its plan and its aliases, the server what it has.     *)
LEMMA SameMeans ==
  ASSUME PlanMeans, VaultGrows, job.stored \subseteq DOMAIN vault, job'.stored = job.stored,
         job'.mode = job.mode, job'.plan = job.plan, job'.secret = job.secret
  PROVE  PlanMeans'
BY DEF PlanMeans, VaultGrows, Scans, Composite

LEMMA StartMeans ==
  ASSUME SlugsApart, MigrationInv, StartAuto \/ StartAsk \/ StartFile
  PROVE  PlanMeans'
<1>1. CASE StartAuto
  <2>1. PICK cwd \in Cwd :
          \E fs \in FindEnvFiles(FindProjectRoot(cwd), Present) :
            LET p == PlanVaultKeys(FindProjectRoot(cwd),
                                   SourcesOf(fs, [f \in fs |-> SuggestedEnv(f.suffix)]))
            IN job'.plan = p /\ job'.stored = {}
    BY <1>1 DEF StartAuto, Start, Idle
  <2>2. PICK fs \in FindEnvFiles(FindProjectRoot(cwd), Present) :
          LET p == PlanVaultKeys(FindProjectRoot(cwd),
                                 SourcesOf(fs, [f \in fs |-> SuggestedEnv(f.suffix)]))
          IN job'.plan = p /\ job'.stored = {}
    BY <2>1
  <2>3. fs \subseteq Tree /\ \A f \in fs : disk[f] # Missing /\ Reached(FindProjectRoot(cwd), f)
    BY HitsAreReached DEF Present
  <2>4. SlugsApartBelow(FindProjectRoot(cwd))
    BY DEF SlugsApart
  <2>5. \A r, s \in job'.plan : Composite(r) = Composite(s) => r.value = s.value
    BY <2>2, <2>3, <2>4, PlanOfDisk DEF MigrationInv
  <2>. QED BY <2>2, <2>5, FreshMeans
<1>2. CASE StartAsk
  <2>1. job'.plan = {} /\ job'.stored = {}
    BY <1>2 DEF StartAsk, Start, Idle
  <2>. QED BY <2>1, FreshMeans
<1>3. CASE StartFile
  <2>1. job'.mode = "file" /\ job'.stored = {}
    BY <1>3 DEF StartFile, Start, Idle
  <2>. QED BY <2>1, FreshMeans DEF Scans
<1>. QED BY <1>1, <1>2, <1>3

LEMMA MapFilesMeans ==
  ASSUME SlugsApart, MigrationInv, MapFiles
  PROVE  PlanMeans'
<1>1. PICK env \in FileEnvMappings(job.files), first \in FirstFiles(job.root, job.files) :
        LET there == {f \in job.files : disk[f] # Missing}
            p     == PlanVaultKeys(job.root, SourcesOf(there, env))
            envs  == {env[f] : f \in job.files}
        IN IF p = {} THEN Exit
           ELSE job' = [job EXCEPT !.plan = p, !.step = "select", !.envs = envs,
                          !.default = PickDefaultEnv(envs, env[first])]
  BY DEF MapFiles
<1> DEFINE there == {f \in job.files : disk[f] # Missing}
           p == PlanVaultKeys(job.root, SourcesOf(there, env))
<1>2. CASE p = {}
  BY <1>1, <1>2, ExitMeans
<1>3. CASE p # {}
  <2>1. job' = [job EXCEPT !.plan = p, !.step = "select", !.envs = {env[f] : f \in job.files},
                  !.default = PickDefaultEnv({env[f] : f \in job.files}, env[first])]
    BY <1>1, <1>3
  <2>2. job.stored = {} /\ Scans /\ JobShape /\ job.files \subseteq Tree
    BY DEF MigrationInv, MigrationTypeOK, ModeOK, StepOfMode, MapFiles, At, Scans
  <2>3. there \in SUBSET Tree /\ \A f \in there : disk[f] # Missing /\ Reached(job.root, f)
    BY <2>2 DEF MigrationInv, PlanOK
  <2>4. SlugsApartBelow(job.root)
    BY <2>2 DEF SlugsApart, MigrationInv, PlanOK
  <2>5. \A r, s \in p : Composite(r) = Composite(s) => r.value = s.value
    <3> HIDE DEF there
    <3>. QED BY <2>3, <2>4, PlanOfDisk DEF MigrationInv
  <2> HIDE DEF p
  <2>6. job'.plan = p /\ job'.stored = {}
    BY <2>1, <2>2 DEF JobShape
  <2>. QED BY <2>5, <2>6, FreshMeans
<1>. QED BY <1>2, <1>3

LEMMA PromptsMean ==
  ASSUME MigrationInv, PlanMeans,
         SelectSecrets \/ ReconcileProject \/ CreateProject \/ LookupFails \/ EnsureEnvs
  PROVE  PlanMeans'
<1>1. JobShape /\ job.stored = {}
  BY DEF MigrationInv, ModeOK, SelectSecrets, ReconcileProject, CreateProject, LookupFails, EnsureEnvs, At
<1>2. Exit \/ (job'.stored = {} /\ job'.plan = job.plan /\ job'.mode = job.mode)
  <2>1. CASE SelectSecrets
    BY <1>1, <2>1 DEF SelectSecrets, JobShape
  <2>2. CASE ReconcileProject \/ CreateProject \/ LookupFails \/ EnsureEnvs
    <3>1. BeginUpload \/ Exit
      BY <2>2 DEF ReconcileProject, CreateProject, LookupFails, EnsureEnvs
    <3>. QED BY <1>1, <3>1, GotoIs DEF BeginUpload
  <2>. QED BY <2>1, <2>2
<1>. QED BY <1>2, ExitMeans, FreshMeans DEF PlanMeans, Scans

(* The server takes the entries with the values they have in the plan.     *)
LEMMA BatchMeans ==
  ASSUME MigrationInv, PlanMeans, Batch, job.mode \in {"auto", "file"}
  PROVE  PlanMeans' /\ VaultGrows
<1>1. /\ At("upload") /\ JobShape /\ job.todo \subseteq job.secret /\ job.secret \subseteq job.plan
      /\ job.mode = "file" => job.secret = job.todo
  BY DEF Batch, MigrationInv, MigrationTypeOK, UploadOK, At
<1>2. UNCHANGED vault \/ (Accepts(job.todo) /\ Put(job.todo))
  BY DEF Batch
<1>3. VaultGrows
  BY <1>2, PutGrows DEF VaultGrows
<1>4. CASE Exit
  BY <1>3, <1>4, ExitMeans
<1>5. ASSUME Accepts(job.todo), Put(job.todo),
             job' = [job EXCEPT !.step = "write", !.todo = Buckets,
                       !.stored = {Composite(g) : g \in job.todo}]
      PROVE  PlanMeans'
  <2>1. \A g \in job.todo : vault'[Composite(g)] = g.value
    BY <1>5, PutGrows
  <2>2. /\ job'.mode = job.mode /\ job'.plan = job.plan /\ job'.secret = job.secret
        /\ job'.stored = {Composite(g) : g \in job.todo}
    BY <1>1, <1>5 DEF JobShape
  <2>3. ASSUME NEW r \in job.secret, Composite(r) \in job'.stored
        PROVE  vault'[Composite(r)] = r.value
    <3>1. PICK g \in job.todo : Composite(g) = Composite(r)
      BY <2>2, <2>3
    <3>2. CASE job.mode = "file"
      BY <1>1, <2>1, <3>2
    <3>3. CASE job.mode = "auto"
      BY <1>1, <2>1, <3>1, <3>3 DEF PlanMeans, Scans
    <3>. QED BY <3>2, <3>3
  <2>. QED BY <2>2, <2>3 DEF PlanMeans, Scans, Composite
<1>. QED BY <1>3, <1>4, <1>5 DEF Batch

LEMMA UploadOneMeans ==
  ASSUME MigrationInv, PlanMeans, UploadOne
  PROVE  PlanMeans' /\ VaultGrows
<1>1. PICK g \in Foremost(job.todo) :
        LET left == job.todo \ {g}
        IN \/ /\ Accepts({g}) /\ Put({g})
              /\ \/ job' = [job EXCEPT !.stored = @ \cup {Composite(g)}, !.todo = left]
                 \/ Goto("upload", left)
           \/ Goto("upload", left) /\ UNCHANGED vault
  BY DEF UploadOne
<1>2. /\ Scans /\ JobShape /\ g \in job.plan /\ job.secret \subseteq job.plan
      /\ job.stored \subseteq DOMAIN vault
  BY DEF UploadOne, MigrationInv, MigrationTypeOK, UploadOK, At, Scans, Foremost, Firsts
<1>3. VaultGrows
  BY <1>1, PutGrows DEF VaultGrows
<1>4. CASE Goto("upload", job.todo \ {g})
  BY <1>2, <1>3, <1>4, GotoIs, SameMeans
<1>5. CASE /\ Accepts({g}) /\ Put({g})
           /\ job' = [job EXCEPT !.stored = @ \cup {Composite(g)}, !.todo = job.todo \ {g}]
  <2>1. /\ job'.mode = job.mode /\ job'.plan = job.plan /\ job'.secret = job.secret
        /\ job'.stored = job.stored \cup {Composite(g)}
    BY <1>2, <1>5 DEF JobShape
  <2>2. vault'[Composite(g)] = g.value
    BY <1>5, PutGrows
  <2>3. ASSUME NEW r \in job.secret, Composite(r) \in job'.stored
        PROVE  vault'[Composite(r)] = r.value
    <3>1. CASE Composite(r) = Composite(g)
      BY <1>2, <2>2, <3>1 DEF PlanMeans
    <3>2. CASE Composite(r) \in job.stored
      BY <1>2, <1>3, <3>2 DEF PlanMeans, VaultGrows
    <3>. QED BY <2>1, <2>3, <3>1, <3>2
  <2>. QED BY <1>3, <2>1, <2>3 DEF PlanMeans, Scans, Composite
<1>. QED BY <1>1, <1>3, <1>4, <1>5

LEMMA ComposedIs ==
  ASSUME NEW at, NEW n \in DOMAIN Composed(at)
  PROVE  \E r \in job.plan :
           /\ r.name = n
           /\ Composed(at)[n] = IF r \in job.secret /\ Composite(r) \in job.stored
                                THEN Alias(r) ELSE Literal(r)
<1> DEFINE mine == {r \in job.plan : Target(r) = at}
           r == CHOOSE r \in mine : r.name = n
<1>1. r \in mine /\ r.name = n
  BY DEF Composed
<1>2. Composed(at)[n] = IF r \in job.secret /\ Composite(r) \in job.stored
                        THEN Alias(r) ELSE Literal(r)
  BY DEF Composed
<1>. QED BY <1>1, <1>2

(* What is written for a bucket: an alias is one the vault has.            *)
(* A write that is cut off leaves a mapping as it is, or empty. *)
LEMMA CutOffMaps ==
  ASSUME NEW at, CutOff(at)
  PROVE  /\ DOMAIN mappings \subseteq DOMAIN mappings'
         /\ \A x \in DOMAIN mappings' :
              \/ x \in DOMAIN mappings /\ mappings'[x] = mappings[x]
              \/ DOMAIN mappings'[x] = {}
<1>1. CASE UNCHANGED mappings
  BY <1>1
<1>2. CASE Write(at, <<>>)
  BY <1>2 DEF Write, Onto
<1>. QED BY <1>1, <1>2 DEF CutOff

LEMMA CutOffMeans ==
  ASSUME AliasesMeanTheirValue, UNCHANGED vault, NEW at, CutOff(at)
  PROVE  AliasesMeanTheirValue'
BY CutOffMaps DEF AliasesMeanTheirValue

LEMMA WriteMappingMeans ==
  ASSUME MigrationInv, PlanMeans, AliasesMeanTheirValue, WriteMapping
  PROVE  AliasesMeanTheirValue'
<1>1. PICK e \in Foremost({s \in job.plan : Target(s) \in job.todo}) :
        \/ Write(Target(e), Onto(Composed(Target(e)), Lines(Target(e))))
        \/ CutOff(Target(e))
  BY DEF WriteMapping
<1> DEFINE at == Target(e)
<1>2. UNCHANGED vault /\ job.stored \subseteq DOMAIN vault
  BY DEF WriteMapping, server, MigrationInv, MigrationTypeOK
<1>3. CASE CutOff(at)
  BY <1>2, <1>3, CutOffMeans
<1>4. CASE Write(at, Onto(Composed(at), Lines(at)))
  <2>1. /\ \A x \in DOMAIN mappings \ {at} : x \in DOMAIN mappings' /\ mappings'[x] = mappings[x]
        /\ mappings'[at] = Onto(Composed(at), Lines(at))
        /\ DOMAIN mappings' = DOMAIN mappings \cup {at}
    BY <1>4, WrittenMaps
  <2>2. ASSUME NEW n \in DOMAIN mappings'[at], mappings'[at][n].kind = "alias"
        PROVE  LET x == mappings'[at][n] IN x.at \in DOMAIN vault /\ vault[x.at] = x.meant
    <3>1. CASE n \in DOMAIN Composed(at)
      <4>1. PICK r \in job.plan :
              /\ r.name = n
              /\ Composed(at)[n] = IF r \in job.secret /\ Composite(r) \in job.stored
                                   THEN Alias(r) ELSE Literal(r)
        BY <3>1, ComposedIs
      <4>2. mappings'[at][n] = Composed(at)[n]
        BY <2>1, <3>1 DEF Onto
      <4>3. r \in job.secret /\ Composite(r) \in job.stored /\ mappings'[at][n] = Alias(r)
        BY <2>2, <4>1, <4>2 DEF Literal
      <4>. QED BY <1>2, <4>3 DEF Alias, PlanMeans
    <3>2. CASE n \notin DOMAIN Composed(at)
      <4>1. n \in DOMAIN Lines(at) /\ mappings'[at][n] = Lines(at)[n]
        BY <2>1, <3>2 DEF Onto
      <4>2. at \in DOMAIN mappings /\ mappings'[at][n] = mappings[at][n] /\ n \in DOMAIN mappings[at]
        BY <4>1 DEF Lines
      <4>. QED BY <2>2, <4>2 DEF AliasesMeanTheirValue
    <3>. QED BY <3>1, <3>2
  <2> HIDE DEF at
  <2>. QED BY <1>2, <2>1, <2>2 DEF AliasesMeanTheirValue
<1>. QED BY <1>1, <1>3, <1>4

LEMMA WriteFileMeans ==
  ASSUME MigrationInv, PlanMeans, AliasesMeanTheirValue, WriteKeynvEnvMappings
  PROVE  AliasesMeanTheirValue'
<1> DEFINE at    == <<job.root, "">>
           fresh == [n \in {r.name : r \in job.plan} |-> Alias(CHOOSE r \in job.plan : r.name = n)]
<1>0. CASE CutOff(at)
  <2>1. UNCHANGED vault
    BY DEF WriteKeynvEnvMappings, server
  <2>. QED BY <1>0, <2>1, CutOffMeans
<1>1. SUFFICES ASSUME Write(at, Onto(Lines(at), fresh)), UNCHANGED vault
               PROVE  AliasesMeanTheirValue'
  BY <1>0 DEF WriteKeynvEnvMappings, server
<1>2. \A r \in job.plan : Composite(r) \in DOMAIN vault /\ vault[Composite(r)] = r.value
  BY DEF WriteKeynvEnvMappings, At, MigrationInv, MigrationTypeOK, UploadOK, PlanMeans
<1>3. ASSUME NEW n \in DOMAIN fresh
      PROVE  /\ fresh[n].at \in DOMAIN vault /\ vault[fresh[n].at] = fresh[n].meant
  <2>1. PICK r \in job.plan : r.name = n
    OBVIOUS
  <2>2. (CHOOSE s \in job.plan : s.name = n) \in job.plan
    BY <2>1
  <2>. QED BY <1>2, <2>2 DEF Alias
<1> HIDE DEF fresh, at
<1>4. /\ DOMAIN mappings' = DOMAIN mappings \cup {at}
      /\ mappings'[at] = Onto(Lines(at), fresh)
      /\ \A x \in DOMAIN mappings \ {at} : mappings'[x] = mappings[x]
  BY <1>1 DEF Write, Onto
<1>5. ASSUME NEW n \in DOMAIN mappings'[at], mappings'[at][n].kind = "alias"
      PROVE  LET x == mappings'[at][n] IN x.at \in DOMAIN vault /\ vault[x.at] = x.meant
  <2>1. CASE n \in DOMAIN Lines(at)
    <3>1. mappings'[at][n] = Lines(at)[n]
      BY <1>4, <2>1 DEF Onto
    <3>2. at \in DOMAIN mappings /\ mappings'[at][n] = mappings[at][n] /\ n \in DOMAIN mappings[at]
      BY <2>1, <3>1 DEF Lines
    <3>. QED BY <1>5, <3>2 DEF AliasesMeanTheirValue
  <2>2. CASE n \notin DOMAIN Lines(at)
    <3>1. n \in DOMAIN fresh /\ mappings'[at][n] = fresh[n]
      BY <1>4, <2>2 DEF Onto
    <3>. QED BY <1>3, <3>1
  <2>. QED BY <2>1, <2>2
<1>. QED BY <1>1, <1>4, <1>5 DEF AliasesMeanTheirValue

LEMMA MeaningStep ==
  ASSUME SlugsApart, MeaningInv, [MigrationNext]_migrationVars
  PROVE  MeaningInv'
<1>1. MigrationInv /\ PlanMeans /\ AliasesMeanTheirValue /\ MigrationInv'
  BY MigrationStepInv DEF MeaningInv
<1>2. JobShape /\ job.stored \subseteq DOMAIN vault
  BY <1>1 DEF MigrationInv, MigrationTypeOK
<1>3. SUFFICES PlanMeans' /\ AliasesMeanTheirValue'
  BY <1>1 DEF MeaningInv
<1>4. CASE StartAuto \/ StartAsk \/ StartFile
  <2>1. UNCHANGED mappings /\ VaultGrows
    BY <1>4 DEF StartAuto, StartAsk, StartFile, Start, local, server, VaultGrows
  <2>. QED BY <1>1, <1>4, <2>1, StartMeans, AliasesStay
<1>5. CASE MapFiles
  <2>1. UNCHANGED mappings /\ VaultGrows
    BY <1>5 DEF MapFiles, local, server, VaultGrows
  <2>. QED BY <1>1, <1>5, <2>1, MapFilesMeans, AliasesStay
<1>6. CASE SelectSecrets \/ ReconcileProject \/ CreateProject \/ LookupFails \/ EnsureEnvs
  <2>1. UNCHANGED mappings /\ VaultGrows
    BY <1>6 DEF SelectSecrets, ReconcileProject, CreateProject, LookupFails, EnsureEnvs,
                local, server, VaultGrows
  <2>. QED BY <1>1, <1>6, <2>1, PromptsMean, AliasesStay
<1>7. CASE UploadBatch \/ UploadSecrets
  <2>1. UNCHANGED mappings
    BY <1>7 DEF UploadBatch, UploadSecrets, Batch, local
  <2>. QED BY <1>1, <1>7, <2>1, BatchMeans, AliasesStay DEF UploadBatch, UploadSecrets
<1>8. CASE UploadOne
  <2>1. UNCHANGED mappings
    BY <1>8 DEF UploadOne, local
  <2>. QED BY <1>1, <1>8, <2>1, UploadOneMeans, AliasesStay
<1>9. CASE UploadedAll \/ WriteAiContext \/ WrapScripts \/ BackupEnvFile
  <2>1. UNCHANGED mappings /\ VaultGrows
    BY <1>9 DEF UploadedAll, WriteAiContext, WrapScripts, BackupEnvFile, local, server, VaultGrows
  <2>2. \E step, todo : Goto(step, todo)
    BY <1>9 DEF UploadedAll, WriteAiContext, WrapScripts, BackupEnvFile
  <2>3. PlanMeans'
    BY <1>1, <1>2, <2>1, <2>2, GotoIs, SameMeans
  <2>. QED BY <1>1, <2>1, <2>3, AliasesStay
<1>10. CASE WriteMapping
  <2>1. VaultGrows /\ (Exit \/ \E step, todo : Goto(step, todo))
    BY <1>10 DEF WriteMapping, WriteFailed, server, VaultGrows
  <2>2. PlanMeans'
    BY <1>1, <1>2, <2>1, GotoIs, SameMeans, ExitMeans
  <2>. QED BY <1>1, <1>10, <2>2, WriteMappingMeans
<1>11. CASE WriteKeynvEnvMappings
  <2>1. Exit
    BY <1>11 DEF WriteKeynvEnvMappings
  <2>. QED BY <1>1, <1>11, <2>1, WriteFileMeans, ExitMeans
<1>12. CASE Finish \/ Crash
  <2>1. Exit /\ UNCHANGED mappings /\ VaultGrows
    BY <1>12 DEF Finish, Crash, local, server, VaultGrows
  <2>. QED BY <1>1, <2>1, ExitMeans, AliasesStay
<1>13. CASE UserWritesEnv \/ UserEditsScripts \/ UNCHANGED migrationVars
  <2>1. UNCHANGED <<job, mappings>> /\ VaultGrows
    BY <1>13 DEF UserWritesEnv, UserEditsScripts, migrationVars, server, VaultGrows
  <2>. QED BY <1>1, <1>2, <2>1, SameMeans, AliasesStay
<1>. QED BY <1>4, <1>5, <1>6, <1>7, <1>8, <1>9, <1>10, <1>11, <1>12, <1>13 DEF MigrationNext

(* When no two directories of a project share a slug, an alias in a        *)
(* .keynv.env names a key the vault has and the value there is the one the *)
(* .env file said, whatever was refused, lost or cut short (runAutoScan,   *)
(* runInitFlow, planVaultKeys).                                            *)
THEOREM AliasesMean ==
  ASSUME SlugsApart
  PROVE  MigrationSpec => []MappingsConsistent
<1>1. MigrationInit => MeaningInv
  <2>1. MigrationInit => PlanMeans /\ AliasesMeanTheirValue
    BY DEF MigrationInit, PlanMeans, AliasesMeanTheirValue, Idle, Scans
  <2>. QED BY <2>1, MigrationInitInv DEF MeaningInv
<1>2. MeaningInv /\ [MigrationNext]_migrationVars => MeaningInv'
  BY MeaningStep
<1>3. MeaningInv => MappingsConsistent
  BY DEF MeaningInv, MigrationInv, MappingsConsistent
<1>. QED BY <1>1, <1>2, <1>3, PTL DEF MigrationSpec

-----------------------------------------------------------------------------
(* What a step never does. *)

LEMMA ClassOf ==
  ASSUME NEW name, NEW value
  PROVE  ClassifyEntry(name, value) \in {"skip", "literal", "secret", "ambiguous"}
BY DEF ClassifyEntry

(* Only the two writes touch a mapping. *)
LEMMA WritersOfMappings ==
  ASSUME [MigrationNext]_migrationVars
  PROVE  UNCHANGED mappings \/ WriteMapping \/ WriteKeynvEnvMappings
BY DEF MigrationNext, migrationVars, StartAuto, StartAsk, StartFile, Start, MapFiles, SelectSecrets,
       ReconcileProject, CreateProject, LookupFails, EnsureEnvs, UploadBatch, UploadSecrets, Batch,
       UploadOne, UploadedAll, WriteAiContext, WrapScripts, BackupEnvFile, Finish, UserWritesEnv,
       UserEditsScripts, Crash, local

(* Nothing that may be a secret is written to a committed file when nobody *)
(* is asked: the scan stores all of them first, or writes nothing.         *)
THEOREM FailsSafe == MigrationSpec => FailSafe
<1> DEFINE said(at, n) == at \notin DOMAIN mappings \/ n \notin DOMAIN mappings[at]
                         \/ mappings[at][n] # mappings'[at][n]
<1>1. ASSUME MigrationInv, [MigrationNext]_migrationVars, NEW at \in DOMAIN mappings',
             NEW n \in DOMAIN mappings'[at], job.mode \in {"auto", "file"},
             said(at, n), mappings'[at][n].kind = "literal"
      PROVE  LET x == mappings'[at][n] IN IsAlias(x.value) \/ ClassifyEntry(n, x.value) = "literal"
  <2>1. WriteMapping \/ WriteKeynvEnvMappings
    BY <1>1, WritersOfMappings
  <2>2. CASE WriteMapping
    <3>0. PICK e \in Foremost({s \in job.plan : Target(s) \in job.todo}) :
            \/ Write(Target(e), Onto(Composed(Target(e)), Lines(Target(e))))
            \/ CutOff(Target(e))
      BY <2>2 DEF WriteMapping
    <3>1. Write(Target(e), Onto(Composed(Target(e)), Lines(Target(e))))
      BY <1>1, <3>0, CutOffMaps
    <3> DEFINE to == Target(e)
    <3>2. /\ \A x \in DOMAIN mappings \ {to} : mappings'[x] = mappings[x]
          /\ mappings'[to] = Onto(Composed(to), Lines(to))
          /\ DOMAIN mappings' = DOMAIN mappings \cup {to}
      BY <3>1, WrittenMaps
    <3>3. at = to
      BY <1>1, <3>2
    <3>4. n \in DOMAIN Composed(to)
      <4>1. ASSUME n \notin DOMAIN Composed(to) PROVE FALSE
        <5>1. n \in DOMAIN Lines(to) /\ mappings'[at][n] = Lines(to)[n]
          BY <1>1, <3>2, <3>3, <4>1 DEF Onto
        <5>2. to \in DOMAIN mappings /\ Lines(to) = mappings[to]
          BY <5>1 DEF Lines
        <5>. QED BY <1>1, <3>3, <5>1, <5>2
      <4>. QED BY <4>1
    <3>5. mappings'[at][n] = Composed(to)[n]
      BY <3>2, <3>3, <3>4 DEF Onto
    <3>6. PICK r \in job.plan :
            /\ r.name = n
            /\ Composed(to)[n] = IF r \in job.secret /\ Composite(r) \in job.stored
                                 THEN Alias(r) ELSE Literal(r)
      BY <3>4, ComposedIs
    <3>7. mappings'[at][n] = Literal(r) /\ (r \notin job.secret \/ Composite(r) \notin job.stored)
      BY <1>1, <3>5, <3>6 DEF Alias
    <3>8. job.mode = "auto" /\ At("write")
      BY <1>1, <2>2 DEF WriteMapping
    <3>9. r \notin job.secret
      BY <1>1, <3>7, <3>8 DEF MigrationInv, UploadOK, At
    <3>10. ~MaybeSecret(r) /\ ClassifyEntry(r.name, r.value) # "skip"
      BY <1>1, <3>8, <3>9 DEF MigrationInv, AutoTakesAll, PlanOK, Scans
    <3>11. mappings'[at][n].value = r.value
      BY <3>7 DEF Literal
    <3>. QED BY <3>6, <3>10, <3>11, ClassOf DEF MaybeSecret
  <2>3. CASE WriteKeynvEnvMappings
    <3> DEFINE to    == <<job.root, "">>
               fresh == [m \in {r.name : r \in job.plan} |-> Alias(CHOOSE r \in job.plan : r.name = m)]
    <3>0. Write(to, Onto(Lines(to), fresh)) \/ CutOff(to)
      BY <2>3 DEF WriteKeynvEnvMappings
    <3>1. Write(to, Onto(Lines(to), fresh))
      BY <1>1, <3>0, CutOffMaps
    <3>2. \A m \in DOMAIN fresh : fresh[m].kind = "alias"
      BY DEF Alias
    <3> HIDE DEF fresh, to
    <3>3. /\ mappings'[to] = Onto(Lines(to), fresh)
          /\ DOMAIN mappings' = DOMAIN mappings \cup {to}
          /\ \A x \in DOMAIN mappings \ {to} : mappings'[x] = mappings[x]
      BY <3>1 DEF Write, Onto
    <3>4. at = to
      BY <1>1, <3>3
    <3>5. n \notin DOMAIN Lines(to)
      <4>1. ASSUME n \in DOMAIN Lines(to) PROVE FALSE
        <5>1. mappings'[at][n] = Lines(to)[n]
          BY <3>3, <3>4, <4>1 DEF Onto
        <5>2. to \in DOMAIN mappings /\ Lines(to) = mappings[to]
          BY <4>1 DEF Lines
        <5>. QED BY <1>1, <3>4, <4>1, <5>1, <5>2
      <4>. QED BY <4>1
    <3>6. n \in DOMAIN fresh /\ mappings'[at][n] = fresh[n]
      BY <1>1, <3>3, <3>4, <3>5 DEF Onto
    <3>. QED BY <1>1, <3>2, <3>6
  <2>. QED BY <2>1, <2>2, <2>3
<1>2. MigrationInv /\ [MigrationNext]_migrationVars =>
        [\A at \in DOMAIN mappings' : \A n \in DOMAIN mappings'[at] :
           LET e == mappings'[at][n]
               new == at \notin DOMAIN mappings \/ n \notin DOMAIN mappings[at]
                      \/ mappings[at][n] # e
           IN job.mode \in {"auto", "file"} /\ new /\ e.kind = "literal"
                => \/ IsAlias(e.value)
                   \/ ClassifyEntry(n, e.value) = "literal"]_migrationVars
  BY <1>1
<1>. QED BY <1>2, MigrationIsTyped, PTL DEF MigrationSpec, FailSafe

UserEditsTyped == userEdits \in Nat

LEMMA UserEditsCounted == MigrationSpec => []UserEditsTyped
<1>1. MigrationInit => UserEditsTyped
  BY DEF MigrationInit, UserEditsTyped
<1>2. UserEditsTyped /\ [MigrationNext]_migrationVars => UserEditsTyped'
  <2>1. ASSUME [MigrationNext]_migrationVars PROVE userEdits' \in {userEdits, userEdits + 1}
    BY <2>1 DEF MigrationNext, migrationVars, StartAuto, StartAsk, StartFile, Start, MapFiles,
       SelectSecrets, ReconcileProject, CreateProject, LookupFails, EnsureEnvs, UploadBatch,
       UploadSecrets, Batch, UploadOne, UploadedAll, WriteMapping, WriteAiContext, WrapScripts,
       BackupEnvFile, Finish, WriteKeynvEnvMappings, UserWritesEnv, UserEditsScripts, Crash, bounds
  <2>. QED BY <2>1 DEF UserEditsTyped
<1>. QED BY <1>1, <1>2, PTL DEF MigrationSpec

(* Only the user and the renaming touch a .env file, only the renaming a   *)
(* backup.                                                                 *)
LEMMA WritersOfFiles ==
  ASSUME [MigrationNext]_migrationVars
  PROVE  \/ UNCHANGED <<disk, backups>>
         \/ BackupEnvFile
         \/ UserWritesEnv
BY DEF MigrationNext, migrationVars, StartAuto, StartAsk, StartFile, Start, MapFiles, SelectSecrets,
       ReconcileProject, CreateProject, LookupFails, EnsureEnvs, UploadBatch, UploadSecrets, Batch,
       UploadOne, UploadedAll, WriteMapping, WriteAiContext, WrapScripts, Finish,
       WriteKeynvEnvMappings, UserEditsScripts, Crash, local

(* What a .env file said goes to a backup of its own before the file goes, *)
(* and no backup is overwritten: the name is free.                         *)
THEOREM OriginalsAreKept == MigrationSpec => OriginalsKept
<1> DEFINE Stay(f) == \A name \in DOMAIN backups[f] :
                        name \in DOMAIN backups'[f] /\ backups'[f][name] = backups[f][name]
           Moved(f) == \E name \in DOMAIN backups'[f] \ DOMAIN backups[f] :
                         backups'[f][name] = disk[f]
<1>1. ASSUME MigrationInv, UserEditsTyped, [MigrationNext]_migrationVars, NEW f \in Tree
      PROVE  Stay(f) /\ (disk'[f] = disk[f] \/ userEdits' # userEdits \/ Moved(f))
  <2>1. CASE UNCHANGED <<disk, backups>>
    BY <2>1
  <2>2. CASE UserWritesEnv
    <3>1. userEdits' = userEdits + 1 /\ UNCHANGED backups
      BY <2>2 DEF UserWritesEnv
    <3>. QED BY <1>1, <3>1 DEF UserEditsTyped
  <2>3. CASE BackupEnvFile
    <3>1. PICK g \in FirstFiles(job.root, job.todo) :
            \/ UNCHANGED <<disk, backups>>
            \/ /\ disk[g] # Missing
               /\ \E now \in Minutes : \E name \in BackupNames(g, now) : Rename(g, name)
      BY <2>3, BackupStep
    <3>2. CASE UNCHANGED <<disk, backups>>
      BY <3>2
    <3>3. CASE /\ disk[g] # Missing
               /\ \E now \in Minutes : \E name \in BackupNames(g, now) : Rename(g, name)
      <4>1. PICK now \in Minutes : \E name \in BackupNames(g, now) : Rename(g, name)
        BY <3>3
      <4>2. PICK name \in BackupNames(g, now) : Rename(g, name)
        BY <4>1
      <4>3. g \in Tree /\ MigrationTypeOK
        BY <1>1, <2>3 DEF BackupEnvFile, MigrationInv, MigrationTypeOK, WriteOK, At, FirstFiles
      <4>4. /\ name \notin DOMAIN backups[g]
            /\ DOMAIN backups'[g] = DOMAIN backups[g] \cup {name}
            /\ backups'[g][name] = disk[g]
            /\ \A x \in DOMAIN backups[g] : backups'[g][x] = backups[g][x]
            /\ \A h \in Tree \ {g} : backups'[h] = backups[h]
            /\ disk' = [disk EXCEPT ![g] = Missing]
        BY <3>3, <4>2, <4>3, RenameAdds
      <4>5. CASE f = g
        BY <4>4, <4>5
      <4>6. CASE f # g
        BY <4>4, <4>6
      <4>. QED BY <4>5, <4>6
    <3>. QED BY <3>1, <3>2, <3>3
  <2>. QED BY <1>1, <2>1, <2>2, <2>3, WritersOfFiles
<1>2. MigrationInv /\ UserEditsTyped /\ [MigrationNext]_migrationVars =>
        [\A f \in Tree :
           /\ \A name \in DOMAIN backups[f] :
                name \in DOMAIN backups'[f] /\ backups'[f][name] = backups[f][name]
           /\ \/ disk'[f] = disk[f]
              \/ userEdits' # userEdits
              \/ \E name \in DOMAIN backups'[f] \ DOMAIN backups[f] :
                   backups'[f][name] = disk[f]]_migrationVars
  BY <1>1
<1>. QED BY <1>2, MigrationIsTyped, UserEditsCounted, PTL DEF MigrationSpec, OriginalsKept

FaultsTyped == faults \in Nat

LEMMA FaultsCounted == MigrationSpec => []FaultsTyped
<1>1. MigrationInit => FaultsTyped
  BY DEF MigrationInit, FaultsTyped
<1>2. FaultsTyped /\ [MigrationNext]_migrationVars => FaultsTyped'
  <2>1. ASSUME [MigrationNext]_migrationVars PROVE faults' \in {faults, faults + 1}
    BY <2>1 DEF MigrationNext, migrationVars, StartAuto, StartAsk, StartFile, Start, MapFiles,
       SelectSecrets, ReconcileProject, CreateProject, LookupFails, EnsureEnvs, UploadBatch,
       UploadSecrets, Batch, UploadOne, UploadedAll, WriteMapping, WriteAiContext, WrapScripts,
       BackupEnvFile, Finish, WriteKeynvEnvMappings, UserWritesEnv, UserEditsScripts, Crash, bounds,
       Fault
  <2>. QED BY <2>1 DEF FaultsTyped
<1>. QED BY <1>1, <1>2, PTL DEF MigrationSpec

(* A mapping loses a variable only to a write that is cut off.             *)
LEMMA MappingsLast ==
  ASSUME FaultsTyped, [MigrationNext]_migrationVars, NEW at \in DOMAIN mappings
  PROVE  \/ at \in DOMAIN mappings' /\ DOMAIN mappings[at] \subseteq DOMAIN mappings'[at]
         \/ faults' # faults /\ job' = Idle
<1>1. CASE UNCHANGED mappings
  BY <1>1
<1>2. CASE WriteMapping
  <2>1. PICK e \in Foremost({s \in job.plan : Target(s) \in job.todo}) :
          \/ Write(Target(e), Onto(Composed(Target(e)), Lines(Target(e))))
          \/ Exit /\ Fault
    BY <1>2 DEF WriteMapping, WriteFailed
  <2>2. CASE Exit /\ Fault
    BY <2>2 DEF Exit, Fault, FaultsTyped
  <2> DEFINE to == Target(e)
  <2>3. CASE Write(to, Onto(Composed(to), Lines(to)))
    <3>1. /\ \A x \in DOMAIN mappings \ {to} : x \in DOMAIN mappings' /\ mappings'[x] = mappings[x]
          /\ to \in DOMAIN mappings' /\ mappings'[to] = Onto(Composed(to), Lines(to))
      BY <2>3, WrittenMaps
    <3> HIDE DEF to
    <3>2. CASE at = to
      <4>1. DOMAIN Lines(to) = DOMAIN mappings[to]
        BY <3>2 DEF Lines
      <4>. QED BY <3>1, <3>2, <4>1 DEF Onto
    <3>3. CASE at # to
      BY <3>1, <3>3
    <3>. QED BY <3>2, <3>3
  <2>. QED BY <2>1, <2>2, <2>3
<1>3. CASE WriteKeynvEnvMappings
  <2> DEFINE to    == <<job.root, "">>
             fresh == [m \in {r.name : r \in job.plan} |-> Alias(CHOOSE r \in job.plan : r.name = m)]
  <2>1. Exit /\ (Write(to, Onto(Lines(to), fresh)) \/ Fault)
    BY <1>3 DEF WriteKeynvEnvMappings
  <2>2. CASE Exit /\ Fault
    BY <2>2 DEF Exit, Fault, FaultsTyped
  <2> HIDE DEF to, fresh
  <2>3. CASE Write(to, Onto(Lines(to), fresh))
    <3>1. /\ \A x \in DOMAIN mappings \ {to} : x \in DOMAIN mappings' /\ mappings'[x] = mappings[x]
          /\ to \in DOMAIN mappings' /\ mappings'[to] = Onto(Lines(to), fresh)
      BY <2>3 DEF Write, Onto
    <3>2. CASE at = to
      <4>1. DOMAIN Lines(to) = DOMAIN mappings[to]
        BY <3>2 DEF Lines
      <4>. QED BY <3>1, <3>2, <4>1 DEF Onto
    <3>3. CASE at # to
      BY <3>1, <3>3
    <3>. QED BY <3>2, <3>3
  <2>. QED BY <2>1, <2>2, <2>3
<1>. QED BY <1>1, <1>2, <1>3, WritersOfMappings

(* A .env file goes only when its directory has a mapping for all that was *)
(* read from it, and a mapping loses a variable only to a write cut off.   *)
THEOREM MappedFirst == MigrationSpec => MappedBeforeRenamed
<1>1. ASSUME MigrationInv, [MigrationNext]_migrationVars, NEW f \in Tree, backups'[f] # backups[f],
             NEW r \in job.plan
      PROVE  Target(r) \in DOMAIN mappings /\ r.name \in DOMAIN mappings[Target(r)]
  <2>1. BackupEnvFile
    BY <1>1, WritersOfFiles DEF UserWritesEnv
  <2>. QED BY <1>1, <2>1 DEF BackupEnvFile, At, MigrationInv, WriteOK, HasMapping
<1>2. MigrationInv /\ FaultsTyped /\ [MigrationNext]_migrationVars =>
        [/\ \A f \in Tree : backups'[f] # backups[f] =>
              \A r \in job.plan : r.file.dir = f.dir =>
                Target(r) \in DOMAIN mappings /\ r.name \in DOMAIN mappings[Target(r)]
         /\ \A at \in DOMAIN mappings :
              \/ at \in DOMAIN mappings' /\ DOMAIN mappings[at] \subseteq DOMAIN mappings'[at]
              \/ faults' # faults /\ job' = Idle]_migrationVars
  BY <1>1, MappingsLast
<1>. QED BY <1>2, MigrationIsTyped, FaultsCounted, PTL DEF MigrationSpec, MappedBeforeRenamed
=============================================================================
