-------------------------- MODULE ApprovalsProofs --------------------------
(***************************************************************************)
(* Theorems about Approvals and its screens, for any sets of requests,     *)
(* users and aliases.                                                      *)
(*                                                                         *)
(* What a request may do next rests on rows that it looked at awaits ago.  *)
(* The invariant therefore says of every position of a handler what it has *)
(* found and owes (AtPosition), and the proofs use one fact of every step  *)
(* (RowStep): a row keeps its alias, user and creation time for good, and  *)
(* once decided its decider and its end; only a grant may still expire.    *)
(***************************************************************************)
EXTENDS ApprovalsReading, FiniteSetTheorems, WellFoundedInduction, TLAPS

\* Rows that were granted have a reviewer and an end.
RowsOK ==
  \A i \in Rows : approvals[i].status \in {"granted", "expired"}
                    => approvals[i].by # Null /\ approvals[i].expires \in Nat

\* The event of a decision
DecisionEvent(r) ==
  [type |-> IF call[r].op = "grant" THEN "approval.granted" ELSE "approval.denied",
   request |-> r, id |-> call[r].id]

\* What the position of a request says of its variables and of its row
AtPosition(r) ==
  /\ pc[r] = "idle" => call[r] = Null
  /\ pc[r] # "idle" => call[r] \in Call
  /\ reply[r] = "none" <=> pc[r] # "done"
  /\ approvals[r] # Null \/ r \in exposed
       => pc[r] \in {"audit", "done"} /\ call[r].op \in Access
  /\ pc[r] \in {"expire", "ensure", "reread", "again", "secret"}
       => call[r].op \in Access
  /\ pc[r] = "expire" => /\ found[r] \in RowsFor(r)
                         /\ approvals[found[r]].status \in {"granted", "expired"}
  /\ call[r] # Null /\ call[r].op \in Decisions => call[r].id \in Rows

\* What a request that waits for its event owes
OwedOK(r) ==
  pc[r] = "audit" =>
    /\ owed[r] \in Event /\ owed[r].request = r
    /\ call[r].op \in Decisions => owed[r] = DecisionEvent(r)
    /\ approvals[r] # Null
         => owed[r] = [type |-> "approval.requested", request |-> r, id |-> r]

Positions == \A r \in Requests : AtPosition(r) /\ OwedOK(r)

\* The caller of r has the right that ExposedOnlyWithRight asks for.
HasRight(r) ==
  \/ call[r].role \in {"admin", "lead"}
  \/ call[r].role = "developer"
       /\ (call[r].alias \in Gated => CoveredByGrant(r))

\* Whoever has come as far as the value has the right to it.
Rightful ==
  \A r \in Requests :
    \/ r \in exposed
    \/ pc[r] = "secret"
    \/ pc[r] = "audit" /\ owed[r].type = "secret.read.allowed"
    => HasRight(r)

\* r has decided, and its client is or will be told so unless the server dies.
Deciding(r) ==
  /\ pc[r] = "audit" \/ reply[r] = "ok"
  /\ call[r].op \in Decisions

\* A row has one decider, whose decision is the row's status.
OneDecider ==
  \A r \in Requests : Deciding(r) =>
    /\ IF call[r].op = "grant"
       THEN approvals[call[r].id].status \in {"granted", "expired"}
       ELSE approvals[call[r].id].status = "denied"
    /\ \A q \in Requests : Deciding(q) /\ q # r => call[q].id # call[r].id

\* The log has the event of the request and the decision of every row, or the
\* request that owes it waits for it or has been lost.
Told ==
  \A i \in Rows :
    /\ \/ \E e \in audit : e.type = "approval.requested" /\ e.id = i
       \/ pc[i] = "audit" \/ reply[i] = "lost"
    /\ approvals[i].status # "pending" =>
         \/ \E e \in audit :
              /\ e.id = i
              /\ e.type \in {"approval.granted", "approval.denied"}
              /\ e.type = "approval.denied" <=> approvals[i].status = "denied"
         \/ \E r \in Requests : /\ call[r] # Null /\ call[r].id = i
                                /\ call[r].op \in Decisions
                                /\ pc[r] = "audit" \/ reply[r] = "lost"

IInv == /\ TypeOK /\ RowsOK /\ Positions /\ Rightful
        /\ OneDecider /\ OnePending /\ Told /\ AccessRecorded

----------------------------------------------------------------------------
(* What a step does *)

\* A step of r leaves the variables of the others alone.
Frame(r) ==
  \A q \in Requests \ {r} :
    /\ pc'[q] = pc[q] /\ call'[q] = call[q] /\ found'[q] = found[q]
    /\ owed'[q] = owed[q] /\ looked'[q] = looked[q] /\ reply'[q] = reply[q]
    /\ q \in exposed' <=> q \in exposed

\* No handler breaks that.
LEMMA ServeFrame ==
  ASSUME TypeOK, NEW r \in Requests, Serve(r)
  PROVE  Frame(r)
<1> USE DEF TypeOK, Frame, Answer, Goto, Owe, Decide, table, world, local
<1>1. CASE Arrive(r)
  BY <1>1 DEF Arrive
<1>2. CASE RefuseTest(r) \/ RereadPending(r)
  BY <1>2 DEF RefuseTest, RereadPending
<1>3. CASE FindGrant(r)
  BY <1>3 DEF FindGrant
<1>4. CASE ExpireGrant(r)
  BY <1>4 DEF ExpireGrant
<1>5. CASE EnsurePending(r) \/ EnsureAgain(r)
  BY <1>5 DEF EnsurePending, EnsureAgain
<1>6. CASE UseSecret(r)
  BY <1>6 DEF UseSecret
<1>7. CASE Grant(r)
  BY <1>7 DEF Grant
<1>8. CASE Deny(r)
  BY <1>8 DEF Deny
<1>9. CASE Audit(r)
  BY <1>9 DEF Audit
<1> QED
  BY <1>1, <1>2, <1>3, <1>4, <1>5, <1>6, <1>7, <1>8, <1>9 DEF Serve

\* The three ends of Decide
LEMMA DecideCases ==
  ASSUME NEW r \in Requests, NEW granted \in BOOLEAN, Decide(r, granted)
  PROVE  \/ Goto(r, "ensure") /\ UNCHANGED owed
         \/ \E type \in {"secret.read.denied", "secret.test.denied"} :
              Owe(r, type, Null)
         \/ /\ Goto(r, "secret") /\ UNCHANGED owed
            /\ Authorize(r, granted) = "allow"
<1>1. Authorize(r, granted) \in {"deny", "pending_approval", "allow"}
  BY DEF Authorize
<1> QED
  BY <1>1 DEF Decide

\* A request without a pending row of its wish raises one.
Raises(r) ==
  /\ pc[r] \in {"ensure", "again"}
  /\ ~Conflict(r)
  /\ approvals' = [approvals EXCEPT ![r] = NewApproval(r)]
  /\ Owe(r, "approval.requested", r)
  /\ UNCHANGED <<audit, exposed, world, call, found, looked>>

\* The four things that can happen to the table in a step of r
TableStep(r) ==
  \/ UNCHANGED approvals
  \/ Raises(r)
  \/ ExpireGrant(r)
  \/ Grant(r) /\ MayDecide(r) /\ Decidable(call[r].id)
  \/ Deny(r) /\ MayDecide(r) /\ Decidable(call[r].id)

\* No handler does anything else to it.
LEMMA TableSteps ==
  ASSUME NEW r \in Requests, Serve(r) PROVE TableStep(r)
BY DEF Serve, TableStep, Raises, table, Arrive, RefuseTest, FindGrant, RereadPending,
   EnsurePending, EnsureAgain, UseSecret, Grant, Deny, Audit

\* Every variable keeps its type in a step of a handler.
LEMMA ServeTypes ==
  ASSUME IInv, NEW r \in Requests, Serve(r) PROVE TypeOK'
<1> USE DEF Answer, Goto, Owe, world, local, table
<1>0. /\ TypeOK /\ AtPosition(r) /\ OwedOK(r)
      /\ pc[r] # "idle" => call[r] \in Call
      /\ \A type \in EventTypes, id \in Requests \cup {Null} :
           [type |-> type, request |-> r, id |-> id] \in Event
  BY DEF IInv, Positions, AtPosition, Event
<1>a. \A i \in Requests, a \in Approval :
        [approvals EXCEPT ![i] = a] \in [Requests -> Approval \cup {Null}]
  BY <1>0 DEF TypeOK
<1>b. ASSUME NEW granted \in BOOLEAN, Decide(r, granted)
      PROVE  /\ owed' \in [Requests -> Event \cup {Null}]
             /\ pc' \in [Requests -> {"idle", "start", "expire", "ensure", "reread",
                                      "again", "secret", "audit", "done"}]
             /\ reply' = reply
  BY <1>0, <1>b, DecideCases DEF TypeOK, EventTypes
<1>1. CASE Arrive(r)
  <2>1. call' \in [Requests -> Call \cup {Null}]
    <3>1. PICK c \in Call : call' = [call EXCEPT ![r] = c]
      <4>1. PICK u \in Users : \E x \in RolesOf(u) :
              \/ \E o \in Ops \cap Access, a \in Aliases :
                   call' = [call EXCEPT ![r] =
                     [op |-> o, user |-> u, role |-> x, alias |-> a, id |-> Null]]
              \/ \E o \in Ops \cap Decisions, i \in Rows :
                   call' = [call EXCEPT ![r] =
                     [op |-> o, user |-> u, role |-> x,
                      alias |-> approvals[i].alias, id |-> i]]
        BY <1>1 DEF Arrive
      <4>2. RolesOf(u) \subseteq Roles \cup {"admin"}
        BY DEF RolesOf
      <4>3. \A i \in Rows : i \in Requests /\ approvals[i].alias \in Aliases
        BY <1>0 DEF Rows, TypeOK, Approval
      <4> QED
        BY <4>1, <4>2, <4>3 DEF Call
    <3> QED
      BY <3>1, <1>0 DEF TypeOK
  <2> QED
    BY <2>1, <1>0, <1>1 DEF Arrive, TypeOK
<1>2. CASE RefuseTest(r) \/ RereadPending(r)
  BY <1>0, <1>2 DEF RefuseTest, RereadPending, TypeOK
<1>3. CASE FindGrant(r)
  <2>1. looked' \in [Requests -> 0..MaxTime \cup {Null}]
    BY <1>0, <1>3 DEF FindGrant, TypeOK
  <2>2. found' \in [Requests -> Requests \cup {Null}]
    BY <1>0, <1>3 DEF FindGrant, TypeOK, Granted, RowsFor, Rows
  <2>3. CASE \E granted \in BOOLEAN : Decide(r, granted)
    BY <1>0, <1>3, <1>b, <2>1, <2>2, <2>3 DEF FindGrant, TypeOK
  <2>4. CASE Goto(r, "expire") /\ UNCHANGED owed
    BY <1>0, <1>3, <2>1, <2>2, <2>4 DEF FindGrant, TypeOK
  <2> QED
    BY <1>3, <2>3, <2>4 DEF FindGrant
<1>4. CASE ExpireGrant(r)
  <2>1. found[r] \in Requests /\ approvals[found[r]] \in Approval
    BY <1>0, <1>4 DEF ExpireGrant, AtPosition, RowsFor, Rows, TypeOK
  <2>2. [approvals[found[r]] EXCEPT !.status = "expired"] \in Approval
    BY <2>1 DEF Approval
  <2>3. approvals' \in [Requests -> Approval \cup {Null}]
    BY <1>a, <1>4, <2>1, <2>2 DEF ExpireGrant
  <2> QED
    BY <1>0, <1>4, <1>b, <2>3 DEF ExpireGrant, TypeOK
<1>5. CASE EnsurePending(r) \/ EnsureAgain(r)
  BY <1>0, <1>5 DEF EnsurePending, EnsureAgain, TypeOK, EventTypes, NewApproval, Approval, Call
<1>6. CASE UseSecret(r)
  BY <1>0, <1>6 DEF UseSecret, TypeOK, EventTypes
<1>d. call[r] # Null /\ call[r].op \in Decisions =>
        call[r].id \in Requests /\ approvals[call[r].id] \in Approval
  BY <1>0 DEF AtPosition, Rows, TypeOK
<1>7. CASE Grant(r)
  <2>1. CASE UNCHANGED approvals /\ owed' = owed
    BY <1>0, <1>7, <2>1 DEF Grant, TypeOK
  <2>2. CASE MayDecide(r) /\ Decidable(call[r].id)
    <3>1. PICK t \in Ttls :
            approvals' = [approvals EXCEPT ![call[r].id].status = "granted",
                                           ![call[r].id].by = call[r].user,
                                           ![call[r].id].expires = now + t]
      BY <1>7, <2>2 DEF Grant
    <3>2. /\ call[r] \in Call /\ call[r].id \in Requests
          /\ approvals[call[r].id] \in Approval
      BY <1>0, <1>d, <1>7, NullAssumption DEF Grant, Decisions
    <3>3. now + t \in Nat
      BY <1>0, TtlAssumption, TimeAssumption DEF TypeOK
    <3>4. [approvals[call[r].id] EXCEPT !.status = "granted",
             !.by = call[r].user, !.expires = now + t] \in Approval
      BY <3>2, <3>3 DEF Approval, Call
    <3>5. approvals' = [approvals EXCEPT ![call[r].id] =
             [approvals[call[r].id] EXCEPT !.status = "granted",
                !.by = call[r].user, !.expires = now + t]]
      BY <1>0, <3>1, <3>2 DEF TypeOK
    <3>6. approvals' \in [Requests -> Approval \cup {Null}]
      BY <1>a, <3>2, <3>4, <3>5
    <3>7. owed' \in [Requests -> Event \cup {Null}]
      BY <1>0, <1>7, <2>2, <3>2 DEF Grant, TypeOK, EventTypes
    <3> QED
      BY <1>0, <1>7, <3>6, <3>7 DEF Grant, TypeOK
  <2> QED
    BY <1>7, <2>1, <2>2 DEF Grant
<1>8. CASE Deny(r)
  <2>1. CASE UNCHANGED approvals /\ owed' = owed
    BY <1>0, <1>8, <2>1 DEF Deny, TypeOK
  <2>2. CASE MayDecide(r) /\ Decidable(call[r].id)
    <3>2. /\ call[r] \in Call /\ call[r].id \in Requests
          /\ approvals[call[r].id] \in Approval
      BY <1>0, <1>d, <1>8, NullAssumption DEF Deny, Decisions
    <3>4. [approvals[call[r].id] EXCEPT !.status = "denied",
             !.by = call[r].user] \in Approval
      BY <3>2 DEF Approval, Call
    <3>5. approvals' = [approvals EXCEPT ![call[r].id] =
             [approvals[call[r].id] EXCEPT !.status = "denied",
                !.by = call[r].user]]
      BY <1>0, <1>8, <2>2, <3>2 DEF TypeOK, Deny
    <3>6. approvals' \in [Requests -> Approval \cup {Null}]
      BY <1>a, <3>2, <3>4, <3>5
    <3>7. owed' \in [Requests -> Event \cup {Null}]
      BY <1>0, <1>8, <2>2, <3>2 DEF Deny, TypeOK, EventTypes
    <3> QED
      BY <1>0, <1>8, <3>6, <3>7 DEF Deny, TypeOK
  <2> QED
    BY <1>8, <2>1, <2>2 DEF Deny
<1>9. CASE Audit(r)
  <2>1. AnswerAfter(owed[r].type) \in {"ok", "denied", "approval_required"}
    BY DEF AnswerAfter
  <2>2. owed[r] \in Event
    BY <1>0, <1>9 DEF Audit, OwedOK
  <2> QED
    BY <1>0, <1>9, <2>1, <2>2 DEF Audit, TypeOK
<1> QED
  BY <1>1, <1>2, <1>3, <1>4, <1>5, <1>6, <1>7, <1>8, <1>9 DEF Serve

\* Only row i changes, and not in what it is about.
Rewrites(i) ==
  /\ i \in Rows /\ approvals'[i] \in Approval
  /\ approvals'[i].alias = approvals[i].alias
  /\ approvals'[i].user = approvals[i].user
  /\ approvals'[i].created = approvals[i].created
  /\ \A j \in Requests \ {i} : approvals'[j] = approvals[j]

\* What a grant does to its row
LEMMA GrantRow ==
  ASSUME IInv, NEW r \in Requests, Grant(r), MayDecide(r), Decidable(call[r].id)
  PROVE  /\ Rewrites(call[r].id)
         /\ approvals[call[r].id].status = "pending"
         /\ approvals'[call[r].id].status = "granted"
         /\ approvals'[call[r].id].by # Null
         /\ approvals'[call[r].id].expires \in Nat
<1> DEFINE i == call[r].id
<1>1. PICK t \in Ttls :
        approvals' = [approvals EXCEPT ![call[r].id].status = "granted",
                                       ![call[r].id].by = call[r].user,
                                       ![call[r].id].expires = now + t]
  BY DEF Grant
<1>2. call[r] \in Call /\ i \in Rows /\ approvals[i] \in Approval
  <2>1. call[r] \in Call
    BY DEF IInv, Positions, AtPosition, Grant
  <2>2. i \in Rows
    BY <2>1, NullAssumption DEF IInv, Positions, AtPosition, Grant, Decisions
  <2> QED
    BY <2>1, <2>2 DEF IInv, TypeOK, Rows
<1>3. now + t \in Nat
  BY TtlAssumption DEF IInv, TypeOK
<1>4. \A j \in Requests : approvals'[j] =
        IF j = i THEN [approvals[i] EXCEPT !.status = "granted",
                         !.by = call[r].user, !.expires = now + t]
                 ELSE approvals[j]
  BY <1>1, <1>2 DEF IInv, TypeOK, Rows
<1>5. /\ approvals'[i].status = "granted" /\ approvals'[i].by = call[r].user
      /\ approvals'[i].expires = now + t
      /\ approvals'[i].alias = approvals[i].alias
      /\ approvals'[i].user = approvals[i].user
      /\ approvals'[i].created = approvals[i].created
      /\ approvals'[i] \in Approval
  BY <1>2, <1>3, <1>4 DEF Rows, Approval, Call
<1>6. call[r].user # Null
  BY <1>2, NullAssumption DEF Call
<1> QED
  BY <1>2, <1>3, <1>4, <1>5, <1>6 DEF Rewrites, Decidable

\* What a denial does to it
LEMMA DenyRow ==
  ASSUME IInv, NEW r \in Requests, Deny(r), MayDecide(r), Decidable(call[r].id)
  PROVE  /\ Rewrites(call[r].id)
         /\ approvals[call[r].id].status = "pending"
         /\ approvals'[call[r].id].status = "denied"
<1> DEFINE i == call[r].id
<1>2. call[r] \in Call /\ i \in Rows /\ approvals[i] \in Approval
  <2>1. call[r] \in Call
    BY DEF IInv, Positions, AtPosition, Deny
  <2>2. i \in Rows
    BY <2>1, NullAssumption DEF IInv, Positions, AtPosition, Deny, Decisions
  <2> QED
    BY <2>1, <2>2 DEF IInv, TypeOK, Rows
<1>4. \A j \in Requests : approvals'[j] =
        IF j = i THEN [approvals[i] EXCEPT !.status = "denied",
                                           !.by = call[r].user]
                 ELSE approvals[j]
  BY <1>2 DEF IInv, TypeOK, Rows, Deny
<1>5. /\ approvals'[i].status = "denied"
      /\ approvals'[i].alias = approvals[i].alias
      /\ approvals'[i].user = approvals[i].user
      /\ approvals'[i].created = approvals[i].created
      /\ approvals'[i] \in Approval
  BY <1>2, <1>4 DEF Rows, Approval, Call
<1> QED
  BY <1>2, <1>4, <1>5 DEF Rewrites, Decidable

\* What an expiry does to its row, which need not be granted any more
LEMMA ExpireRow ==
  ASSUME IInv, NEW r \in Requests, ExpireGrant(r)
  PROVE  /\ Rewrites(found[r])
         /\ approvals[found[r]].status \in {"granted", "expired"}
         /\ approvals'[found[r]].status = "expired"
         /\ approvals'[found[r]].by = approvals[found[r]].by
         /\ approvals'[found[r]].expires = approvals[found[r]].expires
<1> DEFINE i == found[r]
<1>1. /\ i \in Rows /\ approvals[i].status \in {"granted", "expired"}
      /\ approvals[i] \in Approval
  BY DEF IInv, TypeOK, Positions, AtPosition, ExpireGrant, RowsFor, Rows
<1>2. \A j \in Requests : approvals'[j] =
        IF j = i THEN [approvals[i] EXCEPT !.status = "expired"]
                 ELSE approvals[j]
  BY <1>1 DEF IInv, TypeOK, Rows, ExpireGrant
<1>3. /\ approvals'[i].status = "expired"
      /\ approvals'[i].by = approvals[i].by
      /\ approvals'[i].expires = approvals[i].expires
      /\ approvals'[i].alias = approvals[i].alias
      /\ approvals'[i].user = approvals[i].user
      /\ approvals'[i].created = approvals[i].created
      /\ approvals'[i] \in Approval
  BY <1>1, <1>2 DEF Rows, Approval
<1> QED
  BY <1>1, <1>2, <1>3 DEF Rewrites

\* No step takes a row away or changes what it is about, and none undoes a
\* decision: only a grant may still expire.
RowStep ==
  \A i \in Rows :
    /\ i \in Rows'
    /\ approvals'[i].alias = approvals[i].alias
    /\ approvals'[i].user = approvals[i].user
    /\ approvals'[i].created = approvals[i].created
    /\ approvals[i].status # "pending" =>
         /\ approvals'[i].by = approvals[i].by
         /\ approvals'[i].expires = approvals[i].expires
         /\ \/ approvals'[i].status = approvals[i].status
            \/ approvals[i].status = "granted" /\ approvals'[i].status = "expired"

\* Every step of a handler keeps to that.
LEMMA RowSteps ==
  ASSUME IInv, NEW r \in Requests, TableStep(r)
  PROVE  RowStep /\ RowsOK'
<1> USE NullAssumption DEF RowStep, Rows, RowsOK
<1>1. CASE UNCHANGED approvals
  BY <1>1 DEF IInv
<1>2. CASE Raises(r)
  <2>1. approvals[r] = Null
    BY <1>2 DEF Raises, IInv, Positions, AtPosition
  <2>2. /\ NewApproval(r) # Null
        /\ NewApproval(r).status = "pending"
    <3>1. NewApproval(r) \in Approval
      BY <1>2 DEF NewApproval, Approval, Call, IInv, TypeOK, Raises, Positions,
                  AtPosition
    <3> QED
      BY <3>1 DEF NewApproval
  <2> QED
    BY <1>2, <2>1, <2>2 DEF Raises, IInv, TypeOK
<1>3. CASE ExpireGrant(r)
  BY <1>3, ExpireRow DEF Rewrites, IInv
<1>4. CASE Grant(r) /\ MayDecide(r) /\ Decidable(call[r].id)
  BY <1>4, GrantRow DEF Rewrites, IInv
<1>5. CASE Deny(r) /\ MayDecide(r) /\ Decidable(call[r].id)
  BY <1>5, DenyRow DEF Rewrites, IInv
<1> QED
  BY <1>1, <1>2, <1>3, <1>4, <1>5 DEF TableStep

\* Rows come from the requests that raise them.
LEMMA OtherRows ==
  ASSUME IInv, NEW r \in Requests, TableStep(r), NEW q \in Requests \ {r}
  PROVE  approvals'[q] # Null <=> approvals[q] # Null
<1>1. CASE UNCHANGED approvals
  BY <1>1
<1>2. CASE Raises(r)
  BY <1>2 DEF Raises, IInv, TypeOK
<1>a. ASSUME NEW i \in Requests, Rewrites(i)
      PROVE  approvals'[q] # Null <=> approvals[q] # Null
  BY <1>a, NullAssumption DEF Rewrites, Rows
<1>b. \A i \in Rows : i \in Requests
  BY DEF Rows
<1>3. CASE ExpireGrant(r)
  BY <1>3, <1>a, <1>b, ExpireRow DEF Rewrites
<1>4. CASE Grant(r) /\ MayDecide(r) /\ Decidable(call[r].id)
  BY <1>4, <1>a, <1>b, GrantRow DEF Rewrites
<1>5. CASE Deny(r) /\ MayDecide(r) /\ Decidable(call[r].id)
  BY <1>5, <1>a, <1>b, DenyRow DEF Rewrites
<1> QED
  BY <1>1, <1>2, <1>3, <1>4, <1>5 DEF TableStep

\* A step of r leaves the others where they are.
LEMMA OthersPosition ==
  ASSUME IInv, NEW r \in Requests, Frame(r), RowStep, NEW q \in Requests \ {r},
         approvals'[q] # Null <=> approvals[q] # Null
  PROVE  AtPosition(q)' /\ OwedOK(q)'
<1>1. AtPosition(q) /\ OwedOK(q)
  BY DEF IInv, Positions
<1>2. /\ pc'[q] = pc[q] /\ call'[q] = call[q] /\ found'[q] = found[q]
      /\ owed'[q] = owed[q] /\ reply'[q] = reply[q]
      /\ q \in exposed' <=> q \in exposed
  BY DEF Frame
<1>3. \A i \in Rows : /\ i \in Rows'
                      /\ i \in RowsFor(q) => i \in RowsFor(q)'
                      /\ approvals[i].status \in {"granted", "expired"}
                           => approvals'[i].status \in {"granted", "expired"}
  BY <1>2 DEF RowStep, RowsFor
<1>4. AtPosition(q)'
  BY <1>1, <1>2, <1>3 DEF AtPosition, RowsFor
<1>5. OwedOK(q)'
  BY <1>1, <1>2 DEF OwedOK, DecisionEvent
<1> QED
  BY <1>4, <1>5

\* What the request itself has found and owes fits the position that it
\* reaches.
LEMMA OwnPosition ==
  ASSUME IInv, NEW r \in Requests, Serve(r), RowStep
  PROVE  AtPosition(r)' /\ OwedOK(r)'
<1> USE DEF Answer, Goto, Owe, world, local, table, Access, Decisions
<1>0. /\ TypeOK /\ AtPosition(r) /\ OwedOK(r)
      /\ \A type \in EventTypes, id \in Requests \cup {Null} :
           [type |-> type, request |-> r, id |-> id] \in Event
  BY DEF IInv, Positions, Event
<1>b. ASSUME NEW granted \in BOOLEAN, Decide(r, granted), call'[r] = call[r],
             call[r] \in Call, call[r].op \in Access,
             UNCHANGED approvals \/ ExpireGrant(r), r \notin exposed, UNCHANGED exposed,
             approvals[r] = Null, approvals'[r] = Null, pc[r] \in {"start", "expire"}
      PROVE  AtPosition(r)' /\ OwedOK(r)'
  BY <1>0, <1>b, DecideCases DEF TypeOK, EventTypes, AtPosition, OwedOK
<1>c. pc[r] \notin {"audit", "done"} => approvals[r] = Null /\ r \notin exposed
  BY <1>0 DEF AtPosition
<1>1. CASE Arrive(r)
  <2>1. call'[r] \in Call /\ (call'[r].op \in Decisions => call'[r].id \in Rows)
    <3>1. TypeOK'
      BY <1>1, ServeTypes DEF Serve
    <3>2. PICK u \in Users : \E x \in RolesOf(u) :
            \/ \E o \in Ops \cap Access, a \in Aliases :
                 call' = [call EXCEPT ![r] =
                   [op |-> o, user |-> u, role |-> x, alias |-> a, id |-> Null]]
            \/ \E o \in Ops \cap Decisions, i \in Rows :
                 call' = [call EXCEPT ![r] =
                   [op |-> o, user |-> u, role |-> x,
                    alias |-> approvals[i].alias, id |-> i]]
      BY <1>1 DEF Arrive
    <3>3. RolesOf(u) \subseteq Roles \cup {"admin"}
      BY DEF RolesOf
    <3>4. \A i \in Rows : i \in Requests /\ approvals[i].alias \in Aliases
      BY <1>0 DEF Rows, TypeOK, Approval
    <3> QED
      BY <1>0, <3>2, <3>3, <3>4 DEF TypeOK, Call
  <2> QED
    BY <1>0, <1>1, <1>c, <2>1 DEF Arrive, AtPosition, OwedOK, TypeOK, Rows
<1>2. CASE RefuseTest(r) \/ RereadPending(r)
  BY <1>0, <1>2 DEF RefuseTest, RereadPending, AtPosition, OwedOK, TypeOK, Rows
<1>3. CASE FindGrant(r)
  <2>1. /\ pc[r] = "start" /\ call[r] \in Call /\ call[r].op \in Access
        /\ call'[r] = call[r] /\ UNCHANGED <<approvals, exposed>>
    BY <1>0, <1>3 DEF FindGrant, AtPosition
  <2>2. CASE \E granted \in BOOLEAN : Decide(r, granted)
    BY <1>b, <1>c, <2>1, <2>2
  <2>3. CASE \E i \in Granted(r) : found'[r] = i /\ Goto(r, "expire")
    BY <1>0, <1>c, <2>1, <2>3
       DEF AtPosition, OwedOK, TypeOK, Rows, RowsFor, Granted
  <2> QED
    BY <1>0, <1>3, <2>2, <2>3 DEF FindGrant, TypeOK
<1>4. CASE ExpireGrant(r)
  <2>1. /\ pc[r] = "expire" /\ call[r] \in Call /\ call[r].op \in Access
        /\ call'[r] = call[r] /\ UNCHANGED exposed /\ Decide(r, FALSE)
    BY <1>0, <1>4 DEF ExpireGrant, AtPosition
  <2>2. found[r] \in Rows /\ approvals[r] = Null
    BY <1>c, <2>1, <1>4, ExpireRow DEF Rewrites
  <2>3. approvals'[r] = Null
    BY <1>4, <2>2, ExpireRow DEF Rewrites, Rows
  <2> QED
    BY <1>4, <1>b, <1>c, <2>1, <2>2, <2>3
<1>5. CASE EnsurePending(r) \/ EnsureAgain(r)
  <2>1. /\ pc[r] \in {"ensure", "again"} /\ call[r] \in Call
        /\ call[r].op \in Access /\ call'[r] = call[r] /\ UNCHANGED exposed
    BY <1>0, <1>5 DEF EnsurePending, EnsureAgain, AtPosition
  <2>2. CASE Conflict(r)
    <3>1. /\ \/ pc'[r] = "reread" /\ reply'[r] = reply[r]
             \/ pc'[r] = "done" /\ reply'[r] = "internal_error"
          /\ UNCHANGED <<approvals, owed>>
      BY <1>0, <1>5, <2>1, <2>2 DEF EnsurePending, EnsureAgain, TypeOK
    <3> QED
      BY <1>0, <1>c, <2>1, <3>1 DEF AtPosition, OwedOK
  <2>3. CASE Raises(r)
    BY <1>0, <1>c, <2>1, <2>3 DEF Raises, AtPosition, OwedOK, TypeOK, EventTypes
  <2> QED
    BY <1>5, <2>2, <2>3 DEF EnsurePending, EnsureAgain, Raises
<1>6. CASE UseSecret(r)
  BY <1>0, <1>c, <1>6 DEF UseSecret, AtPosition, OwedOK, TypeOK, EventTypes
<1>d. ASSUME pc[r] = "start", call[r].op \in Decisions,
             call'[r] = call[r], UNCHANGED exposed
      PROVE  /\ approvals[r] = Null /\ r \notin exposed /\ call[r] \in Call
             /\ call[r].id \in Rows /\ call[r].id \in Rows'
             /\ (approvals'[r] = Null /\ \E c \in {"denied", "not_found"} : Answer(r, c))
                   => AtPosition(r)' /\ OwedOK(r)'
             /\ (/\ approvals'[r] = Null
                 /\ Owe(r, IF call[r].op = "grant" THEN "approval.granted"
                           ELSE "approval.denied", call[r].id))
                   => AtPosition(r)' /\ OwedOK(r)'
  <2>1. /\ approvals[r] = Null /\ r \notin exposed /\ call[r] \in Call
        /\ call[r].id \in Rows /\ call[r].id \in Rows'
        /\ call[r] # Null
    BY <1>0, <1>c, <1>d, NullAssumption DEF AtPosition, RowStep
  <2>2. ASSUME approvals'[r] = Null, NEW c \in {"denied", "not_found"}, Answer(r, c)
        PROVE  AtPosition(r)' /\ OwedOK(r)'
    BY <1>0, <1>d, <2>1, <2>2 DEF AtPosition, OwedOK, TypeOK
  <2>3. ASSUME approvals'[r] = Null,
               Owe(r, IF call[r].op = "grant" THEN "approval.granted"
                      ELSE "approval.denied", call[r].id)
        PROVE  AtPosition(r)' /\ OwedOK(r)'
    BY <1>0, <1>d, <2>1, <2>3
       DEF AtPosition, OwedOK, TypeOK, DecisionEvent, EventTypes, Rows
  <2> QED
    BY <2>1, <2>2, <2>3
<1>7. CASE Grant(r)
  <2>1. /\ pc[r] = "start" /\ call[r].op = "grant"
        /\ call'[r] = call[r] /\ UNCHANGED exposed
    BY <1>7 DEF Grant
  <2>2. approvals'[r] = Null
    <3>1. CASE MayDecide(r) /\ Decidable(call[r].id)
      BY <1>d, <1>7, <2>1, <3>1, GrantRow DEF Rewrites, Rows
    <3> QED
      BY <1>d, <1>7, <2>1, <3>1 DEF Grant
  <2> QED
    BY <1>d, <1>7, <2>1, <2>2 DEF Grant
<1>8. CASE Deny(r)
  <2>1. /\ pc[r] = "start" /\ call[r].op = "deny"
        /\ call'[r] = call[r] /\ UNCHANGED exposed
    BY <1>8 DEF Deny
  <2>2. approvals'[r] = Null
    <3>1. CASE MayDecide(r) /\ Decidable(call[r].id)
      BY <1>d, <1>8, <2>1, <3>1, DenyRow DEF Rewrites, Rows
    <3> QED
      BY <1>d, <1>8, <2>1, <3>1 DEF Deny
  <2> QED
    BY <1>d, <1>8, <2>1, <2>2 DEF Deny
<1>9. CASE Audit(r)
  <2>1. /\ owed[r].type = "secret.read.allowed" => call[r].op \notin Decisions
        /\ AnswerAfter(owed[r].type) \in {"ok", "denied", "approval_required"}
    BY <1>0, <1>9 DEF Audit, OwedOK, DecisionEvent, AnswerAfter
  <2>2. /\ pc'[r] = "done" /\ reply'[r] # "none" /\ call'[r] = call[r]
        /\ UNCHANGED approvals /\ pc[r] = "audit"
    BY <1>0, <1>9, <2>1 DEF Audit, TypeOK
  <2>3. r \in exposed' => r \in exposed \/ call[r].op \notin Decisions
    BY <1>9, <2>1 DEF Audit
  <2>4. call[r] \in Call /\ (call[r].op \in Decisions => r \notin exposed)
    BY <1>0, <2>2 DEF AtPosition
  <2>5. call[r].op \in Access \cup Decisions
    BY <2>4 DEF Call
  <2> QED
    BY <1>0, <2>2, <2>3, <2>4, <2>5 DEF AtPosition, OwedOK, Rows
<1> QED
  BY <1>1, <1>2, <1>3, <1>4, <1>5, <1>6, <1>7, <1>8, <1>9 DEF Serve

\* Nothing takes a right away for which a value has been fetched.
LEMMA RightStands ==
  ASSUME IInv, RowStep, NEW q \in Requests, HasRight(q),
         call'[q] = call[q], looked'[q] = looked[q]
  PROVE  HasRight(q)'
<1>1. ASSUME CoveredByGrant(q) PROVE CoveredByGrant(q)'
  <2>1. PICK i \in RowsFor(q) : /\ approvals[i].by # Null
                                /\ approvals[i].status \in {"granted", "expired"}
                                /\ looked[q] < approvals[i].expires
    BY <1>1 DEF CoveredByGrant
  <2>2. i \in RowsFor(q)'
    BY <2>1 DEF RowsFor, RowStep
  <2>3. /\ approvals'[i].by = approvals[i].by
        /\ approvals'[i].expires = approvals[i].expires
        /\ approvals'[i].status \in {"granted", "expired"}
    BY <2>1 DEF RowsFor, RowStep
  <2> QED
    BY <2>1, <2>2, <2>3 DEF CoveredByGrant
<1> QED
  BY <1>1 DEF HasRight

\* A request reaches the value with the right to it: the decision to go on is
\* made with a grant that was running when it was looked for.
LEMMA OwnRight ==
  ASSUME IInv, NEW r \in Requests, Serve(r), RowStep,
         \/ r \in exposed'
         \/ pc'[r] = "secret"
         \/ pc'[r] = "audit" /\ owed'[r].type = "secret.read.allowed"
  PROVE  HasRight(r)'
<1> USE DEF Answer, Goto, Owe, world, local, table
<1>0. TypeOK /\ AtPosition(r) /\ OwedOK(r)
  BY DEF IInv, Positions
<1>1. CASE HasRight(r) /\ call'[r] = call[r] /\ looked'[r] = looked[r]
  BY <1>1, RightStands
<1>2. ASSUME NEW granted \in BOOLEAN, Decide(r, granted), pc[r] \in {"start", "expire"},
             UNCHANGED exposed
      PROVE  Authorize(r, granted) = "allow"
  BY <1>0, <1>2, DecideCases DEF TypeOK, AtPosition
<1>3. CASE FindGrant(r)
  <2>1. /\ call'[r] = call[r] /\ UNCHANGED <<approvals, exposed>>
        /\ pc[r] = "start" /\ looked'[r] = now
    BY <1>0, <1>3 DEF FindGrant, TypeOK
  <2>2. ASSUME Authorize(r, FALSE) = "allow" PROVE HasRight(r)'
    BY <2>1, <2>2 DEF Authorize, HasRight
  <2>3. ASSUME NEW i \in Granted(r), ~Expired(i), Authorize(r, TRUE) = "allow"
        PROVE  HasRight(r)'
    <3>1. i \in RowsFor(r) /\ approvals[i].status = "granted"
      BY DEF Granted
    <3>2. approvals[i].by # Null /\ approvals[i].expires \in Nat
      BY <3>1 DEF IInv, RowsOK, RowsFor
    <3>3. now < approvals[i].expires
      BY <1>0, <2>3, <3>2, TimeAssumption DEF Expired, TypeOK
    <3>4. i \in RowsFor(r)'
      BY <2>1, <3>1 DEF RowsFor, Rows
    <3>5. CoveredByGrant(r)'
      BY <2>1, <3>1, <3>2, <3>3, <3>4 DEF CoveredByGrant
    <3> QED
      BY <2>1, <2>3, <3>5 DEF Authorize, HasRight
  <2>4. ~(\E i \in Granted(r) : Goto(r, "expire"))
    BY <1>0, <2>1 DEF TypeOK, AtPosition
  <2>5. \/ Decide(r, FALSE)
        \/ \E i \in Granted(r) : ~Expired(i) /\ Decide(r, TRUE)
    BY <1>3, <2>4 DEF FindGrant
  <2> QED
    BY <1>2, <2>1, <2>2, <2>3, <2>5
<1>4. CASE ExpireGrant(r)
  <2>1. call'[r] = call[r] /\ UNCHANGED exposed /\ pc[r] = "expire"
    BY <1>4 DEF ExpireGrant
  <2>2. Authorize(r, FALSE) = "allow"
    BY <1>2, <1>4, <2>1 DEF ExpireGrant
  <2> QED
    BY <2>1, <2>2 DEF Authorize, HasRight
<1>5. CASE UseSecret(r)
  BY <1>1, <1>5 DEF UseSecret, IInv, Rightful
<1>6. CASE Audit(r)
  BY <1>0, <1>1, <1>6 DEF Audit, IInv, Rightful, TypeOK
<1>7. CASE Arrive(r) \/ RefuseTest(r) \/ RereadPending(r)
  BY <1>0, <1>7 DEF Arrive, RefuseTest, RereadPending, TypeOK, AtPosition
<1>8. CASE EnsurePending(r) \/ EnsureAgain(r)
  BY <1>0, <1>8 DEF EnsurePending, EnsureAgain, TypeOK, AtPosition
<1>9. CASE Grant(r)
  BY <1>0, <1>9 DEF Grant, TypeOK, AtPosition
<1>10. CASE Deny(r)
  BY <1>0, <1>10 DEF Deny, TypeOK, AtPosition
<1> QED
  BY <1>3, <1>4, <1>5, <1>6, <1>7, <1>8, <1>9, <1>10 DEF Serve

\* A request decides by finding its row pending, or has decided already.
LEMMA DecidingSteps ==
  ASSUME IInv, NEW r \in Requests, Serve(r), Deciding(r)'
  PROVE  /\ call'[r] = call[r]
         /\ \/ Audit(r) /\ Deciding(r)
            \/ Grant(r) /\ MayDecide(r) /\ Decidable(call[r].id)
            \/ Deny(r) /\ MayDecide(r) /\ Decidable(call[r].id)
<1> USE DEF Answer, Goto, Owe, world, local, table, Access, Decisions, Deciding
<1>0. TypeOK /\ AtPosition(r) /\ OwedOK(r)
  BY DEF IInv, Positions
<1>1. CASE Arrive(r)
  BY <1>0, <1>1 DEF Arrive, TypeOK, AtPosition
<1>2. CASE RefuseTest(r)
  BY <1>0, <1>2 DEF RefuseTest, TypeOK
<1>3. CASE FindGrant(r)
  BY <1>3 DEF FindGrant
<1>4. CASE ExpireGrant(r) \/ EnsurePending(r) \/ RereadPending(r) \/ EnsureAgain(r)
           \/ UseSecret(r)
  BY <1>0, <1>4 DEF ExpireGrant, EnsurePending, RereadPending, EnsureAgain, UseSecret,
                    AtPosition
<1>5. CASE Grant(r)
  BY <1>0, <1>5 DEF Grant, TypeOK, AtPosition
<1>6. CASE Deny(r)
  BY <1>0, <1>6 DEF Deny, TypeOK, AtPosition
<1>7. CASE Audit(r)
  BY <1>7 DEF Audit
<1> QED
  BY <1>1, <1>2, <1>3, <1>4, <1>5, <1>6, <1>7 DEF Serve

\* A decided row is not pending, so nobody else decides it.
LEMMA OneDeciderSteps ==
  ASSUME IInv, NEW r \in Requests, Serve(r), RowStep, Frame(r)
  PROVE  OneDecider'
<1> USE DEF Deciding
<1>1. ASSUME NEW q \in Requests, Deciding(q)
      PROVE  /\ call[q].id \in Rows
             /\ approvals[call[q].id].status # "pending"
             /\ IF call[q].op = "grant"
                THEN approvals'[call[q].id].status \in {"granted", "expired"}
                ELSE approvals'[call[q].id].status = "denied"
  <2>1. AtPosition(q) /\ call[q] # Null
    <3>1. AtPosition(q) /\ pc[q] # "idle"
      BY <1>1 DEF IInv, Positions, AtPosition
    <3> QED
      BY <3>1, NullAssumption DEF AtPosition
  <2>2. call[q].id \in Rows
    BY <1>1, <2>1 DEF AtPosition
  <2> QED
    BY <1>1, <2>2 DEF IInv, OneDecider, RowStep
<1>2. ASSUME NEW q \in Requests \ {r}, Deciding(q)'
      PROVE  Deciding(q) /\ call'[q] = call[q]
  BY <1>2 DEF Frame
<1>3. CASE ~Deciding(r)'
  BY <1>1, <1>2, <1>3 DEF OneDecider, IInv
<1>4. CASE Deciding(r) /\ call'[r] = call[r]
  BY <1>1, <1>2, <1>4 DEF OneDecider, IInv
<1>5. ASSUME /\ call'[r] = call[r] /\ Decidable(call[r].id)
             /\ IF call[r].op = "grant"
                THEN approvals'[call[r].id].status \in {"granted", "expired"}
                ELSE approvals'[call[r].id].status = "denied"
      PROVE  OneDecider'
  <2>1. ASSUME NEW q \in Requests \ {r}, Deciding(q) PROVE call[q].id # call[r].id
    BY <1>1, <1>5, <2>1 DEF Decidable
  <2> QED
    BY <1>1, <1>2, <1>5, <2>1 DEF OneDecider, IInv
<1>6. CASE Deciding(r)'
  BY <1>4, <1>5, <1>6, DecidingSteps, GrantRow, DenyRow DEF Grant, Deny
<1> QED
  BY <1>3, <1>6

\* A row is raised where none is pending, and none becomes pending again.
LEMMA OnePendingSteps ==
  ASSUME IInv, NEW r \in Requests, TableStep(r), RowStep
  PROVE  OnePending'
<1>0. TypeOK /\ OnePending /\ AtPosition(r)
  BY DEF IInv, Positions
<1>1. CASE UNCHANGED approvals
  BY <1>0, <1>1 DEF OnePending, Rows
<1>2. CASE Raises(r)
  <2>1. \A i \in Rows' \ {r} : i \in Rows /\ approvals'[i] = approvals[i]
    BY <1>0, <1>2 DEF Raises, TypeOK, Rows
  <2>2. /\ approvals'[r].alias = call[r].alias /\ approvals'[r].user = call[r].user
    BY <1>0, <1>2 DEF Raises, TypeOK, NewApproval
  <2>3. \A i \in Rows' \ {r} :
          approvals'[i].status = "pending" =>
            ~(approvals'[i].alias = call[r].alias /\ approvals'[i].user = call[r].user)
    BY <1>2, <2>1 DEF Raises, Conflict, Pending, RowsFor
  <2> QED
    BY <1>0, <2>1, <2>2, <2>3 DEF OnePending
<1>3. ASSUME NEW i, Rewrites(i), approvals'[i].status # "pending"
      PROVE  OnePending'
  <2>1. \A j \in Rows' \ {i} : j \in Rows /\ approvals'[j] = approvals[j]
    BY <1>3 DEF Rewrites, Rows
  <2> QED
    BY <1>0, <1>3, <2>1 DEF OnePending
<1>4. CASE ExpireGrant(r)
  BY <1>3, <1>4, ExpireRow
<1>5. CASE Grant(r) /\ MayDecide(r) /\ Decidable(call[r].id)
  BY <1>3, <1>5, GrantRow
<1>6. CASE Deny(r) /\ MayDecide(r) /\ Decidable(call[r].id)
  BY <1>3, <1>6, DenyRow
<1> QED
  BY <1>1, <1>2, <1>4, <1>5, <1>6 DEF TableStep

\* A request that is served has not been answered, and one that waits for its
\* event appends it.
LEMMA Served ==
  ASSUME IInv, NEW r \in Requests, Serve(r)
  PROVE  /\ reply[r] = "none"
         /\ pc[r] = "audit" => /\ Audit(r) /\ call'[r] = call[r]
                               /\ audit' = audit \cup {owed[r]}
         /\ audit \subseteq audit'
<1> USE DEF table, world, local
<1>1. pc[r] # "done"
  BY DEF Serve, Arrive, RefuseTest, FindGrant, ExpireGrant, EnsurePending,
         RereadPending, EnsureAgain, UseSecret, Grant, Deny, Audit
<1>2. pc[r] = "audit" => Audit(r)
  BY DEF Serve, Arrive, RefuseTest, FindGrant, ExpireGrant, EnsurePending,
         RereadPending, EnsureAgain, UseSecret, Grant, Deny
<1>3. Audit(r) => call' = call /\ audit' = audit \cup {owed[r]}
  BY DEF Audit
<1>4. audit \subseteq audit'
  BY DEF Serve, Arrive, RefuseTest, FindGrant, ExpireGrant, EnsurePending,
         RereadPending, EnsureAgain, UseSecret, Grant, Deny, Audit
<1> QED
  BY <1>1, <1>2, <1>3, <1>4 DEF IInv, Positions, AtPosition

\* Whoever has exposed a value waits for its event or has appended it.
LEMMA AccessSteps ==
  ASSUME IInv, NEW r \in Requests, Serve(r), Frame(r)
  PROVE  AccessRecorded'
<1> USE DEF AccessRecorded, IInv
<1>0. AtPosition(r) /\ OwedOK(r) /\ TypeOK
  BY DEF Positions
<1>1. ASSUME NEW q \in exposed, q # r
      PROVE  \/ \E e \in audit' : e.request = q
             \/ call'[q].op = "test" /\ (pc'[q] = "audit" \/ reply'[q] = "lost")
  BY <1>0, <1>1, Served DEF Frame, TypeOK
<1>2. CASE pc[r] = "audit"
  <2>1. \E e \in audit' : e.request = r
    BY <1>0, <1>2, Served DEF OwedOK
  <2> QED
    BY <1>0, <1>1, <2>1, <1>2, Served DEF Audit
<1>3. CASE UNCHANGED exposed /\ pc[r] # "audit"
  <2>1. r \notin exposed
    BY <1>0, <1>3, Served DEF AtPosition
  <2> QED
    BY <1>1, <1>3, <2>1
<1>4. CASE UseSecret(r)
  <2>1. r \in exposed' => call'[r].op = "test" /\ pc'[r] = "audit"
    BY <1>0, <1>4 DEF UseSecret, AtPosition, TypeOK, Owe, Goto
  <2> QED
    BY <1>1, <1>4, <2>1 DEF UseSecret
<1> QED
  BY <1>2, <1>3, <1>4
     DEF Serve, Arrive, RefuseTest, FindGrant, ExpireGrant, EnsurePending,
         RereadPending, EnsureAgain, Grant, Deny, Audit, table, world, local

\* Whoever changes a row waits for its event, and appends it when served next.
LEMMA ToldSteps ==
  ASSUME IInv, NEW r \in Requests, Serve(r), RowStep, Frame(r), TableStep(r)
  PROVE  Told'
<1> DEFINE RequestTold(i) == \/ \E e \in audit : e.type = "approval.requested" /\ e.id = i
                             \/ pc[i] = "audit" \/ reply[i] = "lost"
           ByEvent(i) == \E e \in audit :
                           /\ e.id = i
                           /\ e.type \in {"approval.granted", "approval.denied"}
                           /\ e.type = "approval.denied" <=> approvals[i].status = "denied"
           ByRequest(i, q) == /\ call[q] # Null /\ call[q].id = i
                              /\ call[q].op \in Decisions
                              /\ pc[q] = "audit" \/ reply[q] = "lost"
<1>0. AtPosition(r) /\ OwedOK(r) /\ TypeOK
  BY DEF IInv, Positions
<1>1. ASSUME NEW i \in Rows PROVE RequestTold(i)'
  <2>1. RequestTold(i)
    BY DEF IInv, Told
  <2>2. i \in Requests /\ approvals[i] # Null
    BY DEF Rows
  <2>3. CASE i = r /\ pc[r] = "audit"
    <3>1. owed[r].type = "approval.requested" /\ owed[r].id = i
      BY <1>0, <2>2, <2>3 DEF OwedOK
    <3> QED
      BY <2>3, <3>1, Served
  <2>4. CASE i = r /\ pc[r] # "audit"
    BY <2>1, <2>4, Served
  <2>5. CASE i # r
    BY <2>1, <2>2, <2>5, Served DEF Frame
  <2> QED
    BY <2>3, <2>4, <2>5
<1>2. ASSUME NEW i \in Rows, approvals'[i].status # "pending"
      PROVE  ByEvent(i)' \/ \E q \in Requests : ByRequest(i, q)'
  <2>1. CASE approvals[i].status = "pending"
    <3>1. CASE /\ Grant(r) \/ Deny(r)
               /\ MayDecide(r) /\ Decidable(call[r].id) /\ call[r].id = i
      <4>1. /\ pc'[r] = "audit" /\ call'[r] = call[r] /\ call[r].op \in Decisions
            /\ call[r] \in Call
        BY <1>0, <3>1 DEF Grant, Deny, Owe, Goto, TypeOK, AtPosition, Decisions
      <4> QED
        BY <3>1, <4>1, NullAssumption
    <3>2. ~(UNCHANGED approvals)
      BY <1>2, <2>1
    <3>3. ~Raises(r)
      BY <1>0, <1>2, <2>1 DEF Raises, AtPosition, Rows, TypeOK
    <3>4. ExpireGrant(r) => FALSE
      BY <1>2, <2>1, ExpireRow DEF Rewrites, Rows
    <3>5. Grant(r) /\ MayDecide(r) /\ Decidable(call[r].id) => call[r].id = i
      BY <1>2, <2>1, GrantRow DEF Rewrites, Rows
    <3>6. Deny(r) /\ MayDecide(r) /\ Decidable(call[r].id) => call[r].id = i
      BY <1>2, <2>1, DenyRow DEF Rewrites, Rows
    <3> QED
      BY <3>1, <3>2, <3>3, <3>4, <3>5, <3>6 DEF TableStep
  <2>2. CASE approvals[i].status # "pending"
    <3>1. ByEvent(i) \/ \E q \in Requests : ByRequest(i, q)
      BY <2>2 DEF IInv, Told
    <3>2. approvals'[i].status = "denied" <=> approvals[i].status = "denied"
      BY <2>2 DEF RowStep
    <3>3. CASE ByEvent(i)
      BY <3>2, <3>3, Served
    <3>4. ASSUME NEW q \in Requests \ {r}, ByRequest(i, q) PROVE ByRequest(i, q)'
      BY <3>4 DEF Frame
    <3>5. CASE ByRequest(i, r)
      <4>1. pc[r] = "audit" /\ audit' = audit \cup {owed[r]}
        BY <3>5, Served
      <4>2. owed[r] = DecisionEvent(r) /\ Deciding(r)
        BY <1>0, <3>5, <4>1 DEF OwedOK, Deciding
      <4>3. call[r].op = "grant" <=> approvals[i].status # "denied"
        BY <3>5, <4>2 DEF IInv, OneDecider
      <4> QED
        BY <3>2, <3>5, <4>1, <4>2, <4>3 DEF DecisionEvent
    <3> QED
      BY <3>1, <3>3, <3>4, <3>5
  <2> QED
    BY <2>1, <2>2
<1>3. ASSUME NEW i \in Rows', i \notin Rows
      PROVE  RequestTold(i)' /\ approvals'[i].status = "pending"
  <2>1. i = r /\ Raises(r)
    <3>1. i \in Requests /\ approvals[i] = Null /\ approvals'[i] # Null
      BY <1>3 DEF Rows
    <3>2. i = r
      BY <3>1, OtherRows
    <3>3. Rewrites(r) => FALSE
      BY <3>1, <3>2 DEF Rewrites, Rows
    <3>4. \A j \in Rows : Rewrites(j) => FALSE
      BY <3>1, <1>3 DEF Rewrites
    <3> QED
      BY <3>1, <3>2, <3>4, ExpireRow, GrantRow, DenyRow DEF TableStep, Rewrites
  <2> QED
    BY <1>0, <2>1 DEF Raises, TypeOK, NewApproval, Owe, Goto
<1> QED
  BY <1>1, <1>2, <1>3 DEF Told

----------------------------------------------------------------------------
(* The invariant *)

\* The invariant holds of the empty table.
LEMMA InitKeeps == Init => IInv
<1> SUFFICES ASSUME Init PROVE IInv
  OBVIOUS
<1> USE DEF Init
<1>1. Rows = {}
  BY DEF Rows
<1>2. TypeOK
  BY TimeAssumption DEF TypeOK
<1>3. RowsOK /\ OnePending /\ Told
  BY <1>1 DEF RowsOK, OnePending, Told
<1>4. Positions
  BY DEF Positions, AtPosition, OwedOK
<1>5. Rightful /\ OneDecider /\ AccessRecorded
  BY DEF Rightful, OneDecider, Deciding, AccessRecorded
<1> QED
  BY <1>2, <1>3, <1>4, <1>5 DEF IInv

\* Every step of a handler keeps it,
LEMMA ServeKeeps ==
  ASSUME IInv, NEW r \in Requests, Serve(r) PROVE IInv' /\ RowStep
<1>1. TypeOK' /\ TableStep(r) /\ Frame(r)
  BY ServeTypes, TableSteps, ServeFrame DEF IInv
<1>2. RowStep /\ RowsOK'
  BY <1>1, RowSteps
<1>3. Positions'
  BY <1>1, <1>2, OwnPosition, OthersPosition, OtherRows DEF Positions
<1>4. Rightful'
  <2> SUFFICES ASSUME NEW q \in Requests,
                      \/ q \in exposed'
                      \/ pc'[q] = "secret"
                      \/ pc'[q] = "audit" /\ owed'[q].type = "secret.read.allowed"
               PROVE  HasRight(q)'
    BY DEF Rightful
  <2>1. CASE q = r
    BY <1>2, <2>1, OwnRight
  <2>2. CASE q # r
    <3>1. HasRight(q) /\ call'[q] = call[q] /\ looked'[q] = looked[q]
      BY <1>1, <2>2 DEF Frame, IInv, Rightful
    <3> QED
      BY <1>2, <3>1, RightStands
  <2> QED
    BY <2>1, <2>2
<1>5. OneDecider' /\ OnePending' /\ Told' /\ AccessRecorded'
  BY <1>1, <1>2, OneDeciderSteps, OnePendingSteps, ToldSteps, AccessSteps
<1> QED
  BY <1>1, <1>2, <1>3, <1>4, <1>5 DEF IInv

\* and so do the clock,
LEMMA TickKeeps == IInv /\ Tick => IInv' /\ RowStep
<1> SUFFICES ASSUME IInv, Tick PROVE IInv' /\ RowStep
  OBVIOUS
<1> USE DEF Tick, IInv, table, local
<1>1. TypeOK'
  <2>1. now' \in 0..MaxTime
    BY TimeAssumption DEF TypeOK
  <2> QED
    BY <2>1 DEF TypeOK
<1>2. RowsOK' /\ OnePending' /\ Told' /\ RowStep
  BY DEF RowsOK, OnePending, Told, Rows, RowStep
<1>3. Positions'
  BY DEF Positions, AtPosition, OwedOK, DecisionEvent, Rows, RowsFor
<1>4. Rightful' /\ OneDecider' /\ AccessRecorded'
  BY DEF Rightful, HasRight, CoveredByGrant, RowsFor, Rows, OneDecider, Deciding,
         AccessRecorded
<1> QED
  BY <1>1, <1>2, <1>3, <1>4

\* a crash, after which nobody waits,
LEMMA RestartKeeps == IInv /\ Restart => IInv' /\ RowStep
<1> SUFFICES ASSUME IInv, Restart PROVE IInv' /\ RowStep
  OBVIOUS
<1> USE DEF Restart, IInv, table, local
<1>0. \A q \in Requests :
        /\ pc'[q] = IF pc[q] = "idle" THEN "idle" ELSE "done"
        /\ reply'[q] = IF pc[q] \in {"idle", "done"} THEN reply[q] ELSE "lost"
  OBVIOUS
<1>1. TypeOK'
  <2>1. restarts' \in 0..MaxRestarts
    BY TimeAssumption DEF TypeOK
  <2> QED
    BY <2>1 DEF TypeOK
<1>2. RowsOK' /\ OnePending' /\ RowStep
  BY DEF RowsOK, OnePending, Rows, RowStep
<1>3. Told'
  BY <1>0 DEF Told, Rows
<1>4. Positions'
  <2> SUFFICES ASSUME NEW q \in Requests PROVE AtPosition(q)' /\ OwedOK(q)'
    BY DEF Positions
  <2>1. AtPosition(q)
    BY DEF Positions
  <2>2. AtPosition(q)'
    <3>1. /\ call'[q] = call[q] /\ approvals' = approvals /\ exposed' = exposed
          /\ Rows' = Rows
      BY DEF Rows
    <3>2. reply'[q] = "none" <=> pc'[q] # "done"
      BY <1>0, <2>1 DEF AtPosition
    <3> HIDE DEF Restart, IInv, table, local
    <3>3. pc'[q] \in {"idle", "done"} /\ (pc'[q] = "idle" <=> pc[q] = "idle")
      BY <1>0
    <3> QED
      BY <2>1, <3>1, <3>2, <3>3 DEF AtPosition
  <2>3. OwedOK(q)'
    BY <1>0 DEF OwedOK
  <2> QED
    BY <2>2, <2>3
<1>5. Rightful'
  <2>1. ASSUME NEW q \in Requests PROVE HasRight(q)' <=> HasRight(q)
    BY DEF HasRight, CoveredByGrant, RowsFor, Rows
  <2>2. ASSUME NEW q \in Requests PROVE pc'[q] \notin {"secret", "audit"}
    BY <1>0
  <2> QED
    BY <2>1, <2>2 DEF Rightful
<1>6. AccessRecorded'
  <2>1. exposed' = exposed /\ audit' = audit /\ call' = call
    OBVIOUS
  <2>2. \A q \in exposed : pc[q] = "audit" \/ reply[q] = "lost" => reply'[q] = "lost"
    BY <1>0 DEF TypeOK
  <2> QED
    BY <2>1, <2>2 DEF AccessRecorded
<1>7. OneDecider'
  <2>1. ASSUME NEW q \in Requests, Deciding(q)' PROVE Deciding(q)
    BY <1>0, <2>1 DEF Deciding
  <2> QED
    BY <2>1 DEF OneDecider
<1> QED
  BY <1>1, <1>2, <1>3, <1>4, <1>5, <1>6, <1>7

\* and a step of something else.
LEMMA StutterKeeps == IInv /\ UNCHANGED vars => IInv' /\ RowStep
BY DEF IInv, vars, TypeOK, RowsOK, Positions, AtPosition, OwedOK, DecisionEvent, Rightful,
       HasRight, CoveredByGrant, RowsFor, Rows, OneDecider, Deciding, OnePending, Told,
       AccessRecorded, RowStep

\* No step breaks the invariant or undoes a decision.
LEMMA NextKeeps == IInv /\ [Next]_vars => IInv' /\ RowStep
BY ServeKeeps, TickKeeps, RestartKeeps, StutterKeeps DEF Next

\* The invariant is one.
THEOREM Invariance == Spec => []IInv
<1>1. Init => IInv
  BY InitKeeps
<1>2. IInv /\ [Next]_vars => IInv'
  BY NextKeeps
<1> QED
  BY <1>1, <1>2, PTL DEF Spec

----------------------------------------------------------------------------
(* What Approvals promises *)

\* Every variable of Approvals has its type.
THEOREM TypeCorrect == Spec => []TypeOK
BY Invariance, PTL DEF IInv

\* A value leaves the server only for who may have it (the read and test
\* handlers of routes/secrets.ts).
THEOREM ExposureIsRightful == Spec => []ExposedOnlyWithRight
<1>1. IInv => ExposedOnlyWithRight
  BY DEF IInv, Rightful, HasRight, ExposedOnlyWithRight, TypeOK
<1> QED
  BY <1>1, Invariance, PTL

\* Every value that has left is in the audit log, or a test's handler was still
\* to log it when the server died.
THEOREM AccessesAreRecorded == Spec => []AccessRecorded
<1>1. IInv => AccessRecorded
  BY DEF IInv
<1> QED
  BY <1>1, Invariance, PTL

\* The audit log tells of every approval (appendAudit after the statements of
\* routes/approvals.ts).
THEOREM ApprovalsAreAudited == Spec => []AuditTellsOfApprovals
<1>1. IInv => AuditTellsOfApprovals
  <2> SUFFICES ASSUME IInv PROVE AuditTellsOfApprovals
    OBVIOUS
  <2>1. \A q \in Requests : pc[q] = "audit" => reply[q] = "none"
    BY DEF IInv, Positions, AtPosition
  <2>2. \A i \in Rows : i \in Requests
    BY DEF Rows
  <2> QED
    BY <2>1, <2>2 DEF AuditTellsOfApprovals, IInv, Told
<1> QED
  BY <1>1, Invariance, PTL

\* A decision that is answered was made by the one decider of its row.
LEMMA QueueIsConsistent == IInv => QueueConsistent
<1> SUFFICES ASSUME IInv PROVE QueueConsistent
  OBVIOUS
<1>1. \A r \in Requests : reply[r] = "ok" /\ call[r].op \in Decisions => Deciding(r)
  BY DEF Deciding
<1>2. OneDecision
  BY <1>1 DEF OneDecision, IInv, OneDecider
<1> QED
  BY <1>2 DEF QueueConsistent, IInv

\* No decision is undone, and no row is about another wish than it was
\* (the WHERE clauses of routes/approvals.ts).
THEOREM DecisionsStand == Spec => [][RowStep]_vars
<1>1. IInv /\ [Next]_vars => RowStep
  BY NextKeeps
<1> QED
  BY <1>1, Invariance, PTL DEF Spec

----------------------------------------------------------------------------
(* The screens *)

\* Every behaviour of the table with its screens is one of the table: reading
\* changes nothing.
THEOREM ReadingImplementsApprovals == ReadingSpec => Spec
<1>1. ReadingInit => Init
  BY DEF ReadingInit
<1>2. [ReadingNext]_readingVars => [Next]_vars
  BY DEF ReadingNext, readingVars, Read, OpenApprovals, OpenInbox, LoadMore
<1> QED
  BY <1>1, <1>2, PTL DEF ReadingSpec, Spec

\* The row i is on a screen that shows q.
Shows(q, i) == \E n \in DOMAIN q.pages : \E x \in q.pages[n] : x.id = i

\* What is shown are rows, newest first, as they are or were.
ShownOK(q) ==
  /\ \A n \in DOMAIN q.pages : \A x \in q.pages[n] :
       /\ x.id \in Rows
       /\ \/ x.status \in {"pending", approvals[x.id].status}
          \/ x.status = "granted" /\ approvals[x.id].status = "expired"
  /\ \A m, n \in DOMAIN q.pages : m < n =>
       \A x \in q.pages[m], y \in q.pages[n] :
         approvals[y.id].created < approvals[x.id].created

\* The cursor divides the rows of the beginning: those above it have been shown
\* or were passed over by an earlier cursor, and what is shown is above it.
CursorOK(q) ==
  /\ q.opened \subseteq Rows
  /\ \A i \in q.opened :
       \/ approvals[i].created \in q.cuts
       \/ Shows(q, i)
       \/ q.next # Null /\ approvals[i].created < q.next
  /\ q.next # Null => \A i \in Rows : Shows(q, i) => q.next <= approvals[i].created

ScreensOK ==
  /\ queue \in [Screens -> Queues]
  /\ \A s \in Screens :
       /\ ShownOK(queue[s])
       /\ queue[s].page = "open" => CursorOK(queue[s])
       /\ queue[s].page # "open" => queue[s].next = Null

\* The rows S as an answer brings them
Answered(S) == {[id |-> i, status |-> approvals[i].status] : i \in S}

\* An answer has the type of a page.
LEMMA AnsweredType ==
  ASSUME TypeOK, NEW S \in SUBSET Rows
  PROVE  Answered(S) \in SUBSET [id : Requests,
                                 status : {"pending", "granted", "denied", "expired"}]
BY DEF TypeOK, Rows, Answered, Approval

\* The cursor of a full page is the creation time of its oldest row.
LEMMA CursorIsOldest ==
  ASSUME TypeOK, NEW S \in SUBSET Rows, NEW limit \in Nat \ {0}, Cardinality(S) = limit
  PROVE  /\ NextCursor(S, limit) \in Nat
         /\ \E i \in S : NextCursor(S, limit) = approvals[i].created
         /\ \A i \in S : NextCursor(S, limit) <= approvals[i].created
<1> DEFINE T == {approvals[i].created : i \in S}
           Oldest(t) == t \in T /\ \A i \in S : t <= approvals[i].created
<1>1. S # {}
  BY FS_EmptySet
<1>2. \A i \in S : approvals[i].created \in Nat
  BY DEF TypeOK, Rows, Approval
<1>3. \E t \in T : \A i \in S : t <= approvals[i].created
  <2>1. T \subseteq Nat /\ T # {}
    BY <1>1, <1>2
  <2>2. PICK t \in T : \A u \in T : <<u, t>> \notin OpToRel(<, Nat)
    <3> HIDE DEF T
    <3> QED
      BY <2>1, NatLessThanWellFounded, WFMin
  <2>3. \A i \in S : ~(approvals[i].created < t)
    BY <2>1, <2>2, <1>2 DEF OpToRel
  <2>4. \A i \in S : t <= approvals[i].created
    <3> TAKE i \in S
    <3>1. approvals[i].created \in Nat /\ t \in Nat /\ ~(approvals[i].created < t)
      BY <1>2, <2>1, <2>3
    <3> HIDE DEF T
    <3> QED
      BY <3>1
  <2> QED
    BY <2>4
<1>4. NextCursor(S, limit) \in T
      /\ \A i \in S : NextCursor(S, limit) <= approvals[i].created
  BY <1>3 DEF NextCursor
<1> QED
  BY <1>2, <1>4

\* What an answer must find: whatever it may list is older than what is shown.
Ready(q) ==
  /\ q \in Queues /\ q.opened \subseteq Rows
  /\ \A i \in q.opened : \/ approvals[i].created \in q.cuts
                         \/ Shows(q, i)
                         \/ i \in Listed(q.next)
  /\ \A i \in Rows : Shows(q, i) =>
       \A j \in Listed(q.next) : approvals[j].created < approvals[i].created

\* A screen that was ready for an answer is right after it.
LEMMA LoadKeeps ==
  ASSUME TypeOK, NEW q, Ready(q), ShownOK(q), NEW limit \in Nat \ {0},
         NEW S \in SUBSET Listed(q.next), IsPage(S, Listed(q.next), limit)
  PROVE  LET p == Loaded(q, S, limit) IN
         p \in Queues /\ p.page = "open" /\ ShownOK(p) /\ CursorOK(p)
<1> DEFINE p == Loaded(q, S, limit)
           L == Listed(q.next)
           full == Cardinality(S) = limit
           Shown == [id : Requests,
                     status : {"pending", "granted", "denied", "expired"}]
<1>1. /\ S \in SUBSET Rows /\ L \in SUBSET Rows /\ S \subseteq L
      /\ \A i \in Rows : i \in Requests /\ approvals[i].created \in Nat
  BY DEF Listed, Rows, TypeOK, Approval
<1>2. full => /\ NextCursor(S, limit) \in Nat
              /\ \E i \in S : NextCursor(S, limit) = approvals[i].created
              /\ \A i \in S : NextCursor(S, limit) <= approvals[i].created
  BY <1>1, CursorIsOldest
<1>3. ~full => NextCursor(S, limit) = Null /\ S = L
  BY DEF NextCursor, IsPage
<1>4. q \in Queues /\ q.pages \in Seq(SUBSET Shown)
  BY DEF Ready, Queues
<1>5. /\ p.page = "open" /\ p.opened = q.opened
      /\ p.pages = Append(q.pages, Answered(S))
      /\ p.next = NextCursor(S, limit)
      /\ p.cuts = IF full THEN q.cuts \cup {NextCursor(S, limit)} ELSE q.cuts
      /\ p = [page |-> "open", pages |-> Append(q.pages, Answered(S)),
              next |-> NextCursor(S, limit), opened |-> q.opened,
              cuts |-> IF full THEN q.cuts \cup {NextCursor(S, limit)} ELSE q.cuts]
  <2> DEFINE ans == {[id |-> i, status |-> approvals[i].status] : i \in S}
             next == NextCursor(S, limit)
             cuts == IF full THEN q.cuts \cup {next} ELSE q.cuts
  <2>1. p = [q EXCEPT !.page = "open", !.pages = Append(q.pages, ans),
                      !.next = next, !.cuts = cuts]
    BY DEF Loaded
  <2>2. ans = Answered(S)
    BY DEF Answered
  <2> HIDE DEF p, ans, next, cuts
  <2>3. p = [page |-> "open", pages |-> Append(q.pages, ans), next |-> next,
             opened |-> q.opened, cuts |-> cuts]
    BY <1>4, <2>1 DEF Queues
  <2> QED
    BY <2>2, <2>3 DEF next, cuts
<1> HIDE DEF p
<1>6. Answered(S) \in SUBSET Shown
  BY <1>1, AnsweredType
<1>7. p \in Queues
  <2>1. Append(q.pages, Answered(S)) \in Seq(SUBSET Shown)
    <3> HIDE DEF Shown
    <3> QED
      BY <1>4, <1>6
  <2>2. NextCursor(S, limit) \in Nat \cup {Null}
    BY <1>2, <1>3
  <2>3. q.opened \in SUBSET Requests /\ q.cuts \in SUBSET Nat
    BY <1>4 DEF Queues
  <2>4. (IF full THEN q.cuts \cup {NextCursor(S, limit)} ELSE q.cuts) \in SUBSET Nat
    BY <1>2, <2>3
  <2> QED
    BY <1>5, <2>1, <2>2, <2>3, <2>4 DEF Queues
<1> HIDE DEF Shown
<1>8. /\ DOMAIN p.pages = 1..(Len(q.pages) + 1)
      /\ DOMAIN q.pages = 1..Len(q.pages) /\ Len(q.pages) \in Nat
      /\ \A n \in DOMAIN q.pages : p.pages[n] = q.pages[n]
      /\ p.pages[Len(q.pages) + 1] = Answered(S)
  BY <1>4, <1>5, <1>6
<1>9. \A i : Shows(p, i) <=> Shows(q, i) \/ i \in S
  <2>1. \A n \in DOMAIN p.pages : n \in DOMAIN q.pages \/ n = Len(q.pages) + 1
    BY <1>8
  <2>2. DOMAIN q.pages \subseteq DOMAIN p.pages /\ Len(q.pages) + 1 \in DOMAIN p.pages
    BY <1>8
  <2>3. \A i : i \in S <=> \E x \in Answered(S) : x.id = i
    <3>1. \A i \in S : [id |-> i, status |-> approvals[i].status] \in Answered(S)
      BY DEF Answered
    <3>2. \A x \in Answered(S) : x.id \in S
      BY DEF Answered
    <3> QED
      BY <3>1, <3>2
  <2> QED
    BY <1>8, <2>1, <2>2, <2>3 DEF Shows
<1>10. ShownOK(p)
  <2>1. \A x \in Answered(S) : x.id \in S /\ x.status = approvals[x.id].status
    BY DEF Answered
  <2>2. \A n \in DOMAIN p.pages : \A x \in p.pages[n] :
          /\ x.id \in Rows
          /\ \/ x.status \in {"pending", approvals[x.id].status}
             \/ x.status = "granted" /\ approvals[x.id].status = "expired"
    <3> SUFFICES ASSUME NEW n \in DOMAIN p.pages
                 PROVE  n \in DOMAIN q.pages \/ n = Len(q.pages) + 1
      BY <1>1, <1>8, <2>1 DEF ShownOK
    <3> QED
      BY <1>8
  <2>3. ASSUME NEW m \in DOMAIN p.pages, NEW n \in DOMAIN p.pages, m < n,
               NEW x \in p.pages[m], NEW y \in p.pages[n]
        PROVE  approvals[y.id].created < approvals[x.id].created
    <3>1. m \in DOMAIN q.pages
      BY <1>8, <2>3
    <3>2. CASE n \in DOMAIN q.pages
      BY <1>8, <2>3, <3>1, <3>2 DEF ShownOK
    <3>3. CASE n = Len(q.pages) + 1
      <4>1. y.id \in L
        BY <1>1, <1>8, <2>1, <3>3
      <4>2. x.id \in Rows /\ Shows(q, x.id)
        BY <1>8, <3>1 DEF ShownOK, Shows
      <4> QED
        BY <4>1, <4>2 DEF Ready
    <3>4. n \in DOMAIN q.pages \/ n = Len(q.pages) + 1
      BY <1>8
    <3> QED
      BY <3>2, <3>3, <3>4
  <2> QED
    BY <2>2, <2>3 DEF ShownOK
<1>11. CursorOK(p)
  <2>1. p.opened \subseteq Rows
    BY <1>5 DEF Ready
  <2>2. ASSUME NEW i \in p.opened
        PROVE  \/ approvals[i].created \in p.cuts
               \/ Shows(p, i)
               \/ p.next # Null /\ approvals[i].created < p.next
    <3>1. approvals[i].created \in q.cuts => approvals[i].created \in p.cuts
      BY <1>5
    <3>2. CASE i \in L /\ i \notin S
      <4>1. full
        BY <1>3, <3>2
      <4>2. \A j \in S : approvals[i].created <= approvals[j].created
        BY <3>2 DEF IsPage
      <4>3. approvals[i].created <= NextCursor(S, limit)
        BY <1>2, <4>1, <4>2
      <4>4. \/ approvals[i].created = NextCursor(S, limit)
            \/ approvals[i].created < NextCursor(S, limit)
        BY <1>1, <1>2, <3>2, <4>1, <4>3
      <4>5. p.next = NextCursor(S, limit) /\ p.next # Null
            /\ NextCursor(S, limit) \in p.cuts
        BY <1>2, <1>5, <4>1, NullAssumption
      <4> QED
        BY <4>4, <4>5
    <3>3. \/ approvals[i].created \in q.cuts
          \/ Shows(q, i)
          \/ i \in L
      BY <1>5 DEF Ready
    <3> QED
      BY <1>9, <3>1, <3>2, <3>3
  <2>3. ASSUME p.next # Null, NEW i \in Rows, Shows(p, i)
        PROVE  p.next <= approvals[i].created
    <3>1. full
      BY <1>3, <1>5, <2>3
    <3>2. CASE i \in S
      BY <1>2, <1>5, <3>1, <3>2
    <3>3. CASE Shows(q, i)
      <4>1. PICK j \in S : NextCursor(S, limit) = approvals[j].created
        BY <1>2, <3>1
      <4>2. approvals[j].created < approvals[i].created
        BY <1>1, <3>3 DEF Ready
      <4>3. approvals[j].created \in Nat /\ approvals[i].created \in Nat
        BY <1>1
      <4> QED
        BY <1>5, <4>1, <4>2, <4>3
    <3> QED
      BY <1>9, <2>3, <3>2, <3>3
  <2> QED
    BY <2>1, <2>2, <2>3 DEF CursorOK
<1> QED
  BY <1>5, <1>7, <1>10, <1>11 DEF p

\* A screen that has loaded an answer; the others are as they were.
LEMMA GetKeeps ==
  ASSUME TypeOK, ScreensOK, NEW s \in Screens, NEW q, Ready(q), ShownOK(q),
         NEW limit \in Nat \ {0}, GetApprovals(s, q, limit), UNCHANGED vars
  PROVE  ScreensOK'
<1>1. PICK S \in SUBSET Listed(q.next) :
        /\ IsPage(S, Listed(q.next), limit)
        /\ queue' = [queue EXCEPT ![s] = Loaded(q, S, limit)]
  BY DEF GetApprovals
<1> DEFINE p == Loaded(q, S, limit)
<1>2. p \in Queues /\ p.page = "open" /\ ShownOK(p) /\ CursorOK(p)
  BY <1>1, LoadKeeps
<1> HIDE DEF p
<1>3. /\ queue' \in [Screens -> Queues] /\ queue'[s] = p
      /\ \A t \in Screens \ {s} : queue'[t] = queue[t]
  BY <1>1, <1>2 DEF ScreensOK, p
<1>4. \A x : (ShownOK(x)' <=> ShownOK(x)) /\ (CursorOK(x)' <=> CursorOK(x))
  BY DEF ShownOK, CursorOK, vars, Rows, Shows
<1> QED
  BY <1>2, <1>3, <1>4 DEF ScreensOK

\* A screen is ready when it opens and when it loads more.
LEMMA ReadKeeps ==
  ASSUME TypeOK, ScreensOK, NEW s \in Screens, Read(s) PROVE ScreensOK'
<1> DEFINE top == [Closed EXCEPT !.opened = Rows]
<1>1. Ready(top) /\ ShownOK(top)
  <2>1. top = [page |-> "none", pages |-> <<>>, next |-> Null, opened |-> Rows,
               cuts |-> {}]
    <3>1. \A p, c, e, f :
            [[page |-> "none", pages |-> p, next |-> Null, opened |-> e, cuts |-> c]
                EXCEPT !.opened = f]
            = [page |-> "none", pages |-> p, next |-> Null, opened |-> f, cuts |-> c]
      OBVIOUS
    <3> QED
      BY <3>1 DEF Closed
  <2>2. DOMAIN top.pages = {} /\ \A i : ~Shows(top, i)
    <3>1. top.pages = <<>> /\ DOMAIN << >> = {}
      BY <2>1
    <3> HIDE DEF top
    <3> QED
      BY <3>1 DEF Shows
  <2>3. Listed(top.next) = Rows /\ top.opened = Rows
    BY <2>1 DEF Listed
  <2>4. top \in Queues
    <3>1. \A T : <<>> \in Seq(T)
      OBVIOUS
    <3>2. Rows \in SUBSET Requests /\ {} \in SUBSET Nat
      BY DEF Rows
    <3> HIDE DEF top
    <3> QED
      BY <2>1, <3>1, <3>2 DEF Queues
  <2> HIDE DEF top
  <2> QED
    BY <2>2, <2>3, <2>4 DEF Ready, ShownOK
<1>2. ASSUME GetApprovals(s, top, FirstPage), UNCHANGED vars PROVE ScreensOK'
  <2> HIDE DEF top
  <2> QED
    BY <1>1, <1>2, GetKeeps, PageAssumption
<1>3. CASE queue' = [queue EXCEPT ![s].page = "failed"] /\ queue[s].page = "none"
           /\ UNCHANGED vars
  <2> DEFINE p == [queue[s] EXCEPT !.page = "failed"]
  <2>1. queue[s] \in Queues /\ p \in Queues /\ p.page = "failed"
        /\ p.next = queue[s].next /\ p.pages = queue[s].pages
    BY DEF ScreensOK, Queues
  <2>2. ShownOK(p) /\ p.next = Null
    BY <1>3, <2>1 DEF ScreensOK, ShownOK
  <2>3. queue' = [queue EXCEPT ![s] = p]
    BY <1>3 DEF ScreensOK
  <2> HIDE DEF p
  <2>4. /\ queue' \in [Screens -> Queues] /\ queue'[s] = p
        /\ \A t \in Screens \ {s} : queue'[t] = queue[t]
    BY <2>1, <2>3 DEF ScreensOK
  <2>5. \A x : (ShownOK(x)' <=> ShownOK(x)) /\ (CursorOK(x)' <=> CursorOK(x))
    BY <1>3 DEF ShownOK, CursorOK, vars, Rows, Shows
  <2> QED
    BY <2>1, <2>2, <2>4, <2>5 DEF ScreensOK
<1>4. CASE LoadMore(s)
  <2> DEFINE q == queue[s]
  <2>1. /\ q \in Queues /\ ShownOK(q) /\ CursorOK(q) /\ q.next # Null
        /\ q.next \in Nat
    BY <1>4 DEF LoadMore, ScreensOK, Queues
  <2>2. \A i \in Rows : approvals[i].created \in Nat
    BY DEF TypeOK, Rows, Approval
  <2>3. Listed(q.next) = {i \in Rows : approvals[i].created < q.next}
    BY <2>1 DEF Listed
  <2> HIDE DEF q
  <2>4. Ready(q)
    <3>1. \A i \in q.opened : \/ approvals[i].created \in q.cuts
                              \/ Shows(q, i)
                              \/ i \in Listed(q.next)
      BY <2>1, <2>3 DEF CursorOK
    <3>2. ASSUME NEW i \in Rows, Shows(q, i), NEW j \in Listed(q.next)
          PROVE  approvals[j].created < approvals[i].created
      <4>1. approvals[j].created < q.next /\ approvals[j].created \in Nat
        BY <2>2, <2>3
      <4>2. q.next <= approvals[i].created /\ approvals[i].created \in Nat
        BY <2>1, <2>2, <3>2 DEF CursorOK
      <4> QED
        BY <2>1, <4>1, <4>2
    <3> QED
      BY <2>1, <3>1, <3>2 DEF Ready, CursorOK
  <2>5. GetApprovals(s, q, NextPage) /\ UNCHANGED vars
    BY <1>4 DEF LoadMore, q
  <2> QED
    BY <2>1, <2>4, <2>5, GetKeeps, PageAssumption
<1> QED
  BY <1>2, <1>3, <1>4 DEF Read, OpenApprovals, OpenInbox

\* A screen stays right while the table goes on.
LEMMA RowStepKeeps ==
  ASSUME TypeOK, ScreensOK, RowStep, UNCHANGED queue PROVE ScreensOK'
<1>1. \A i \in Rows : i \in Rows' /\ approvals'[i].created = approvals[i].created
  BY DEF RowStep
<1>2. ASSUME NEW s \in Screens PROVE ShownOK(queue[s])'
  <2> DEFINE q == queue[s]
  <2>1. ShownOK(q) /\ q' = q
    BY DEF ScreensOK
  <2> HIDE DEF q
  <2>2. ASSUME NEW n \in DOMAIN q.pages, NEW x \in q.pages[n]
        PROVE  /\ x.id \in Rows /\ x.id \in Rows'
               /\ \/ x.status \in {"pending", approvals'[x.id].status}
                  \/ x.status = "granted" /\ approvals'[x.id].status = "expired"
    <3>1. /\ x.id \in Rows
          /\ \/ x.status \in {"pending", approvals[x.id].status}
             \/ x.status = "granted" /\ approvals[x.id].status = "expired"
      BY <2>1 DEF ShownOK
    <3> QED
      BY <3>1 DEF RowStep
  <2>3. \A m, n \in DOMAIN q.pages : m < n =>
          \A x \in q.pages[m], y \in q.pages[n] :
            approvals'[y.id].created < approvals'[x.id].created
    <3> SUFFICES ASSUME NEW m \in DOMAIN q.pages, NEW n \in DOMAIN q.pages, m < n,
                        NEW x \in q.pages[m], NEW y \in q.pages[n]
                 PROVE  approvals'[y.id].created < approvals'[x.id].created
      OBVIOUS
    <3>1. approvals[y.id].created < approvals[x.id].created
      BY <2>1 DEF ShownOK
    <3> QED
      BY <1>1, <2>2, <3>1
  <2> QED
    BY <2>1, <2>2, <2>3 DEF ShownOK, q
<1>3. ASSUME NEW s \in Screens, CursorOK(queue[s]) PROVE CursorOK(queue[s])'
  <2> DEFINE q == queue[s]
  <2>1. CursorOK(q) /\ q' = q
    BY <1>3
  <2>2. q.opened \subseteq Rows
    BY <1>3 DEF CursorOK
  <2>3. \A i : Shows(q, i) => i \in Rows
    BY DEF Shows, ScreensOK, ShownOK
  <2> HIDE DEF q
  <2>4. \A i : Shows(q, i)' <=> Shows(q, i)
    BY <2>1 DEF Shows
  <2> QED
    BY <1>1, <2>1, <2>2, <2>3, <2>4 DEF CursorOK, q
<1> QED
  BY <1>2, <1>3 DEF ScreensOK

\* The table and its screens are right in every state.
LEMMA ScreensAreKept == ReadingSpec => [](IInv /\ ScreensOK)
<1>1. ReadingInit => IInv /\ ScreensOK
  <2> SUFFICES ASSUME ReadingInit PROVE ScreensOK
    BY InitKeeps DEF ReadingInit
  <2>1. /\ Closed.page = "none" /\ Closed.next = Null /\ Closed.pages = <<>>
        /\ Closed.opened = {} /\ Closed.cuts = {}
    BY DEF Closed
  <2>2. Closed \in Queues
    <3>1. \A T : <<>> \in Seq(T)
      OBVIOUS
    <3> QED
      BY <3>1 DEF Closed, Queues
  <2>3. ShownOK(Closed)
    BY <2>1 DEF ShownOK
  <2> QED
    BY <2>1, <2>2, <2>3 DEF ReadingInit, ScreensOK
<1>2. IInv /\ ScreensOK /\ [ReadingNext]_readingVars => (IInv /\ ScreensOK)'
  <2> SUFFICES ASSUME IInv, ScreensOK, [ReadingNext]_readingVars
               PROVE  IInv' /\ ScreensOK'
    OBVIOUS
  <2>1. CASE [Next]_vars /\ UNCHANGED queue
    <3>1. IInv' /\ RowStep
      BY <2>1, NextKeeps
    <3> QED
      BY <2>1, <3>1, RowStepKeeps DEF IInv
  <2>2. ASSUME NEW s \in Screens, Read(s) PROVE IInv' /\ ScreensOK'
    <3>1. UNCHANGED vars
      BY <2>2 DEF Read, OpenApprovals, OpenInbox, LoadMore
    <3> QED
      BY <2>2, <3>1, StutterKeeps, ReadKeeps DEF IInv
  <2> QED
    BY <2>1, <2>2 DEF ReadingNext, readingVars
<1> QED
  BY <1>1, <1>2, PTL DEF ReadingSpec

\* The reviewers' queue is consistent, and a screen that pages through it shows
\* every request of its beginning once, newest first, and no decision that does
\* not stand, for any limits and any number of screens.
THEOREM QueueIsShown == ReadingSpec => []QueueAsShown
<1>1. IInv /\ ScreensOK => QueueAsShown
  <2> SUFFICES ASSUME IInv, ScreensOK PROVE QueueAsShown
    OBVIOUS
  <2>1. EveryRequestShown
    BY DEF EveryRequestShown, ScreensOK, ShownOK, CursorOK, Shows
  <2>2. ShownDecisionsStand
    BY DEF ShownDecisionsStand, ScreensOK, ShownOK
  <2> QED
    BY <2>1, <2>2, QueueIsConsistent DEF QueueAsShown, ScreensOK
<1> QED
  BY <1>1, ScreensAreKept, PTL
============================================================================
