-------------------------- MODULE ApprovalsReading --------------------------
(***************************************************************************)
(* Approvals with the screens that show them: GET /v1/projects/:id/        *)
(* approvals and GET /v1/approvals, which hand out the table newest first  *)
(* in pages, and the approvals page and the inbox of the web application,  *)
(* which append one page to the next while requests are raised, decided    *)
(* and expire.  The cursor is a creation time, and what is on a screen     *)
(* stays as it was when it was read: also a decision that the screen's own *)
(* buttons made, for the list is a state that only its first page          *)
(* initialises.                                                            *)
(***************************************************************************)
EXTENDS Approvals, FiniteSets, Sequences

CONSTANTS
  Screens,   \* pages open in a browser
  FirstPage, \* the limit with which a screen opens
  NextPage   \* the limit of its "load more"

ASSUME PageAssumption == FirstPage \in Nat \ {0} /\ NextPage \in Nat \ {0}

VARIABLE queue  \* screen -> what it shows

readingVars == <<vars, queue>>

\* pages: what each answer brought, [id, status] of its rows; next: the cursor.
\* opened and cuts are history: the rows that the first answer could have
\* named, and the creation times at which an answer ended.
Queues ==
  [page : {"none", "open", "failed"},
   pages : Seq(SUBSET [id : Requests,
                       status : {"pending", "granted", "denied", "expired"}]),
   next : Nat \cup {Null}, opened : SUBSET Requests, cuts : SUBSET Nat]

Closed == [page |-> "none", pages |-> <<>>, next |-> Null,
           opened |-> {}, cuts |-> {}]

----------------------------------------------------------------------------
(* The listing *)

\* Mutant of Listed: rows as old as the cursor are sent again
ListedAgain(before) ==
  {i \in Rows : before # Null => approvals[i].created <= before}

\* The rows that before_created_at lets through.  The screens ask for every
\* status, and choose by status among the rows they have.
Listed(before) ==
  {i \in Rows : before # Null => approvals[i].created < before}

\* Mutant of IsPage: LIMIT without ORDER BY
IsAnyPage(S, L, limit) ==
  /\ S \subseteq L
  /\ Cardinality(S) = limit \/ (Cardinality(S) < limit /\ S = L)

\* ORDER BY created_at DESC LIMIT limit may answer with S: of rows created in
\* the same millisecond the database returns any.
IsPage(S, L, limit) ==
  /\ S \subseteq L
  /\ Cardinality(S) = limit \/ (Cardinality(S) < limit /\ S = L)
  /\ \A i \in S, j \in L \ S : approvals[j].created <= approvals[i].created

\* next_cursor: the creation time of the last row if the page is full, else null
NextCursor(S, limit) ==
  IF Cardinality(S) = limit
  THEN CHOOSE t \in {approvals[i].created : i \in S} :
         \A i \in S : t <= approvals[i].created
  ELSE Null

\* The screen q after an answer with the rows S
Loaded(q, S, limit) ==
  [q EXCEPT !.page = "open",
            !.pages = Append(@, {[id |-> i, status |-> approvals[i].status] :
                                   i \in S}),
            !.next = NextCursor(S, limit),
            !.cuts = IF Cardinality(S) = limit
                     THEN @ \cup {NextCursor(S, limit)} ELSE @]

\* GET of the listing, of a project or of the organisation to one of its admins
GetApprovals(s, q, limit) ==
  \E S \in SUBSET Listed(q.next) :
    /\ IsPage(S, Listed(q.next), limit)
    /\ queue' = [queue EXCEPT ![s] = Loaded(q, S, limit)]

----------------------------------------------------------------------------
(* The screens *)

\* The approvals page of the project
OpenApprovals(s) ==
  /\ queue[s].page = "none"
  /\ GetApprovals(s, [Closed EXCEPT !.opened = Rows], FirstPage)
  /\ UNCHANGED vars

\* The inbox: what fails looks like an empty queue.  It fails for everybody who
\* is not an admin and has a membership: "IN ?, ?" is no SQL.
OpenInbox(s) ==
  /\ queue[s].page = "none"
  /\ \/ GetApprovals(s, [Closed EXCEPT !.opened = Rows], FirstPage)
     \/ queue' = [queue EXCEPT ![s].page = "failed"]
  /\ UNCHANGED vars

\* "load more": a failure changes nothing and may be tried again.
LoadMore(s) ==
  /\ queue[s].next # Null
  /\ GetApprovals(s, queue[s], NextPage)
  /\ UNCHANGED vars

Read(s) == OpenApprovals(s) \/ OpenInbox(s) \/ LoadMore(s)

ReadingInit == Init /\ queue = [s \in Screens |-> Closed]

ReadingNext ==
  \/ Next /\ UNCHANGED queue
  \/ \E s \in Screens : Read(s)

ReadingSpec == ReadingInit /\ [][ReadingNext]_readingVars
----------------------------------------------------------------------------
(* Properties *)

\* A reviewer who pages through the queue, while others raise, decide and let
\* run out, is shown each request once and newest first; and once "load more" is
\* gone, every request that was there at the beginning, but for those created in
\* the millisecond in which a page ended: the cursor steps over them
\* (approvals.ts:79).
EveryRequestShown ==
  \A s \in Screens :
    LET q == queue[s] IN
    /\ \A m, n \in DOMAIN q.pages : m < n =>
         \A x \in q.pages[m], y \in q.pages[n] :
           approvals[y.id].created < approvals[x.id].created
    /\ q.page = "open" /\ q.next = Null =>
         \A i \in q.opened :
           \/ approvals[i].created \in q.cuts
           \/ \E n \in DOMAIN q.pages : \E x \in q.pages[n] : x.id = i

\* What a screen shows as decided stays so, however old the screen: a denied
\* request is never granted after all, and a grant can only run out.
ShownDecisionsStand ==
  \A s \in Screens : \A n \in DOMAIN queue[s].pages :
    \A x \in queue[s].pages[n] :
      \/ x.status \in {"pending", approvals[x.id].status}
      \/ x.status = "granted" /\ approvals[x.id].status = "expired"

\* The queue of the reviewers, in the table and on their screens
QueueAsShown ==
  /\ queue \in [Screens -> Queues]
  /\ QueueConsistent
  /\ EveryRequestShown
  /\ ShownDecisionsStand
============================================================================
