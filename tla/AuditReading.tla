---------------------------- MODULE AuditReading ----------------------------
(***************************************************************************)
(* AuditLog with its readers: GET /v1/audit (apps/server/src/routes/       *)
(* audit.ts), which hands out the table oldest first in pages, and the     *)
(* audit pages of the web application, which append one page to the next   *)
(* while other requests append rows.  `keynv audit list` with the          *)
(* --since-id that it prints is a reader that never changes the filter.    *)
(*                                                                         *)
(* A filter is known by the events it lets through: those of the caller's  *)
(* organisation, of one project, of one type.                              *)
(***************************************************************************)
EXTENDS AuditLog

CONSTANT Readers  \* audit pages open in a browser, or scripts of the CLI

\* No id is taken for the end of the listing.
ASSUME CursorAssumption == Null \notin Nat
ASSUME EventAssumption == Events # {}

VARIABLE view  \* reader -> what its page holds

readingVars == <<vars, view>>

Filters == (SUBSET Events) \ {{}}

\* page: which page it is; shown: the ids on the screen; next: the cursor;
\* later: the filter of the next "load more"; common and upTo are history: the
\* events that every request asked for, and the end of the table at the last of
\* them.
Views == [page : {"none", "org", "project"},
          shown : Seq(1..MaxRows), next : 1..MaxRows \cup {Null},
          later : Filters, common : SUBSET Events, upTo : 0..MaxRows]

Closed == [page |-> "none", shown |-> <<>>, next |-> Null, later |-> Events,
           common |-> Events, upTo |-> 0]

\* Mutant of Matching: the row at the cursor is sent again
MatchingFrom(f, since) ==
  {i \in Live(audit) : since <= i /\ audit[i].event \in f}

\* The rows that the conditions of listAudit let through
Matching(f, since) == {i \in Live(audit) : since < i /\ audit[i].event \in f}

\* ORDER BY id ASC
Place(i, S) == Cardinality({j \in S : j <= i})
Ascending(S) == [n \in 1..Cardinality(S) |-> CHOOSE i \in S : Place(i, S) = n]

\* The entries of one answer: the first in that order, as many as the limit says
Entries(f, since, limit) ==
  {i \in Matching(f, since) : Place(i, Matching(f, since)) <= limit}

\* next_cursor: the last id if the page is full, else null
NextCursor(entries, limit) ==
  IF Cardinality(entries) = limit
  THEN CHOOSE i \in entries : \A j \in entries : j <= i
  ELSE Null

\* An answer of GET /v1/audit, appended to what is on the screen
Shown(v, f, since, limit) ==
  LET entries == Entries(f, since, limit) IN
  [v EXCEPT !.shown = @ \o Ascending(entries),
            !.next = NextCursor(entries, limit),
            !.common = @ \cap f,
            !.upTo = Len(audit)]

\* The organisation's audit page: project_id and event_type of its address
\* select the first page, of a size that the address may give.  Of the two, only
\* the project is remembered for "load more".
OpenAudit(r) ==
  /\ view[r] = Closed
  /\ \E f, later \in Filters, limit \in 1..PageSize :
       /\ f \subseteq later
       /\ view' = [view EXCEPT
            ![r] = Shown([Closed EXCEPT !.page = "org", !.later = later],
                           f, 0, limit)]
  /\ UNCHANGED vars

\* A project's audit page gives AuditTimeline no project: "load more" asks for
\* the whole organisation's.
OpenProjectAudit(r) ==
  /\ view[r] = Closed
  /\ \E f \in Filters :
       view' = [view EXCEPT
         ![r] = Shown([Closed EXCEPT !.page = "project"], f, 0, PageSize)]
  /\ UNCHANGED vars

\* Another project is chosen.  The address follows, but what is on the screen
\* and the cursor stay: they are states of a component that stays mounted.
SelectProject(r) ==
  /\ view[r].page = "org"
  /\ view[r].next # Null
  /\ \E f \in Filters : view' = [view EXCEPT ![r].later = f]
  /\ UNCHANGED vars

\* "load more" (not while one is running): what fails is not told and may be
\* tried again.
LoadMore(r) ==
  /\ view[r].next # Null
  /\ view' = [view EXCEPT
                ![r] = Shown(@, view[r].later, view[r].next, PageSize)]
  /\ UNCHANGED vars

Read(r) ==
  \/ OpenAudit(r) \/ OpenProjectAudit(r) \/ SelectProject(r) \/ LoadMore(r)

ReadingInit == Init /\ view = [r \in Readers |-> Closed]

ReadingNext ==
  \/ Next /\ UNCHANGED view
  \/ \E r \in Readers : Read(r)

ReadingSpec == ReadingInit /\ [][ReadingNext]_readingVars
----------------------------------------------------------------------------
(* Properties *)

\* Whatever is appended between its pages, a reader is shown no entry twice,
\* oldest first; and once "load more" is gone (next_cursor null), every entry up
\* to the end of the table at that moment that all its requests asked for, if
\* nobody edited the table by hand: the last full page must not hide a rest, and
\* a page cut by the limit not skip one.
EveryEntryOnce ==
  /\ view \in [Readers -> Views]
  /\ \A r \in Readers :
       LET v == view[r] IN
       /\ \A i, j \in DOMAIN v.shown : i < j => v.shown[i] < v.shown[j]
       /\ v.next = Null /\ edits = 0 =>
            \A i \in Live(audit) :
              i <= v.upTo /\ audit[i].event \in v.common
                => \E k \in DOMAIN v.shown : v.shown[k] = i
============================================================================
