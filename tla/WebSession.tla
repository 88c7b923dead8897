----------------------------- MODULE WebSession -----------------------------
(***************************************************************************)
(* The sign-in of a browser (apps/web): the session is a sealed cookie     *)
(* that holds a pair of tokens, every request carries the cookie as it is  *)
(* when it is sent, and the answers set it in the order in which they      *)
(* arrive.  Tabs show pages, submit forms, switch the organisation, sign   *)
(* in and out, and are sent through the refresh route when the server no   *)
(* longer takes the access token.                                          *)
(*                                                                         *)
(* The n-th pair of tokens that the server issues is n.  Its handlers are  *)
(* those of module Sessions; here a refresh looks its token up and swaps   *)
(* it, and what only other devices do is left out.                         *)
(***************************************************************************)
EXTENDS Naturals

CONSTANTS
  Tabs,
  Orgs,       \* the organisations of the user
  Home,       \* the one the server puts a login in
  Null,
  MaxPairs,   \* bound on the pairs of tokens issued, never reached
  MaxClicks,  \* bound on what the user does
  MaxEvents   \* bound on expiries and on calls that do not reach the server

ASSUME HomeAssumption == Home \in Orgs
ASSUME BoundAssumption ==
  MaxPairs \in Nat \ {0} /\ MaxClicks \in Nat /\ MaxEvents \in Nat

VARIABLES
  jar,     \* the cookie keynv_session, or Null
  tab,     \* tab -> its request
  issued,  \* pairs issued so far
  live,    \* pairs whose refresh token is not revoked
  fresh,   \* pairs whose access token is not expired
  clicks,  \* what the user has done so far
  events,  \* expiries and failed calls so far
  chosen,  \* history: the organisation that was chosen last
  left,    \* history: pairs that the browser gave up without revoking them
  late     \* history: an answer was lost, or overwrote a newer cookie

vars == <<jar, tab, issued, live, fresh, clicks, events, chosen, left, late>>

server == <<issued, live, fresh>>
history == <<chosen, left, late>>

\* active_org_id (or org_id), and whether org_ids have been collected
Session == [pair : 1..MaxPairs, org : Orgs, known : BOOLEAN]

ASSUME NullAssumption == Null \notin Session

Kinds == {"page", "form", "switch", "create", "logout", "login", "register", "refresh"}

\* What the cookie of the tab's request holds for the handler: getSession
Carried(t) == tab[t].cookie

At(t, pc, kinds) == tab[t].pc = pc /\ tab[t].kind \in kinds

Request(kind, cookie, org) ==
  [pc |-> "sent", kind |-> kind, cookie |-> cookie, org |-> org, set |-> Null]

Quiet == [pc |-> "rest", kind |-> "page", cookie |-> Null, org |-> Home, set |-> Null]

NewSession(pair) == [pair |-> pair, org |-> Home, known |-> FALSE]

\* The browser has signed in already, or has not.
Init ==
  /\ issued \in 0..1 /\ live = 1..issued /\ fresh = live
  /\ jar = IF issued = 0 THEN Null ELSE NewSession(1)
  /\ tab = [t \in Tabs |-> IF issued = 0 THEN [Quiet EXCEPT !.pc = "login"] ELSE Quiet]
  /\ clicks = 0 /\ events = 0
  /\ chosen = Home /\ left = {} /\ late = FALSE

Rest(t) == tab' = [tab EXCEPT ![t] = Quiet]
ToLogin(t) == tab' = [tab EXCEPT ![t] = [Quiet EXCEPT !.pc = "login"]]
Load(t, cookie) == tab' = [tab EXCEPT ![t] = Request("page", cookie, Home)]

\* The answer to the tab's request is on its way, and sets the cookie to c.
Set(t, c) == tab' = [tab EXCEPT ![t].pc = "answered", ![t].set = c]

\* A call of the server, which is reached or not
Call(reached) ==
  \/ reached /\ UNCHANGED events
  \/ ~reached /\ events < MaxEvents /\ events' = events + 1

----------------------------------------------------------------------------
(* The browser *)

\* The user opens a page, submits a form or enters his password.
Click(t) ==
  /\ clicks < MaxClicks /\ clicks' = clicks + 1
  /\ \E kind \in Kinds \ {"refresh"}, org \in Orgs :
       /\ tab[t].pc = "login" => kind \in {"page", "login", "register"}
       /\ tab[t].pc = "rest" => kind \notin {"login", "register"}
       /\ kind \notin {"switch", "create"} => org = Home
       /\ tab[t].pc \in {"rest", "login"}
       /\ tab' = [tab EXCEPT ![t] = Request(kind, jar, org)]
  /\ UNCHANGED <<jar, server, events, history>>

\* The access token is older than its TTL.
Expire(p) ==
  /\ p \in fresh
  /\ events < MaxEvents /\ events' = events + 1
  /\ fresh' = fresh \ {p}
  /\ UNCHANGED <<jar, tab, issued, live, clicks, history>>

\* The answer arrives: the cookie is set, and the page it redirects to is asked for.
Receive(t) ==
  LET set == tab[t].set
  IN /\ tab[t].pc = "answered"
     /\ jar' = set
     /\ late' = (late \/ jar # Carried(t))
     /\ left' = left \cup
          {p \in live : tab[t].kind \in {"login", "register"} /\ jar # Null /\ jar.pair = p}
     /\ chosen' = IF tab[t].kind \in {"switch", "create", "login", "register"}
                    THEN set.org ELSE chosen
     /\ IF set = Null THEN ToLogin(t) ELSE Load(t, set)
     /\ UNCHANGED <<server, clicks, events>>

\* api() has redirected to the refresh route, which the browser asks for with
\* the cookie that it has by now.
Follow(t) ==
  /\ tab[t].pc = "redirected"
  /\ tab' = [tab EXCEPT ![t] = Request("refresh", jar, Home)]
  /\ UNCHANGED <<jar, server, clicks, events, history>>

----------------------------------------------------------------------------
(* Pages and forms *)

\* The layout asks for a session; the calls of the page are refused without an
\* access token in force.
Page(t) ==
  /\ At(t, "sent", {"page"})
  /\ IF Carried(t) = Null THEN ToLogin(t) /\ UNCHANGED events
     ELSE \E reached \in BOOLEAN :
            /\ Call(reached)
            /\ IF reached /\ Carried(t).pair \notin fresh
               THEN tab' = [tab EXCEPT ![t].pc = "redirected"]
               ELSE Rest(t)
  /\ UNCHANGED <<jar, server, clicks, history>>

\* Most actions catch what api() throws, the redirect included: the form shows
\* an error.  Those that do not (the next page of the log) are redirected.
Form(t) ==
  /\ At(t, "sent", {"form"})
  /\ \/ Rest(t)
     \/ /\ Carried(t) # Null /\ Carried(t).pair \notin fresh
        /\ tab' = [tab EXCEPT ![t].pc = "redirected"]
  /\ UNCHANGED <<jar, server, clicks, events, history>>

\* requireCsrf: a form that is too old
Refuse(t) ==
  /\ At(t, "sent", Kinds \ {"page", "refresh"})
  /\ IF tab[t].kind \in {"login", "register"} THEN ToLogin(t) ELSE Rest(t)
  /\ UNCHANGED <<jar, server, clicks, events, history>>

\* switchOrgAction: the organisation is one of those that whoami tells or that the
\* cookie has from an earlier time; the tokens are set as they were sent.
Switch(t) ==
  /\ At(t, "sent", {"switch"})
  /\ IF Carried(t) = Null THEN ToLogin(t) /\ UNCHANGED events
     ELSE \E reached \in BOOLEAN :
            LET told == reached /\ Carried(t).pair \in fresh
            IN /\ Call(reached)
               /\ IF told \/ Carried(t).known
                  THEN Set(t, [Carried(t) EXCEPT !.org = tab[t].org, !.known = TRUE])
                  ELSE Load(t, jar)
  /\ UNCHANGED <<jar, server, clicks, history>>

\* createOrgAction: refused, or the new organisation is the active one
Create(t) ==
  /\ At(t, "sent", {"create"})
  /\ \E reached \in BOOLEAN :
       /\ Call(reached)
       /\ IF Carried(t) # Null /\ reached /\ Carried(t).pair \in fresh
          THEN Set(t, [Carried(t) EXCEPT !.org = tab[t].org, !.known = TRUE])
          ELSE Rest(t)
  /\ UNCHANGED <<jar, server, clicks, history>>

----------------------------------------------------------------------------
(* Signing in and out, and the refresh route *)

\* The pair that the server issues next
New == issued + 1

Issue ==
  /\ issued < MaxPairs /\ issued' = New
  /\ fresh' = fresh \cup {New}

\* The server takes the password, and the cookie of the answer has the first
\* organisation; or it does not, or is not reached, or its answer is lost.
SignedIn(t) ==
  /\ \/ Issue /\ live' = live \cup {New} /\ UNCHANGED <<events, left>>
          /\ Set(t, NewSession(New))
     \/ Issue /\ live' = live \cup {New} /\ Call(FALSE)
          /\ left' = left \cup {New} /\ ToLogin(t)
     \/ ToLogin(t) /\ UNCHANGED <<server, events, left>>
  /\ UNCHANGED <<jar, clicks, chosen, late>>

Login(t) == At(t, "sent", {"login"}) /\ SignedIn(t)

Register(t) == At(t, "sent", {"register"}) /\ SignedIn(t)

\* Mutant of Logout: the cookie is cleared, and no more
LogoutHere(t) ==
  /\ At(t, "sent", {"logout"})
  /\ Set(t, Null)
  /\ UNCHANGED <<jar, server, clicks, events, history>>

\* logoutAction: the refresh token is revoked if the server can be reached; the
\* cookie is cleared in any case.
Logout(t) ==
  /\ At(t, "sent", {"logout"})
  /\ \E reached \in BOOLEAN :
       /\ Call(reached)
       /\ LET mine == IF Carried(t) = Null THEN {} ELSE {Carried(t).pair}
          IN /\ live' = IF reached THEN live \ mine ELSE live
             /\ left' = IF reached THEN left ELSE left \cup mine
  /\ Set(t, Null)
  /\ UNCHANGED <<jar, issued, fresh, clicks, chosen, late>>

\* Mutant of RefreshRead: what cannot be refreshed is sent back
RefusedBack(t) ==
  /\ At(t, "sent", {"refresh"})
  /\ IF Carried(t) = Null THEN ToLogin(t) /\ UNCHANGED events
     ELSE \E reached \in BOOLEAN :
            /\ Call(reached)
            /\ IF reached /\ Carried(t).pair \in live
               THEN tab' = [tab EXCEPT ![t].pc = "found"] ELSE Load(t, jar)
  /\ UNCHANGED <<jar, server, clicks, history>>

\* The refresh route calls the server, which looks the refresh token up; without
\* a cookie, a server it may call, an answer or a token in force, it is the login
\* page that follows.
RefreshRead(t) ==
  /\ At(t, "sent", {"refresh"})
  /\ IF Carried(t) = Null THEN ToLogin(t) /\ UNCHANGED events
     ELSE \E reached \in BOOLEAN :
            /\ Call(reached)
            /\ IF reached /\ Carried(t).pair \in live
               THEN tab' = [tab EXCEPT ![t].pc = "found"] ELSE ToLogin(t)
  /\ UNCHANGED <<jar, server, clicks, history>>

\* The token is revoked and another pair issued, with which the session of the
\* request's cookie is answered.
RefreshSwap(t) ==
  /\ At(t, "found", {"refresh"})
  /\ Issue
  /\ live' = (live \ {Carried(t).pair}) \cup {New}
  /\ \E reached \in BOOLEAN :
       /\ Call(reached)
       /\ late' = (late \/ ~reached)
       /\ IF reached THEN Set(t, [Carried(t) EXCEPT !.pair = New]) ELSE ToLogin(t)
  /\ UNCHANGED <<jar, clicks, chosen, left>>

----------------------------------------------------------------------------
Progress(t) ==
  \/ Receive(t) \/ Follow(t) \/ Page(t) \/ Form(t) \/ Refuse(t)
  \/ Switch(t) \/ Create(t) \/ Login(t) \/ Register(t) \/ Logout(t)
  \/ RefreshRead(t) \/ RefreshSwap(t)

Next ==
  \/ \E t \in Tabs : Click(t) \/ Progress(t)
  \/ \E p \in 1..MaxPairs : Expire(p)

Spec == Init /\ [][Next]_vars

\* Every request is answered, and every answer arrives.
FairSpec == Spec /\ \A t \in Tabs : WF_vars(Progress(t))
----------------------------------------------------------------------------
(* Properties *)

TypeOK ==
  /\ jar \in Session \cup {Null} /\ chosen \in Orgs
  /\ live \cup fresh \cup left \subseteq 1..issued
  /\ \A t \in Tabs :
       /\ tab[t].pc \in {"rest", "login", "sent", "redirected", "found", "answered"}
       /\ tab[t].kind \in Kinds /\ tab[t].cookie \in Session \cup {Null}

\* No answer that sets the cookie is on its way.
Settled == \A t \in Tabs : tab[t].pc # "answered"

Held == {p \in live : jar # Null /\ jar.pair = p}

\* However the requests of the tabs overlap: unless an answer was lost or has
\* overwritten a cookie newer than the one its request carried, the browser holds
\* a session that the server still knows, in the organisation that was chosen
\* last, and holds every session that it has not left unrevoked; so after a
\* sign-out there is none.
SessionKept ==
  Settled /\ ~late =>
    /\ jar # Null => Held # {} /\ jar.org = chosen
    /\ live \subseteq left \cup Held

Sound == TypeOK /\ SessionKept

\* Between pages, refreshes and the login page there is no endless redirect.
ComesToRest == \A t \in Tabs : []<>(tab[t].pc \in {"rest", "login"})
=============================================================================
