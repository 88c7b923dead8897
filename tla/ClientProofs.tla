---------------------------- MODULE ClientProofs ----------------------------
(***************************************************************************)
(* Proofs about the two clients that keep a session and renew it: the      *)
(* browser (WebSession) and the programs on a developer's machine          *)
(* (Clients).                                                              *)
(*                                                                         *)
(* WebSession: unless an answer is lost or overwrites a newer cookie, the  *)
(* browser keeps a session that the server knows, in the organisation      *)
(* chosen last, and leaves none behind unrevoked.  The inductive invariant *)
(* says what an answer on its way brings, compared with the cookie that    *)
(* its request carried, and that nobody but its tab knows a pair that it   *)
(* brings.                                                                 *)
(*                                                                         *)
(* Clients: what the user is told of a change is true, and the stored      *)
(* session can be exchanged unless something ended it that cannot write    *)
(* the file.  The first needs the shape of every flow (nothing follows the *)
(* change, a session is stored as soon as it is there); the second that a  *)
(* new session has one holder until it is in the file.                     *)
(***************************************************************************)
EXTENDS WebSession, Clients, FiniteSetTheorems, TLAPS

-----------------------------------------------------------------------------
(* WebSession *)

Cookies == Session \cup {Null}

Requested ==
  [pc : {"rest", "login", "sent", "redirected", "found", "answered"},
   kind : Kinds, cookie : Cookies, org : Orgs, set : Cookies]

Types ==
  /\ jar \in Cookies /\ chosen \in Orgs
  /\ tab \in [Tabs -> Requested]
  /\ issued \in 0..MaxPairs
  /\ live \subseteq 1..issued /\ fresh \subseteq 1..issued /\ left \subseteq 1..issued
  /\ late \in BOOLEAN

\* Cookie c holds the pair p.
Holds(c, p) == c # Null /\ c.pair = p

\* No cookie holds a pair that has not been issued.
Issued ==
  /\ jar # Null => jar.pair <= issued
  /\ \A t \in Tabs :
       /\ tab[t].cookie # Null => tab[t].cookie.pair <= issued
       /\ tab[t].pc = "answered" /\ tab[t].set # Null => tab[t].set.pair <= issued

Found(t) == tab[t].pc = "found" => tab[t].kind = "refresh" /\ tab[t].cookie # Null

\* The tab's request has been answered.
Answered(t, kinds) == tab[t].pc = "answered" /\ tab[t].kind \in kinds

Issuing == {"login", "register", "refresh"}

\* What the answer sets, and what its request has done to the pair it carried
AnswerOK(t) ==
  /\ tab[t].pc = "answered" =>
       tab[t].kind \in Issuing \cup {"switch", "create", "logout"}
  /\ Answered(t, {"switch", "create"}) =>
       /\ tab[t].cookie # Null /\ tab[t].set # Null
       /\ tab[t].set.pair = tab[t].cookie.pair
  /\ Answered(t, Issuing) => tab[t].set # Null
  /\ Answered(t, {"refresh"}) =>
       /\ tab[t].cookie # Null /\ tab[t].set.org = tab[t].cookie.org
       /\ tab[t].cookie.pair \notin live
  /\ Answered(t, {"logout"}) =>
       /\ tab[t].set = Null
       /\ tab[t].cookie # Null =>
            tab[t].cookie.pair \notin live \/ tab[t].cookie.pair \in left

\* A pair on its way is in force, and known to nobody else.
OwnPair(t) ==
  Answered(t, Issuing) =>
    /\ tab[t].set.pair \in live
    /\ ~Holds(jar, tab[t].set.pair)
    /\ \A u \in Tabs : ~Holds(tab[u].cookie, tab[t].set.pair)
    /\ \A u \in Tabs \ {t} :
         Answered(u, Issuing) => tab[u].set.pair # tab[t].set.pair

\* The pair of the cookie is in force, unless an answer is on its way to the
\* request that has taken it back.
JarKnown ==
  jar # Null =>
    \/ jar.pair \in live
    \/ \E t \in Tabs :
         Answered(t, {"refresh", "logout"}) /\ Holds(tab[t].cookie, jar.pair)

JarChosen == jar # Null => jar.org = chosen

\* Every pair in force is in the cookie, or on its way, or left.
AllHeld ==
  \A p \in live :
    \/ p \in left \/ Holds(jar, p)
    \/ \E t \in Tabs : Answered(t, Issuing) /\ tab[t].set.pair = p

Kept == ~late => JarKnown /\ JarChosen /\ AllHeld

Tracked == \A t \in Tabs : Found(t) /\ AnswerOK(t) /\ OwnPair(t)

IInv == Types /\ Issued /\ Tracked /\ Kept

----------------------------------------------------------------------------
(* Steps that bring no answer *)

\* One tab changes and the others stay.
LEMMA OneTab ==
  ASSUME Types, NEW t \in Tabs, NEW q, tab' = [tab EXCEPT ![t] = q]
  PROVE  /\ tab'[t] = q
         /\ \A u \in Tabs \ {t} : tab'[u] = tab[u]
         /\ q \in Requested => tab' \in [Tabs -> Requested]
BY DEF Types

\* A request goes on, or ends, and the server has changed nothing.
LEMMA RequestStep ==
  ASSUME IInv, NEW t \in Tabs, NEW q \in Requested,
         tab[t].pc # "answered", q.pc # "answered",
         q.pc = "found" => q.kind = "refresh" /\ q.cookie # Null,
         q.cookie \in {Null, jar, tab[t].cookie},
         tab' = [tab EXCEPT ![t] = q], UNCHANGED <<jar, server, history>>
  PROVE  IInv'
<1>0. Types /\ Issued /\ Tracked /\ Kept
  BY DEF IInv
<1>1. /\ tab'[t] = q /\ \A u \in Tabs \ {t} : tab'[u] = tab[u]
      /\ tab' \in [Tabs -> Requested]
  BY <1>0, OneTab
<1>2. /\ jar' = jar /\ issued' = issued /\ live' = live /\ fresh' = fresh
      /\ chosen' = chosen /\ left' = left /\ late' = late
  BY DEF server, history
<1>3. Types'
  BY <1>0, <1>1, <1>2 DEF Types
<1>4. Issued'
  BY <1>0, <1>1, <1>2 DEF Issued
<1>5. ASSUME NEW u \in Tabs
      PROVE  Found(u)' /\ AnswerOK(u)' /\ OwnPair(u)'
  <2>0. Found(u) /\ AnswerOK(u) /\ OwnPair(u)
    BY <1>0 DEF Tracked
  <2>1. CASE u = t
    BY <1>1, <2>1 DEF Found, AnswerOK, OwnPair, Answered
  <2>2. CASE u # t
    <3>1. tab'[u] = tab[u]
      BY <1>1, <2>2
    <3>2. Found(u)' /\ AnswerOK(u)'
      BY <1>2, <2>0, <3>1 DEF Found, AnswerOK, Answered
    <3>3. OwnPair(u)'
      <4> SUFFICES ASSUME Answered(u, Issuing)'
                   PROVE  /\ tab[u].set.pair \in live
                          /\ ~Holds(jar, tab[u].set.pair)
                          /\ \A w \in Tabs : ~Holds(tab'[w].cookie, tab[u].set.pair)
                          /\ \A w \in Tabs \ {u} : Answered(w, Issuing)' =>
                               tab'[w].set.pair # tab[u].set.pair
        BY <1>2, <3>1 DEF OwnPair, Holds
      <4>1. Answered(u, Issuing)
        BY <3>1 DEF Answered
      <4>2. \A w \in Tabs : ~Holds(tab'[w].cookie, tab[u].set.pair)
        <5>1. ~Holds(q.cookie, tab[u].set.pair)
          BY <2>0, <4>1 DEF OwnPair, Holds
        <5> QED
          BY <1>1, <2>0, <4>1, <5>1 DEF OwnPair
      <4>3. \A w \in Tabs \ {u} : Answered(w, Issuing)' =>
              Answered(w, Issuing) /\ tab'[w] = tab[w]
        BY <1>1 DEF Answered
      <4> QED
        BY <2>0, <4>1, <4>2, <4>3 DEF OwnPair
    <3> QED
      BY <3>2, <3>3
  <2> QED
    BY <2>1, <2>2
<1>6. \A u \in Tabs, kinds \in {{"refresh", "logout"}, Issuing} :
        Answered(u, kinds) => Answered(u, kinds)' /\ tab'[u] = tab[u]
  BY <1>1 DEF Answered
<1>7. Kept'
  <2> SUFFICES ASSUME ~late
               PROVE  JarKnown' /\ JarChosen' /\ AllHeld'
    BY <1>2 DEF Kept
  <2>1. JarKnown /\ JarChosen /\ AllHeld
    BY <1>0 DEF Kept
  <2>2. JarKnown'
    BY <1>2, <1>6, <2>1 DEF JarKnown, Holds
  <2>3. JarChosen'
    BY <1>2, <2>1 DEF JarChosen
  <2>4. AllHeld'
    BY <1>2, <1>6, <2>1 DEF AllHeld, Holds
  <2> QED
    BY <2>2, <2>3, <2>4
<1> QED
  BY <1>3, <1>4, <1>5, <1>7 DEF IInv, Tracked

----------------------------------------------------------------------------
(* Steps that bring an answer *)

\* A request ends at the server, which may have taken back the pair that it
\* carries (gone) and issued another (new); its answer is on its way or lost.
LEMMA AnswerStep ==
  ASSUME IInv, NEW t \in Tabs, NEW q \in Requested,
         tab[t].pc # "answered", q.pc # "found", q.cookie \in {Null, tab[t].cookie},
         NEW gone \in SUBSET live, \A p \in gone : Holds(tab[t].cookie, p),
         NEW new \in SUBSET {issued + 1},
         issued' = IF new = {} THEN issued ELSE issued + 1, issued' <= MaxPairs,
         live' = (live \ gone) \cup new, fresh' = fresh \cup new,
         left \subseteq left', left' \subseteq 1..issued',
         late' \in BOOLEAN, late => late',
         tab' = [tab EXCEPT ![t] = q], UNCHANGED <<jar, chosen>>,
         \* what the answer says
         q.pc = "answered" =>
           /\ q.kind \in Issuing \cup {"switch", "create", "logout"}
           /\ q.kind \in {"switch", "create"} =>
                q.cookie # Null /\ q.set # Null /\ q.set.pair = q.cookie.pair
           /\ q.kind \in Issuing => q.set # Null /\ q.set.pair \in new
           /\ q.kind = "refresh" =>
                /\ q.cookie # Null /\ q.set.org = q.cookie.org
                /\ q.cookie.pair \notin live \ gone
           /\ q.kind = "logout" =>
                /\ q.set = Null
                /\ q.cookie # Null =>
                     q.cookie.pair \notin live \ gone \/ q.cookie.pair \in left',
         \* nothing is forgotten
         ~late' => /\ gone = {} \/ ( /\ q.pc = "answered" /\ q.cookie = tab[t].cookie
                                     /\ q.kind \in {"refresh", "logout"} )
                   /\ new \subseteq left' \/ (q.pc = "answered" /\ q.kind \in Issuing)
  PROVE  IInv'
<1>0. Types /\ Issued /\ Tracked /\ Kept
  BY DEF IInv
<1>1. /\ tab'[t] = q /\ \A u \in Tabs \ {t} : tab'[u] = tab[u]
      /\ tab' \in [Tabs -> Requested]
  BY <1>0, OneTab
<1>2. issued \in Nat /\ MaxPairs \in Nat /\ issued' \in issued..issued + 1
  BY <1>0, BoundAssumption DEF Types
<1>3. \A p \in new : p = issued + 1 /\ issued' = issued + 1
  OBVIOUS
<1>4. \A p \in 1..issued : p # issued + 1 /\ p \in 1..issued'
  BY <1>2
<1>5. \A p \in new : p \in 1..issued'
  BY <1>2, <1>3
<1>6. Types'
  <2>1. live' \subseteq 1..issued' /\ fresh' \subseteq 1..issued'
    BY <1>0, <1>4, <1>5 DEF Types
  <2>2. issued' \in 0..MaxPairs
    BY <1>2
  <2> QED
    BY <1>0, <1>1, <2>1, <2>2 DEF Types
\* Cookies hold pairs that had been issued.
<1>7. \A c \in Cookies : c # Null => c.pair \in Nat
  BY DEF Cookies, Session
<1>8. /\ ~Holds(jar, issued + 1)
      /\ \A u \in Tabs : ~Holds(tab[u].cookie, issued + 1)
      /\ \A u \in Tabs : Answered(u, Issuing) => tab[u].set.pair # issued + 1
  <2>1. \A u \in Tabs : tab[u].cookie \in Cookies /\ tab[u].set \in Cookies
    BY <1>0 DEF Types, Requested
  <2>2. \A c \in Cookies : c # Null /\ c.pair <= issued => ~Holds(c, issued + 1)
    BY <1>2, <1>7 DEF Holds
  <2>3. /\ jar # Null => jar.pair <= issued
        /\ \A u \in Tabs : tab[u].cookie # Null => tab[u].cookie.pair <= issued
    BY <1>0 DEF Issued
  <2>4. jar \in Cookies
    BY <1>0 DEF Types
  <2>5. ASSUME NEW u \in Tabs, Answered(u, Issuing)
        PROVE  tab[u].set.pair # issued + 1
    <3>1. tab[u].set # Null
      BY <1>0, <2>5 DEF Tracked, AnswerOK
    <3>2. tab[u].set.pair <= issued
      BY <1>0, <2>5, <3>1 DEF Issued, Answered
    <3> QED
      BY <1>2, <1>7, <2>1, <3>1, <3>2
  <2> QED
    BY <2>1, <2>2, <2>3, <2>4, <2>5 DEF Holds
<1>9. Issued'
  <2>1. \A n \in Nat : n <= issued => n <= issued'
    BY <1>2
  <2>2. \A c \in Cookies : c # Null /\ c.pair <= issued => c.pair <= issued'
    BY <1>7, <2>1
  <2>3. jar' # Null => jar'.pair <= issued'
    BY <1>0, <2>2 DEF Issued, Types
  <2>4. ASSUME NEW u \in Tabs
        PROVE  /\ tab[u].cookie # Null => tab[u].cookie.pair <= issued'
               /\ tab[u].pc = "answered" /\ tab[u].set # Null => tab[u].set.pair <= issued'
    <3>1. tab[u].cookie \in Cookies /\ tab[u].set \in Cookies
      BY <1>0 DEF Types, Requested
    <3> QED
      BY <1>0, <2>2, <3>1 DEF Issued
  <2>5. q.cookie # Null => q.cookie.pair <= issued'
    BY <2>4
  <2>6. q.pc = "answered" /\ q.set # Null => q.set.pair <= issued'
    <3>1. CASE q.kind \in {"switch", "create"}
      BY <2>5, <3>1
    <3>2. CASE q.kind \in Issuing
      <4>1. q.pc = "answered" => q.set.pair = issued'
        BY <1>3, <3>2
      <4> QED
        BY <1>2, <4>1
    <3> QED
      BY <3>1, <3>2
  <2> QED
    BY <1>1, <2>3, <2>4, <2>5, <2>6 DEF Issued
<1>10. ASSUME NEW u \in Tabs \ {t}
       PROVE  Found(u)' /\ AnswerOK(u)' /\ OwnPair(u)'
  <2>0. Found(u) /\ AnswerOK(u) /\ OwnPair(u) /\ tab'[u] = tab[u]
    BY <1>0, <1>1 DEF Tracked
  <2>1. tab[u].cookie # Null /\ tab[u].cookie.pair \notin live
          => tab[u].cookie.pair \notin live'
    BY <1>3, <1>8 DEF Holds
  <2>2. Found(u)' /\ AnswerOK(u)'
    BY <2>0, <2>1 DEF Found, AnswerOK, Answered
  <2>3. OwnPair(u)'
    <3> SUFFICES ASSUME Answered(u, Issuing)
                 PROVE  /\ tab[u].set.pair \in live'
                        /\ ~Holds(jar, tab[u].set.pair)
                        /\ \A w \in Tabs : ~Holds(tab'[w].cookie, tab[u].set.pair)
                        /\ \A w \in Tabs \ {u} : Answered(w, Issuing)' =>
                             tab'[w].set.pair # tab[u].set.pair
      BY <2>0 DEF OwnPair, Holds, Answered
    <3>1. tab[u].set.pair \in live'
      BY <2>0 DEF OwnPair
    <3>2. \A w \in Tabs : ~Holds(tab'[w].cookie, tab[u].set.pair)
      <4>1. ~Holds(q.cookie, tab[u].set.pair)
        BY <2>0 DEF OwnPair, Holds
      <4> QED
        BY <1>1, <2>0, <4>1 DEF OwnPair
    <3>3. ASSUME NEW w \in Tabs \ {u}, Answered(w, Issuing)'
          PROVE  tab'[w].set.pair # tab[u].set.pair
      <4>1. CASE w = t
        BY <1>1, <1>3, <1>8, <3>3, <4>1 DEF Answered
      <4>2. CASE w # t
        BY <1>1, <2>0, <3>3, <4>2 DEF Answered, OwnPair
      <4> QED
        BY <4>1, <4>2
    <3> QED
      BY <2>0, <3>1, <3>2, <3>3 DEF OwnPair
  <2> QED
    BY <2>2, <2>3
<1>11. Found(t)' /\ AnswerOK(t)' /\ OwnPair(t)'
  <2>1. Found(t)'
    BY <1>1 DEF Found
  <2>2. q.cookie # Null /\ q.cookie.pair \notin live \ gone => q.cookie.pair \notin live'
    BY <1>3, <1>8 DEF Holds
  <2>3. AnswerOK(t)'
    BY <1>1, <2>2 DEF AnswerOK, Answered
  <2>4. OwnPair(t)'
    <3> SUFFICES ASSUME q.pc = "answered", q.kind \in Issuing
                 PROVE  /\ q.set.pair \in live'
                        /\ ~Holds(jar, q.set.pair)
                        /\ \A w \in Tabs : ~Holds(tab'[w].cookie, q.set.pair)
                        /\ \A w \in Tabs \ {t} : Answered(w, Issuing)' =>
                             tab'[w].set.pair # q.set.pair
      BY <1>1 DEF OwnPair, Holds, Answered
    <3>1. q.set.pair \in new /\ q.set.pair = issued + 1
      OBVIOUS
    <3>2. ~Holds(q.cookie, q.set.pair)
      BY <1>8, <3>1 DEF Holds
    <3> QED
      BY <1>1, <1>8, <3>1, <3>2 DEF Answered
  <2> QED
    BY <2>1, <2>3, <2>4
<1>12. Kept'
  <2> SUFFICES ASSUME ~late'
               PROVE  JarKnown' /\ JarChosen' /\ AllHeld'
    BY DEF Kept
  <2>1. JarKnown /\ JarChosen /\ AllHeld
    BY <1>0 DEF Kept
  <2>2. \A u \in Tabs, kinds \in {{"refresh", "logout"}, Issuing} :
          Answered(u, kinds) => Answered(u, kinds)' /\ tab'[u] = tab[u]
    BY <1>1 DEF Answered
  <2>3. JarKnown'
    <3> SUFFICES ASSUME jar # Null, jar.pair \notin live'
                 PROVE  \E u \in Tabs : /\ Answered(u, {"refresh", "logout"})'
                                        /\ Holds(tab'[u].cookie, jar.pair)
      BY DEF JarKnown, Holds
    <3>1. CASE jar.pair \in gone
      BY <1>1, <3>1 DEF Answered
    <3>2. CASE jar.pair \notin gone
      <4>1. jar.pair \notin live
        BY <3>2
      <4>2. PICK u \in Tabs :
              Answered(u, {"refresh", "logout"}) /\ Holds(tab[u].cookie, jar.pair)
        BY <2>1, <4>1 DEF JarKnown
      <4> QED
        BY <2>2, <4>2
    <3> QED
      BY <3>1, <3>2
  <2>4. JarChosen'
    BY <2>1 DEF JarChosen
  <2>5. AllHeld'
    <3> SUFFICES ASSUME NEW p \in live', p \notin left', ~Holds(jar, p)
                 PROVE  \E u \in Tabs : Answered(u, Issuing)' /\ tab'[u].set.pair = p
      BY DEF AllHeld, Holds
    <3>1. CASE p \in new
      <4>1. q.pc = "answered" /\ q.kind \in Issuing
        BY <3>1
      <4>2. q.set.pair = p
        BY <1>3, <3>1, <4>1
      <4> QED
        BY <1>1, <4>1, <4>2 DEF Answered
    <3>2. CASE p \notin new
      <4>1. PICK u \in Tabs : Answered(u, Issuing) /\ tab[u].set.pair = p
        BY <2>1, <3>2 DEF AllHeld
      <4> QED
        BY <2>2, <4>1
    <3> QED
      BY <3>1, <3>2
  <2> QED
    BY <2>3, <2>4, <2>5
<1>13. Tracked'
  BY <1>10, <1>11 DEF Tracked
<1> QED
  BY <1>6, <1>9, <1>12, <1>13 DEF IInv

\* The answer arrives.
LEMMA ReceiveStep ==
  ASSUME IInv, NEW t \in Tabs, Receive(t)
  PROVE  IInv'
<1> DEFINE c == tab[t].cookie
           s == tab[t].set
           k == tab[t].kind
           q == IF s = Null THEN [Quiet EXCEPT !.pc = "login"]
                            ELSE Request("page", s, Home)
<1>0. Types /\ Issued /\ Tracked /\ Kept
  BY DEF IInv
<1>1. /\ tab[t].pc = "answered" /\ jar' = s
      /\ late' = (late \/ jar # c)
      /\ left' = left \cup {p \in live : k \in {"login", "register"} /\ jar # Null /\ jar.pair = p}
      /\ chosen' = IF k \in {"switch", "create", "login", "register"} THEN s.org ELSE chosen
      /\ tab' = [tab EXCEPT ![t] = q]
      /\ issued' = issued /\ live' = live /\ fresh' = fresh
  BY DEF Receive, Carried, ToLogin, Load, server
<1>2. /\ s \in Cookies /\ c \in Cookies /\ k \in Kinds
      /\ q \in Requested /\ q.cookie = s /\ q.pc \in {"login", "sent"}
  <2>1. s \in Cookies /\ c \in Cookies /\ k \in Kinds
    BY <1>0 DEF Types, Requested
  <2>2. Home \in Orgs
    BY HomeAssumption
  <2> QED
    BY <2>1, <2>2 DEF Requested, Request, Quiet, Kinds, Cookies
<1>3. AnswerOK(t) /\ OwnPair(t)
  BY <1>0 DEF Tracked
<1>4. /\ k \in Issuing \cup {"switch", "create", "logout"}
      /\ k \in {"switch", "create"} => c # Null /\ s # Null /\ s.pair = c.pair
      /\ k \in Issuing => s # Null /\ s.pair \in live
      /\ k = "refresh" => c # Null /\ s.org = c.org /\ c.pair \notin live
      /\ k = "logout" => s = Null /\ (c # Null => c.pair \notin live \/ c.pair \in left)
  BY <1>1, <1>3 DEF AnswerOK, OwnPair, Answered
<1>5. s # Null => s \in Session
  BY <1>2 DEF Cookies
<1> HIDE DEF q
<1>6. /\ tab'[t] = q /\ \A u \in Tabs \ {t} : tab'[u] = tab[u]
      /\ tab' \in [Tabs -> Requested]
  BY <1>0, <1>1, <1>2, OneTab
<1>7. Types'
  <2>1. chosen' \in Orgs
    BY <1>0, <1>1, <1>4, <1>5 DEF Types, Session, Issuing
  <2>2. left' \subseteq 1..issued
    BY <1>0, <1>1 DEF Types
  <2>3. late' \in BOOLEAN
    BY <1>1
  <2> QED
    BY <1>0, <1>1, <1>2, <1>6, <2>1, <2>2, <2>3 DEF Types
<1>8. Issued'
  <2>1. s # Null => s.pair <= issued
    BY <1>0, <1>1 DEF Issued
  <2> QED
    BY <1>0, <1>1, <1>2, <1>6, <2>1 DEF Issued
<1>9. ASSUME NEW u \in Tabs
      PROVE  Found(u)' /\ AnswerOK(u)' /\ OwnPair(u)'
  <2>1. CASE u = t
    BY <1>2, <1>6, <2>1 DEF Found, AnswerOK, OwnPair, Answered
  <2>2. CASE u # t
    <3>0. Found(u) /\ AnswerOK(u) /\ OwnPair(u) /\ tab'[u] = tab[u]
      BY <1>0, <1>6, <2>2 DEF Tracked
    <3>1. Found(u)' /\ AnswerOK(u)'
      BY <1>1, <3>0 DEF Found, AnswerOK, Answered
    <3>2. OwnPair(u)'
      <4> SUFFICES ASSUME Answered(u, Issuing)
                   PROVE  /\ tab[u].set.pair \in live
                          /\ ~Holds(s, tab[u].set.pair)
                          /\ \A w \in Tabs : ~Holds(tab'[w].cookie, tab[u].set.pair)
                          /\ \A w \in Tabs \ {u} : Answered(w, Issuing)' =>
                               tab'[w].set.pair # tab[u].set.pair
        BY <1>1, <3>0 DEF OwnPair, Holds, Answered
      <4>1. ~Holds(s, tab[u].set.pair)
        <5>1. CASE k \in Issuing
          BY <1>1, <2>2, <3>0, <5>1 DEF OwnPair, Holds, Answered
        <5>2. CASE k \in {"switch", "create"}
          BY <1>4, <3>0, <5>2 DEF OwnPair, Holds
        <5>3. CASE k = "logout"
          BY <1>4, <5>3 DEF Holds
        <5> QED
          BY <1>4, <5>1, <5>2, <5>3
      <4>2. \A w \in Tabs : ~Holds(tab'[w].cookie, tab[u].set.pair)
        BY <1>2, <1>6, <3>0, <4>1 DEF OwnPair
      <4>3. \A w \in Tabs \ {u} : Answered(w, Issuing)' =>
              Answered(w, Issuing) /\ tab'[w] = tab[w]
        BY <1>2, <1>6 DEF Answered
      <4> QED
        BY <3>0, <4>1, <4>2, <4>3 DEF OwnPair
    <3> QED
      BY <3>1, <3>2
  <2> QED
    BY <2>1, <2>2
<1>10. Kept'
  <2> SUFFICES ASSUME ~late, jar = c
               PROVE  JarKnown' /\ JarChosen' /\ AllHeld'
    BY <1>1 DEF Kept
  <2>1. JarKnown /\ JarChosen /\ AllHeld
    BY <1>0 DEF Kept
  <2>2. \A u \in Tabs \ {t}, kinds \in {{"refresh", "logout"}, Issuing} :
          Answered(u, kinds) => Answered(u, kinds)' /\ tab'[u] = tab[u]
    BY <1>6 DEF Answered
  <2>3. JarKnown'
    <3> SUFFICES ASSUME s # Null, s.pair \notin live
                 PROVE  \E u \in Tabs : /\ Answered(u, {"refresh", "logout"})'
                                        /\ Holds(tab'[u].cookie, s.pair)
      BY <1>1 DEF JarKnown, Holds
    <3>1. k \in {"switch", "create"} /\ jar # Null /\ jar.pair = s.pair
      BY <1>4
    <3>2. PICK u \in Tabs :
            Answered(u, {"refresh", "logout"}) /\ Holds(tab[u].cookie, s.pair)
      BY <2>1, <3>1 DEF JarKnown
    <3>3. u # t
      BY <3>1, <3>2 DEF Answered
    <3> QED
      BY <2>2, <3>2, <3>3
  <2>4. JarChosen'
    BY <1>1, <1>4, <2>1 DEF JarChosen, Issuing
  <2>5. AllHeld'
    <3> SUFFICES ASSUME NEW p \in live, p \notin left', ~Holds(s, p)
                 PROVE  \E u \in Tabs : Answered(u, Issuing)' /\ tab'[u].set.pair = p
      BY <1>1 DEF AllHeld, Holds
    <3>1. ~Holds(jar, p)
      BY <1>1, <1>4 DEF Holds, Issuing
    <3>2. PICK u \in Tabs : Answered(u, Issuing) /\ tab[u].set.pair = p
      BY <1>1, <2>1, <3>1 DEF AllHeld
    <3>3. u # t
      BY <1>4, <3>2 DEF Holds, Answered
    <3> QED
      BY <2>2, <3>2, <3>3
  <2> QED
    BY <2>3, <2>4, <2>5
<1> QED
  BY <1>7, <1>8, <1>9, <1>10 DEF IInv, Tracked

----------------------------------------------------------------------------
(* Each action is one of these steps *)

\* The requests that the model makes are requests.
LEMMA Shapes ==
  ASSUME Types, NEW t \in Tabs
  PROVE  /\ tab[t] \in Requested
         /\ Quiet \in Requested /\ [Quiet EXCEPT !.pc = "login"] \in Requested
         /\ \A kind \in Kinds, c \in Cookies, org \in Orgs :
              Request(kind, c, org) \in Requested
         /\ \A pc \in {"redirected", "found"} : [tab[t] EXCEPT !.pc = pc] \in Requested
         /\ \A c \in Cookies :
              [tab[t] EXCEPT !.pc = "answered", !.set = c] \in Requested
<1>1. tab[t] \in Requested
  BY DEF Types
<1>2. /\ Quiet \in Requested /\ [Quiet EXCEPT !.pc = "login"] \in Requested
      /\ \A kind \in Kinds, c \in Cookies, org \in Orgs :
           Request(kind, c, org) \in Requested
  BY HomeAssumption DEF Requested, Quiet, Request, Cookies, Kinds
<1>3. /\ \A pc \in {"redirected", "found"} : [tab[t] EXCEPT !.pc = pc] \in Requested
      /\ \A c \in Cookies : [tab[t] EXCEPT !.pc = "answered", !.set = c] \in Requested
  BY <1>1 DEF Requested
<1> QED
  BY <1>1, <1>2, <1>3

LEMMA ToLoginStep ==
  ASSUME IInv, NEW t \in Tabs, tab[t].pc # "answered", UNCHANGED <<jar, server, history>>,
         ToLogin(t) \/ Rest(t)
  PROVE  IInv'
<1>1. Types
  BY DEF IInv
<1>2. PICK q \in {Quiet, [Quiet EXCEPT !.pc = "login"]} : tab' = [tab EXCEPT ![t] = q]
  BY DEF ToLogin, Rest
<1>3. q \in Requested /\ q.pc \in {"rest", "login"} /\ q.cookie = Null
  <2>1. q \in Requested
    BY <1>1, Shapes
  <2> QED
    BY <2>1 DEF Quiet
<1> QED
  BY <1>2, <1>3, RequestStep

LEMMA LoadStep ==
  ASSUME IInv, NEW t \in Tabs, tab[t].pc # "answered", UNCHANGED <<jar, server, history>>,
         NEW kind \in Kinds, NEW org \in Orgs,
         tab' = [tab EXCEPT ![t] = Request(kind, jar, org)]
  PROVE  IInv'
<1>1. Types /\ jar \in Cookies
  BY DEF IInv, Types
<1> DEFINE q == Request(kind, jar, org)
<1>2. q \in Requested /\ q.pc = "sent" /\ q.cookie = jar
  BY <1>1, Shapes DEF Request
<1> HIDE DEF q
<1>3. tab' = [tab EXCEPT ![t] = q]
  BY DEF q
<1> QED
  BY <1>2, <1>3, RequestStep

\* Its own request goes on.
LEMMA OnwardStep ==
  ASSUME IInv, NEW t \in Tabs, tab[t].pc # "answered", UNCHANGED <<jar, server, history>>,
         NEW pc \in {"redirected", "found"},
         pc = "found" => tab[t].kind = "refresh" /\ tab[t].cookie # Null,
         tab' = [tab EXCEPT ![t].pc = pc]
  PROVE  IInv'
<1> DEFINE q == [tab[t] EXCEPT !.pc = pc]
<1>1. Types
  BY DEF IInv
<1>2. q \in Requested
  BY <1>1, Shapes
<1>3. q.pc = pc /\ q.kind = tab[t].kind /\ q.cookie = tab[t].cookie
  BY <1>1 DEF Types, Requested
<1>4. tab' = [tab EXCEPT ![t] = q]
  OBVIOUS
<1> HIDE DEF q
<1> QED
  BY <1>2, <1>3, <1>4, RequestStep

\* An answer to a request that has changed nothing at the server: another
\* organisation with the same pair
LEMMA SameStep ==
  ASSUME IInv, NEW t \in Tabs, tab[t].pc # "answered", UNCHANGED <<jar, server, history>>,
         tab[t].kind \in {"switch", "create"}, Carried(t) # Null,
         Set(t, [Carried(t) EXCEPT !.org = tab[t].org, !.known = TRUE])
  PROVE  IInv'
<1> DEFINE c == [Carried(t) EXCEPT !.org = tab[t].org, !.known = TRUE]
           q == [tab[t] EXCEPT !.pc = "answered", !.set = c]
<1>1. Types /\ tab[t] \in Requested
  BY DEF IInv, Types
<1>2. tab[t].cookie \in Session /\ tab[t].org \in Orgs
  BY <1>1 DEF Carried, Requested, Cookies
<1>3. c \in Session /\ c.pair = tab[t].cookie.pair /\ c # Null
  BY <1>2, NullAssumption DEF Session, Carried
<1>4. q \in Requested
  BY <1>1, <1>3, Shapes DEF Cookies
<1>5. tab' = [tab EXCEPT ![t] = q]
  BY DEF Set
<1> HIDE DEF c
<1>6. /\ q.pc = "answered" /\ q.kind = tab[t].kind /\ q.cookie = tab[t].cookie
      /\ q.set = c
  BY <1>1 DEF Requested
<1> HIDE DEF q
<1>7. /\ {} \in SUBSET live /\ {} \in SUBSET {issued + 1}
      /\ issued' = issued /\ issued' <= MaxPairs /\ live' = (live \ {}) \cup {}
      /\ fresh' = fresh \cup {} /\ left \subseteq left' /\ left' \subseteq 1..issued'
      /\ late' \in BOOLEAN /\ late' = late /\ UNCHANGED <<jar, chosen>>
  BY <1>1, BoundAssumption DEF Types, server, history
<1>8. q.kind \notin Issuing \cup {"logout"} /\ q.cookie # Null
  BY <1>6 DEF Issuing, Carried
<1> QED
  BY <1>3, <1>4, <1>5, <1>6, <1>7, <1>8, AnswerStep DEF Issuing

LEMMA BrowserStep ==
  ASSUME IInv, NEW t \in Tabs, Click(t) \/ Follow(t)
  PROVE  IInv'
<1>1. CASE Click(t)
  <2>1. PICK kind \in Kinds, org \in Orgs :
          tab[t].pc # "answered" /\ tab' = [tab EXCEPT ![t] = Request(kind, jar, org)]
    BY <1>1 DEF Click
  <2> QED
    BY <1>1, <2>1, LoadStep DEF Click
<1>2. CASE Follow(t)
  <2>1. "refresh" \in Kinds /\ Home \in Orgs
    BY HomeAssumption DEF Kinds
  <2> QED
    BY <1>2, <2>1, LoadStep DEF Follow
<1> QED
  BY <1>1, <1>2

LEMMA PageStep ==
  ASSUME IInv, NEW t \in Tabs, Page(t) \/ Form(t) \/ Refuse(t) \/ RefreshRead(t)
  PROVE  IInv'
<1>0. tab[t].pc # "answered" /\ UNCHANGED <<jar, server, history>>
  BY DEF Page, Form, Refuse, RefreshRead, At
<1>1. CASE ToLogin(t) \/ Rest(t)
  BY <1>0, <1>1, ToLoginStep
<1>2. CASE tab' = [tab EXCEPT ![t].pc = "redirected"]
  BY <1>0, <1>2, OnwardStep
<1>3. CASE /\ tab' = [tab EXCEPT ![t].pc = "found"]
           /\ tab[t].kind = "refresh" /\ Carried(t) # Null
  BY <1>0, <1>3, OnwardStep DEF Carried
<1> QED
  BY <1>1, <1>2, <1>3 DEF Page, Form, Refuse, RefreshRead, At

LEMMA SwitchStep ==
  ASSUME IInv, NEW t \in Tabs, Switch(t) \/ Create(t)
  PROVE  IInv'
<1>0. /\ tab[t].pc # "answered" /\ tab[t].kind \in {"switch", "create"}
      /\ UNCHANGED <<jar, server, history>>
  BY DEF Switch, Create, At
<1>1. CASE ToLogin(t) \/ Rest(t)
  BY <1>0, <1>1, ToLoginStep
<1>2. CASE Load(t, jar)
  <2>1. "page" \in Kinds /\ Home \in Orgs
    BY HomeAssumption DEF Kinds
  <2> QED
    BY <1>0, <1>2, <2>1, LoadStep DEF Load
<1>3. CASE /\ Carried(t) # Null
           /\ Set(t, [Carried(t) EXCEPT !.org = tab[t].org, !.known = TRUE])
  BY <1>0, <1>3, SameStep
<1> QED
  BY <1>1, <1>2, <1>3 DEF Switch, Create

\* The server takes a password, refuses it, or its answer is lost.
LEMMA SignedInStep ==
  ASSUME IInv, NEW t \in Tabs, Login(t) \/ Register(t)
  PROVE  IInv'
<1>0. /\ tab[t].pc # "answered" /\ tab[t].kind \in {"login", "register"}
      /\ SignedIn(t) /\ UNCHANGED <<jar, chosen, late>>
  BY DEF Login, Register, At, SignedIn
<1>1. Types /\ tab[t] \in Requested /\ issued \in Nat /\ left \subseteq 1..issued
  BY BoundAssumption DEF IInv, Types
<1> DEFINE new == {issued + 1}
<1>2. ASSUME Issue, live' = live \cup {New}
      PROVE  /\ {} \in SUBSET live /\ new \in SUBSET {issued + 1}
             /\ new # {} /\ issued' = issued + 1 /\ issued' <= MaxPairs
             /\ live' = (live \ {}) \cup new /\ fresh' = fresh \cup new
             /\ late' \in BOOLEAN /\ late' = late
             /\ left \subseteq 1..issued' /\ issued + 1 \in 1..issued'
             /\ issued + 1 \in 1..MaxPairs
  <2>1. issued' = issued + 1 /\ issued < MaxPairs /\ fresh' = fresh \cup new
    BY <1>2 DEF Issue, New
  <2>2. issued' <= MaxPairs /\ issued + 1 \in 1..MaxPairs /\ issued + 1 \in 1..issued'
    BY <1>1, <2>1, BoundAssumption
  <2>3. left \subseteq 1..issued'
    BY <1>1, <2>1
  <2> QED
    BY <1>0, <1>1, <1>2, <2>1, <2>2, <2>3 DEF New, Types
<1>3. CASE /\ Issue /\ live' = live \cup {New} /\ UNCHANGED left
           /\ Set(t, NewSession(New))
  <2> DEFINE c == NewSession(New)
             q == [tab[t] EXCEPT !.pc = "answered", !.set = c]
  <2>1. c \in Session /\ c.pair = issued + 1 /\ c # Null
    <3>1. New \in 1..MaxPairs /\ New = issued + 1
      BY <1>2, <1>3 DEF New
    <3> HIDE DEF New
    <3>2. c \in Session /\ c.pair = New
      BY <3>1, HomeAssumption DEF NewSession, Session
    <3> QED
      BY <3>1, <3>2, NullAssumption
  <2>2. q \in Requested
    BY <1>1, <2>1, Shapes DEF Cookies
  <2>3. tab' = [tab EXCEPT ![t] = q]
    BY <1>3 DEF Set
  <2> HIDE DEF c
  <2>4. /\ q.pc = "answered" /\ q.kind = tab[t].kind /\ q.cookie = tab[t].cookie
        /\ q.set = c
    BY <1>1 DEF Requested
  <2> HIDE DEF q
  <2>5. q.kind \in Issuing /\ q.kind \notin {"switch", "create", "refresh", "logout"}
    BY <1>0, <2>4 DEF Issuing
  <2>6. left \subseteq left' /\ left' \subseteq 1..issued'
    BY <1>2, <1>3
  <2> HIDE DEF new
  <2>7. q.set.pair \in new
    BY <2>1, <2>4 DEF new
  <2> QED
    BY <1>0, <1>2, <1>3, <2>1, <2>2, <2>3, <2>4, <2>5, <2>6, <2>7, AnswerStep
<1>4. CASE /\ Issue /\ live' = live \cup {New} /\ left' = left \cup {New} /\ ToLogin(t)
  <2> DEFINE q == [Quiet EXCEPT !.pc = "login"]
  <2>1. q \in Requested
    BY <1>1, Shapes
  <2>2. q.pc = "login" /\ q.cookie = Null
    BY DEF Quiet
  <2>3. tab' = [tab EXCEPT ![t] = q]
    BY <1>4 DEF ToLogin
  <2> HIDE DEF q
  <2>4. left \subseteq left' /\ left' \subseteq 1..issued' /\ new \subseteq left'
    BY <1>2, <1>4 DEF New
  <2> HIDE DEF new
  <2> QED
    BY <1>0, <1>2, <1>4, <2>1, <2>2, <2>3, <2>4, AnswerStep
<1>5. CASE ToLogin(t) /\ UNCHANGED <<server, left>>
  BY <1>0, <1>5, ToLoginStep DEF history
<1> QED
  BY <1>0, <1>3, <1>4, <1>5 DEF SignedIn

\* The refresh token is revoked if the server is reached; the cookie will be
\* cleared in any case.
LEMMA LogoutStep ==
  ASSUME IInv, NEW t \in Tabs, Logout(t)
  PROVE  IInv'
<1> DEFINE mine == IF Carried(t) = Null THEN {} ELSE {Carried(t).pair}
           q == [tab[t] EXCEPT !.pc = "answered", !.set = Null]
<1>1. /\ Types /\ Issued /\ tab[t] \in Requested /\ tab[t].cookie \in Cookies
      /\ issued \in Nat /\ live \subseteq 1..issued /\ left \subseteq 1..issued
  BY BoundAssumption DEF IInv, Types, Requested
<1>2. PICK reached \in BOOLEAN :
        /\ live' = IF reached THEN live \ mine ELSE live
        /\ left' = IF reached THEN left ELSE left \cup mine
  BY DEF Logout
<1>3. /\ tab[t].pc = "sent" /\ tab[t].kind = "logout"
      /\ tab' = [tab EXCEPT ![t] = q]
      /\ UNCHANGED <<jar, issued, fresh, chosen, late>>
  BY DEF Logout, At, Set
<1>4. q \in Requested
  BY <1>1, Shapes DEF Cookies
<1>5. /\ q.pc = "answered" /\ q.kind = "logout" /\ q.cookie = tab[t].cookie
      /\ q.set = Null
  BY <1>1, <1>3 DEF Requested
<1> HIDE DEF q
<1>6. mine \subseteq 1..issued
  <2>1. ASSUME tab[t].cookie # Null
        PROVE  tab[t].cookie.pair \in 1..issued
    <3>1. tab[t].cookie.pair <= issued
      BY <1>1, <2>1 DEF Issued
    <3>2. tab[t].cookie.pair \in 1..MaxPairs
      BY <1>1, <2>1 DEF Cookies, Session
    <3> QED
      BY <1>1, <3>1, <3>2, BoundAssumption
  <2> QED
    BY <2>1 DEF Carried
<1>7. \A p \in mine : Holds(tab[t].cookie, p)
  BY DEF Carried, Holds
<1>8. q.cookie # Null => q.cookie.pair \in mine
  BY <1>5 DEF Carried
<1> HIDE DEF mine
<1>9. PICK gone \in SUBSET live :
        /\ live' = live \ gone
        /\ \A p \in gone : p \in mine
        /\ \A p \in mine : p \notin live \ gone \/ p \in left'
  <2>1. CASE reached
    <3>1. live \cap mine \in SUBSET live /\ live' = live \ (live \cap mine)
      BY <1>2, <2>1
    <3> QED
      BY <3>1
  <2>2. CASE ~reached
    <3>1. {} \in SUBSET live /\ live' = live \ {}
      BY <1>2, <2>2
    <3>2. \A p \in mine : p \in left'
      BY <1>2, <2>2
    <3> QED
      BY <3>1, <3>2
  <2> QED
    BY <2>1, <2>2
<1>10. /\ {} \in SUBSET {issued + 1} /\ issued' = issued /\ issued' <= MaxPairs
       /\ live' = (live \ gone) \cup {} /\ fresh' = fresh \cup {}
       /\ left \subseteq left' /\ left' \subseteq 1..issued'
       /\ late' \in BOOLEAN /\ late' = late
  BY <1>1, <1>2, <1>3, <1>6, <1>9, BoundAssumption DEF Types
<1>11. q.kind \notin Issuing \cup {"switch", "create"}
  BY <1>5 DEF Issuing
<1>12. \A p \in gone : Holds(tab[t].cookie, p)
  BY <1>7, <1>9
<1>13. q.cookie # Null =>
         q.cookie.pair \notin live \ gone \/ q.cookie.pair \in left'
  BY <1>8, <1>9
<1>14. /\ tab[t].pc # "answered" /\ q.pc # "found" /\ UNCHANGED <<jar, chosen>>
       /\ q.kind \in Issuing \cup {"switch", "create", "logout"}
       /\ q.kind # "refresh" /\ q.kind \notin {"switch", "create"}
       /\ q.kind \notin Issuing /\ q.kind \in {"refresh", "logout"}
  BY <1>3, <1>5, <1>11 DEF Issuing
<1>15. gone \in SUBSET live /\ q.cookie \in {Null, tab[t].cookie}
       /\ tab' = [tab EXCEPT ![t] = q] /\ q.set = Null
  BY <1>3, <1>5
<1> HIDE DEF Issuing
<1> QED
  BY <1>4, <1>5, <1>10, <1>12, <1>13, <1>14, <1>15, AnswerStep

\* The token is revoked and another pair issued.
LEMMA SwapStep ==
  ASSUME IInv, NEW t \in Tabs, RefreshSwap(t)
  PROVE  IInv'
<1>1. /\ Types /\ tab[t] \in Requested /\ issued \in Nat
      /\ live \subseteq 1..issued /\ left \subseteq 1..issued
      /\ Found(t)
  BY BoundAssumption DEF IInv, Types, Tracked
<1>2. /\ tab[t].pc = "found" /\ tab[t].kind = "refresh" /\ tab[t].cookie # Null
      /\ Issue /\ live' = (live \ {tab[t].cookie.pair}) \cup {New}
      /\ UNCHANGED <<jar, chosen, left>>
  BY <1>1 DEF RefreshSwap, At, Found, Carried
<1>3. tab[t].cookie \in Session
  BY <1>1, <1>2 DEF Requested, Cookies
<1> DEFINE new == {issued + 1}
           gone == live \cap {tab[t].cookie.pair}
<1>4. /\ issued' = issued + 1 /\ issued' <= MaxPairs /\ issued + 1 \in 1..MaxPairs
      /\ fresh' = fresh \cup new
      /\ left \subseteq left' /\ left' \subseteq 1..issued'
  <2>1. issued' = issued + 1 /\ issued < MaxPairs /\ fresh' = fresh \cup new
    BY <1>2 DEF Issue, New
  <2>2. issued' <= MaxPairs /\ issued + 1 \in 1..MaxPairs
    BY <1>1, <2>1, BoundAssumption
  <2>3. left' \subseteq 1..issued'
    BY <1>1, <1>2, <2>1
  <2> QED
    BY <1>2, <2>1, <2>2, <2>3
<1>5. /\ gone \in SUBSET live /\ \A p \in gone : Holds(tab[t].cookie, p)
      /\ live' = (live \ gone) \cup new /\ new \in SUBSET {issued + 1} /\ new # {}
      /\ tab[t].cookie.pair \notin live \ gone
  BY <1>2 DEF Holds, New
<1> HIDE DEF gone
<1>6. CASE late' = late /\ Set(t, [Carried(t) EXCEPT !.pair = New])
  <2> DEFINE c == [Carried(t) EXCEPT !.pair = New]
             q == [tab[t] EXCEPT !.pc = "answered", !.set = c]
  <2>1. c \in Session /\ c.pair = issued + 1 /\ c.org = tab[t].cookie.org /\ c # Null
    BY <1>3, <1>4, NullAssumption DEF Carried, New, Session
  <2>2. q \in Requested
    BY <1>1, <2>1, Shapes DEF Cookies
  <2>3. tab' = [tab EXCEPT ![t] = q]
    BY <1>6 DEF Set
  <2> HIDE DEF c
  <2>4. /\ q.pc = "answered" /\ q.kind = "refresh" /\ q.cookie = tab[t].cookie
        /\ q.set = c
    BY <1>1, <1>2 DEF Requested
  <2> HIDE DEF q
  <2>5. q.set.pair \in new /\ q.kind \in Issuing
    BY <2>1, <2>4 DEF Issuing
  <2>6. late' \in BOOLEAN
    BY <1>1, <1>6 DEF Types
  <2> HIDE DEF new
  <2> QED
    BY <1>2, <1>4, <1>5, <1>6, <2>1, <2>2, <2>3, <2>4, <2>5, <2>6, AnswerStep
<1>7. CASE late' = TRUE /\ ToLogin(t)
  <2> DEFINE q == [Quiet EXCEPT !.pc = "login"]
  <2>1. q \in Requested
    BY <1>1, Shapes
  <2>2. q.pc = "login" /\ q.cookie = Null
    BY DEF Quiet
  <2>3. tab' = [tab EXCEPT ![t] = q]
    BY <1>7 DEF ToLogin
  <2> HIDE DEF q, new
  <2> QED
    BY <1>2, <1>4, <1>5, <1>7, <2>1, <2>2, <2>3, AnswerStep
<1>8. late \in BOOLEAN
  BY <1>1 DEF Types
<1> QED
  BY <1>6, <1>7, <1>8 DEF RefreshSwap

LEMMA ExpireStep ==
  ASSUME IInv, NEW p \in 1..MaxPairs, Expire(p)
  PROVE  IInv'
<1>1. /\ UNCHANGED <<jar, tab, issued, live, chosen, left, late>>
      /\ fresh' \subseteq fresh
  BY DEF Expire, history
<1>2. Types'
  BY <1>1 DEF IInv, Types
<1>3. Issued' /\ Tracked' /\ Kept'
  BY <1>1 DEF IInv, Issued, Tracked, Found, AnswerOK, OwnPair, Kept, JarKnown,
              JarChosen, AllHeld, Answered, Holds
<1> QED
  BY <1>2, <1>3 DEF IInv

LEMMA NextIInv == IInv /\ [Next]_vars => IInv'
<1> SUFFICES ASSUME IInv, [Next]_vars
             PROVE  IInv'
  OBVIOUS
<1>1. ASSUME NEW t \in Tabs, Click(t) \/ Progress(t)
      PROVE  IInv'
  BY <1>1, BrowserStep, ReceiveStep, PageStep, SwitchStep, SignedInStep,
     LogoutStep, SwapStep DEF Progress
<1>2. ASSUME NEW p \in 1..MaxPairs, Expire(p)
      PROVE  IInv'
  BY <1>2, ExpireStep
<1>3. CASE UNCHANGED vars
  BY <1>3 DEF vars, IInv, Types, Issued, Tracked, Found, AnswerOK, OwnPair, Kept,
              JarKnown, JarChosen, AllHeld, Answered, Holds
<1> QED
  BY <1>1, <1>2, <1>3 DEF Next

LEMMA InitIInv == Init => IInv
<1> SUFFICES ASSUME Init
             PROVE  IInv
  OBVIOUS
<1>0. /\ issued \in 0..1 /\ MaxPairs \in Nat \ {0}
      /\ live = 1..issued /\ fresh = live /\ left = {} /\ ~late /\ late \in BOOLEAN
      /\ chosen = Home
  BY BoundAssumption DEF Init
<1>1. jar = IF issued = 0 THEN Null ELSE NewSession(1)
  BY DEF Init
<1>2. NewSession(1) \in Session /\ NewSession(1).pair = 1 /\ NewSession(1).org = Home
  BY <1>0, HomeAssumption DEF NewSession, Session
<1>3. \A t \in Tabs : /\ tab[t] \in Requested /\ tab[t].pc \in {"rest", "login"}
                      /\ tab[t].cookie = Null
  BY HomeAssumption DEF Init, Quiet, Requested, Cookies, Kinds
<1>4. tab \in [Tabs -> Requested]
  <2>1. tab = [t \in Tabs |-> IF issued = 0 THEN [Quiet EXCEPT !.pc = "login"] ELSE Quiet]
    BY DEF Init
  <2> QED
    BY <1>3, <2>1
<1>5. Types
  BY <1>0, <1>1, <1>2, <1>4, HomeAssumption DEF Types, Cookies
<1>6. Issued /\ Tracked
  BY <1>0, <1>1, <1>2, <1>3 DEF Issued, Tracked, Found, AnswerOK, OwnPair, Answered
<1>7. JarKnown /\ JarChosen
  BY <1>0, <1>1, <1>2 DEF JarKnown, JarChosen
<1>8. AllHeld
  <2>1. \A p \in live : issued = 1 /\ p = 1
    BY <1>0
  <2> QED
    BY <1>1, <1>2, <2>1, NullAssumption DEF AllHeld, Holds
<1> QED
  BY <1>5, <1>6, <1>7, <1>8 DEF IInv, Kept

\* However the requests of the tabs overlap: unless an answer was lost or has
\* overwritten a newer cookie, the cookie that session.ts seals holds a pair
\* that the server still takes, in the organisation that was chosen last, and
\* a sign-out (logoutAction) leaves no pair behind that could be used (Sound),
\* for any number of tabs.
THEOREM SessionIsKept == Spec => []Sound
<1>1. IInv => Sound
  <2> SUFFICES ASSUME IInv
               PROVE  Sound
    OBVIOUS
  <2>1. TypeOK
    BY DEF IInv, Types, TypeOK, Requested, Cookies
  <2>2. ASSUME Settled, ~late
        PROVE  /\ jar # Null => Held # {} /\ jar.org = chosen
               /\ live \subseteq left \cup Held
    <3>1. JarKnown /\ JarChosen /\ AllHeld
      BY <2>2 DEF IInv, Kept
    <3> QED
      BY <2>2, <3>1 DEF JarKnown, JarChosen, AllHeld, Settled, Answered, Holds, Held
  <2> QED
    BY <2>1, <2>2 DEF Sound, SessionKept
<1> QED
  BY <1>1, InitIInv, NextIInv, PTL DEF Spec

-----------------------------------------------------------------------------
(* Clients: the inductive invariant *)

\* The steps that sign in hold the new session until the next step, which stores it.
SignIns == {"poll", "signin", "token"}
Steps == Local \cup Requests \cup SignIns \cup {"connected", "start", "save", "forget", "dropkey"}

HasChange(todo) == \E i \in 1 .. Len(todo) : todo[i] = "change"
HasSave(todo) == \E i \in 1 .. Len(todo) : todo[i] = "save"

\* Nothing follows the change, and a session is stored as soon as it is there.
FlowOK(todo) ==
  /\ todo \in Seq(Steps)
  /\ \A i \in 1 .. Len(todo) :
       /\ todo[i] = "change" => i = Len(todo)
       /\ todo[i] \in SignIns => i < Len(todo) /\ todo[i + 1] = "save"
       /\ todo[i] = "save" /\ i > 1 => todo[i - 1] \in SignIns

Resting == {"new", "menu", "ended"}
Opening == {"unlock", "makeToOpen"}
Saving == {"save", "makeToSave", "open", "data"}
Running == {"load", "run", "refresh", "rotate", "polling"} \cup Opening \cup Saving

Process == [kind : {"none", "cli", "menu", "mcp"}, pc : Resting \cup Running, todo : Seq(Steps),
            creds : {None} \cup Nat, next : {None} \cup Nat, held : {None} \cup Keys,
            again : BOOLEAN, clock : Int, wait : Int, wants : BOOLEAN, did : {0, 1},
            told : {"nothing", "done", "not done", "perhaps"}]

SaveNext(s) == s.todo # <<>> /\ Head(s.todo) = "save"

\* What a command has done is told, or what it wants to do is still ahead.
Honest(s) ==
  /\ s.pc \in Resting =>
       /\ s.told = "done" => s.did = (IF s.wants THEN 1 ELSE 0)
       /\ s.told = "not done" => s.did = 0
  /\ s.pc \in Running =>
       /\ s.told = "nothing"
       /\ s.did = 1 => s.pc = "run" /\ s.todo = <<>>
       /\ s.wants <=> s.did = 1 \/ HasChange(s.todo)

\* Where a session is on its way to the file.
Placed(s) ==
  /\ s.pc \in {"load"} \cup Opening => ~s.again /\ ~HasSave(s.todo)
  /\ s.pc \in Opening \cup Saving => s.next # None
  /\ s.pc \in Resting \cup {"load", "refresh", "rotate", "polling"} => s.next = None
  /\ s.pc = "run" => (s.next # None <=> SaveNext(s)) /\ (s.next # None => ~s.again)
  /\ s.pc \in {"refresh", "rotate"} => s.creds # None /\ ~SaveNext(s)
  /\ s.again /\ s.next # None => s.creds # None
  /\ s.pc = "polling" => s.todo # <<>> /\ Head(s.todo) = "poll"

ProcessOK(s) == s \in Process /\ FlowOK(s.todo) /\ Honest(s) /\ Placed(s)

\* The sessions anybody has are ones that were issued.
SessionTypes ==
  /\ newest \in Nat
  /\ valid \subseteq 1 .. newest /\ ended \subseteq 0 .. newest /\ accepted \subseteq 0 .. newest
  /\ file \in [creds : {None} \cup 0 .. newest, key : {None} \cup Keys] \cup {None}
  /\ legacy \in {None} \cup 1 .. newest /\ key \in {None} \cup Keys
  /\ \A p \in Procs : {procs[p].creds, procs[p].next} \subseteq {None} \cup 0 .. newest

Stored == IF file \in {None, Torn} THEN {} ELSE {file.creds}

\* A new session that a process is about to store
OnItsWay(s) == s.next \notin {None, CliToken} /\ (s.again \/ HasSave(s.todo))

\* is in force, and nobody else has it yet.
OneHolder ==
  \A p \in Procs : OnItsWay(procs[p]) =>
    LET n == procs[p].next IN
    /\ n \in valid /\ n \notin Stored /\ n # legacy
    /\ \A q \in Procs : procs[q].creds # n /\ (q # p => procs[q].next # n)

\* The exchanged sessions whose successors are about to be stored
Replaced == UNION {Unsaved(procs[p]) : p \in Procs}

StoredLives == Stored \subseteq {CliToken} \cup valid \cup ended \cup Replaced

ClientsInv ==
  /\ procs \in [Procs -> Process] /\ \A p \in Procs : ProcessOK(procs[p])
  /\ SessionTypes /\ OneHolder /\ StoredLives
-----------------------------------------------------------------------------
(* Flows *)

LEMMA RangeHas ==
  ASSUME NEW t \in Seq(Steps)
  PROVE  /\ "save" \in Range(t) <=> HasSave(t)
         /\ "change" \in Range(t) <=> HasChange(t)
BY DEF Range, HasSave, HasChange

LEMMA NoFlow == FlowOK(<<>>) /\ ~HasChange(<<>>) /\ ~HasSave(<<>>)
BY DEF FlowOK, HasChange, HasSave

LEMMA TailOK ==
  ASSUME NEW t, FlowOK(t), t # <<>>
  PROVE  /\ FlowOK(Tail(t)) /\ (HasSave(Tail(t)) => HasSave(t))
         /\ Head(t) \in Steps
         /\ Head(t) = "change" => Tail(t) = <<>>
         /\ Head(t) # "change" => (HasChange(Tail(t)) <=> HasChange(t))
         /\ Head(t) # "save" => (HasSave(Tail(t)) <=> HasSave(t))
         /\ Head(t) \in SignIns => Tail(t) # <<>> /\ Head(Tail(t)) = "save"
         /\ Head(t) \notin SignIns /\ Tail(t) # <<>> => Head(Tail(t)) # "save"
<1> DEFINE u == Tail(t)
<1>0. /\ t \in Seq(Steps) /\ Len(t) \in Nat \ {0} /\ u \in Seq(Steps) /\ Len(u) = Len(t) - 1
      /\ \A i \in 1 .. Len(u) : u[i] = t[i + 1]
      /\ Head(t) = t[1] /\ Head(t) \in Steps
  BY DEF FlowOK
<1> HIDE DEF u
<1>1. FlowOK(u)
  <2> SUFFICES ASSUME NEW i \in 1 .. Len(u)
               PROVE  /\ u[i] = "change" => i = Len(u)
                      /\ u[i] \in SignIns => i < Len(u) /\ u[i + 1] = "save"
                      /\ u[i] = "save" /\ i > 1 => u[i - 1] \in SignIns
    BY <1>0 DEF FlowOK
  <2>1. i + 1 \in 1 .. Len(t) /\ u[i] = t[i + 1]
    BY <1>0
  <2>2. u[i] = "change" => i = Len(u)
    BY <1>0, <2>1 DEF FlowOK
  <2>3. u[i] \in SignIns => i < Len(u) /\ u[i + 1] = "save"
    BY <1>0, <2>1 DEF FlowOK
  <2>4. u[i] = "save" /\ i > 1 => u[i - 1] \in SignIns
    BY <1>0, <2>1 DEF FlowOK
  <2> QED
    BY <2>2, <2>3, <2>4
<1>2. Head(t) = "change" => u = <<>>
  BY <1>0 DEF FlowOK
<1>3. Head(t) # "change" => (HasChange(u) <=> HasChange(t))
  <2>1. HasChange(u) => HasChange(t)
    BY <1>0 DEF HasChange
  <2>2. Head(t) # "change" /\ HasChange(t) => HasChange(u)
    <3> SUFFICES ASSUME Head(t) # "change", NEW i \in 1 .. Len(t), t[i] = "change"
                 PROVE  HasChange(u)
      BY DEF HasChange
    <3>1. i - 1 \in 1 .. Len(u) /\ u[i - 1] = t[i]
      BY <1>0
    <3> QED
      BY <3>1 DEF HasChange
  <2> QED
    BY <2>1, <2>2
<1>4. Head(t) # "save" => (HasSave(u) <=> HasSave(t))
  <2>1. HasSave(u) => HasSave(t)
    BY <1>0 DEF HasSave
  <2>2. Head(t) # "save" /\ HasSave(t) => HasSave(u)
    <3> SUFFICES ASSUME Head(t) # "save", NEW i \in 1 .. Len(t), t[i] = "save"
                 PROVE  HasSave(u)
      BY DEF HasSave
    <3>1. i - 1 \in 1 .. Len(u) /\ u[i - 1] = t[i]
      BY <1>0
    <3> QED
      BY <3>1 DEF HasSave
  <2> QED
    BY <2>1, <2>2
<1>5. Head(t) \in SignIns => u # <<>> /\ Head(u) = "save"
  <2> HAVE Head(t) \in SignIns
  <2>1. 1 < Len(t) /\ t[2] = "save"
    BY <1>0 DEF FlowOK
  <2>2. Len(u) > 0 /\ u[1] = "save"
    BY <1>0, <2>1
  <2> QED
    BY <1>0, <2>2
<1>6. Head(t) \notin SignIns /\ u # <<>> => Head(u) # "save"
  <2> HAVE Head(t) \notin SignIns /\ u # <<>>
  <2>1. 2 \in 1 .. Len(t) /\ u[1] = t[2] /\ Head(u) = u[1]
    BY <1>0
  <2>2. t[2] = "save" => t[1] \in SignIns
    BY <1>0, <2>1 DEF FlowOK
  <2> QED
    BY <1>0, <2>1, <2>2
<1>7. HasSave(u) => HasSave(t)
  BY <1>0 DEF HasSave
<1> QED
  BY <1>0, <1>1, <1>2, <1>3, <1>4, <1>5, <1>6, <1>7 DEF u

\* What is left of a flow when steps have been decided here
LEMMA RestOK ==
  ASSUME NEW t, FlowOK(t), NEW n \in 2 .. Len(t) + 1, PastLocal(t, n)
  PROVE  LET u == SubSeq(t, n, Len(t)) IN
         /\ FlowOK(u)
         /\ HasChange(u) <=> HasChange(t)
         /\ HasSave(u) => HasSave(t)
         /\ u # <<>> => Head(u) # "save"
<1> DEFINE u == SubSeq(t, n, Len(t))
<1>0. /\ t \in Seq(Steps) /\ Len(t) \in Nat /\ u \in Seq(Steps) /\ Len(u) = Len(t) - n + 1
      /\ \A i \in 1 .. Len(u) : u[i] = t[i + n - 1]
  BY DEF FlowOK
<1> HIDE DEF u
<1>1. FlowOK(u)
  <2> SUFFICES ASSUME NEW i \in 1 .. Len(u)
               PROVE  /\ u[i] = "change" => i = Len(u)
                      /\ u[i] \in SignIns => i < Len(u) /\ u[i + 1] = "save"
                      /\ u[i] = "save" /\ i > 1 => u[i - 1] \in SignIns
    BY <1>0 DEF FlowOK
  <2> DEFINE j == i + n - 1
  <2>0. /\ i \in Nat /\ n \in Nat /\ Len(t) \in Nat /\ 1 <= i /\ i <= Len(u) /\ 2 <= n
        /\ Len(u) = Len(t) - n + 1
    BY <1>0
  <2>1. j \in 1 .. Len(t) /\ u[i] = t[j] /\ (j = Len(t) => i = Len(u))
    <3>1. j \in 1 .. Len(t) /\ (j = Len(t) => i = Len(u))
      BY <2>0
    <3>2. u[i] = t[j]
      BY <1>0
    <3> QED
      BY <3>1, <3>2
  <2>2. (i < Len(u) => u[i + 1] = t[j + 1]) /\ (i > 1 => j > 1 /\ u[i - 1] = t[j - 1])
    <3>1. i < Len(u) => i + 1 \in 1 .. Len(u) /\ (i + 1) + n - 1 = j + 1
      BY <2>0
    <3>2. i > 1 => j > 1 /\ i - 1 \in 1 .. Len(u) /\ (i - 1) + n - 1 = j - 1
      BY <2>0
    <3> HIDE DEF j
    <3>3. ASSUME i < Len(u) PROVE u[i + 1] = t[j + 1]
      <4>1. u[i + 1] = t[(i + 1) + n - 1]
        BY <1>0, <3>1, <3>3
      <4> QED
        BY <3>1, <3>3, <4>1
    <3>4. ASSUME i > 1 PROVE u[i - 1] = t[j - 1]
      <4>1. u[i - 1] = t[(i - 1) + n - 1]
        BY <1>0, <3>2, <3>4
      <4> QED
        BY <3>2, <3>4, <4>1
    <3> QED
      BY <3>2, <3>3, <3>4
  <2>3. j < Len(t) => i < Len(u)
    BY <2>0
  <2> HIDE DEF j
  <2>4. /\ t[j] = "change" => j = Len(t)
        /\ t[j] \in SignIns => j < Len(t) /\ t[j + 1] = "save"
        /\ t[j] = "save" /\ j > 1 => t[j - 1] \in SignIns
    BY <2>1 DEF FlowOK
  <2> QED
    BY <2>1, <2>2, <2>3, <2>4
<1>2. HasChange(t) => HasChange(u)
  <2> SUFFICES ASSUME NEW i \in 1 .. Len(t), t[i] = "change"
               PROVE  HasChange(u)
    BY DEF HasChange
  <2>1. i >= n
    BY <1>0 DEF PastLocal, Local
  <2> DEFINE k == i - n + 1
  <2>2. k \in 1 .. Len(u) /\ k + n - 1 = i
    BY <1>0, <2>1
  <2> HIDE DEF k
  <2>3. u[k] = t[k + n - 1]
    BY <1>0, <2>2
  <2> QED
    BY <2>2, <2>3 DEF HasChange
<1>3. (HasChange(u) => HasChange(t)) /\ (HasSave(u) => HasSave(t))
  <2> SUFFICES ASSUME NEW i \in 1 .. Len(u)
               PROVE  i + n - 1 \in 1 .. Len(t) /\ t[i + n - 1] = u[i]
    BY DEF HasChange, HasSave
  <2>1. i + n - 1 \in 1 .. Len(t)
    BY <1>0
  <2>2. u[i] = t[i + n - 1]
    BY <1>0
  <2> QED
    BY <2>1, <2>2
<1>4. u # <<>> => Head(u) # "save"
  <2> HAVE u # <<>>
  <2>1. Len(u) > 0 /\ Head(u) = u[1] /\ u[1] = t[n] /\ n \in 1 .. Len(t)
    <3>1. Len(u) > 0 /\ Head(u) = u[1] /\ 1 \in 1 .. Len(u)
      BY <1>0
    <3>2. n \in 1 .. Len(t)
      BY <1>0, <3>1
    <3>3. u[1] = t[1 + n - 1]
      BY <1>0, <3>1
    <3> QED
      BY <3>1, <3>2, <3>3
  <2>2. t[n - 1] \in Local
    BY <1>0 DEF PastLocal
  <2>3. t[n] = "save" => t[n - 1] \in SignIns
    BY <2>1 DEF FlowOK
  <2> QED
    BY <2>1, <2>2, <2>3 DEF Local, SignIns
<1> QED
  BY <1>1, <1>2, <1>3, <1>4 DEF u

-----------------------------------------------------------------------------
(* The commands and the menu are such flows. *)

NewFlow(f) == FlowOK(f) /\ (f # <<>> => Head(f) # "save")

Plain(s) == s \in Seq(Steps \ (SignIns \cup {"save", "change"}))

LEMMA PlainConcat ==
  ASSUME NEW s, Plain(s), NEW t, Plain(t)
  PROVE  Plain(s \o t)
BY DEF Plain

LEMMA PlainOK ==
  ASSUME NEW s, Plain(s)
  PROVE  NewFlow(s)
<1>1. s \in Seq(Steps) /\ \A i \in 1 .. Len(s) : s[i] \notin SignIns \cup {"save", "change"}
  BY DEF Plain
<1> QED
  BY <1>1 DEF FlowOK, NewFlow

LEMMA PlainBefore ==
  ASSUME NEW s, Plain(s), NEW f, NewFlow(f)
  PROVE  NewFlow(s \o f)
<1> DEFINE t == s \o f
<1>1. s \in Seq(Steps) /\ \A i \in 1 .. Len(s) : s[i] \notin SignIns \cup {"save", "change"}
  BY DEF Plain
<1>2. /\ f \in Seq(Steps) /\ t \in Seq(Steps) /\ Len(t) = Len(s) + Len(f)
      /\ Len(s) \in Nat /\ Len(f) \in Nat
      /\ \A i \in 1 .. Len(s) : t[i] = s[i]
      /\ \A i \in 1 .. Len(f) : t[i + Len(s)] = f[i]
  BY <1>1 DEF NewFlow, FlowOK
<1> HIDE DEF t
<1>3. ASSUME NEW i \in 1 .. Len(t)
      PROVE  /\ t[i] = "change" => i = Len(t)
             /\ t[i] \in SignIns => i < Len(t) /\ t[i + 1] = "save"
             /\ t[i] = "save" => i > 1 /\ t[i - 1] \in SignIns
  <2>1. CASE i <= Len(s)
    BY <1>1, <1>2, <2>1
  <2>2. CASE i > Len(s)
    <3> DEFINE j == i - Len(s)
    <3>1. j \in 1 .. Len(f) /\ t[i] = f[j] /\ (j = Len(f) <=> i = Len(t)) /\ (j < Len(f) <=> i < Len(t))
      <4>1. j \in 1 .. Len(f) /\ j + Len(s) = i
        BY <1>2, <2>2
      <4> QED
        BY <1>2, <4>1
    <3>2. j < Len(f) => t[i + 1] = f[j + 1]
      <4>1. j < Len(f) => j + 1 \in 1 .. Len(f) /\ (j + 1) + Len(s) = i + 1
        BY <1>2, <3>1
      <4> QED
        BY <1>2, <4>1
    <3>3. j > 1 => i > 1 /\ t[i - 1] = f[j - 1]
      <4>1. j > 1 => i > 1 /\ j - 1 \in 1 .. Len(f) /\ (j - 1) + Len(s) = i - 1
        BY <1>2, <3>1
      <4> QED
        BY <1>2, <4>1
    <3> HIDE DEF j
    <3>4. /\ f[j] = "change" => j = Len(f)
          /\ f[j] \in SignIns => j < Len(f) /\ f[j + 1] = "save"
          /\ f[j] = "save" /\ j > 1 => f[j - 1] \in SignIns
      BY <3>1 DEF NewFlow, FlowOK
    <3>5. f[j] = "save" => j > 1
      <4>1. f # <<>> /\ Head(f) = f[1]
        BY <1>2, <3>1
      <4> QED
        BY <3>1, <4>1 DEF NewFlow
    <3> QED
      BY <3>1, <3>2, <3>3, <3>4, <3>5
  <2> QED
    BY <1>2, <2>1, <2>2
<1>4. FlowOK(t)
  BY <1>2, <1>3 DEF FlowOK
<1>5. t # <<>> => Head(t) # "save"
  <2> HAVE t # <<>>
  <2>1. Head(t) = t[1] /\ 1 \in 1 .. Len(t)
    BY <1>2
  <2> QED
    BY <1>3, <2>1
<1> QED
  BY <1>4, <1>5 DEF NewFlow, t

LEMMA PlainParts ==
  /\ Plain(<<>>) /\ Plain(Pick) /\ Plain(PickSecret) /\ Plain(PickEnv) /\ Plain(NewSecret)
  /\ Plain(<<"tty">>) /\ Plain(<<"ask">>) /\ Plain(<<"check">>) /\ Plain(<<"get">>)
  /\ Plain(<<"tty", "ask">>) /\ Plain(<<"tryget">>) /\ Plain(<<"connected">>) /\ Plain(<<"tty">> \o Copy) /\ Plain(Copy)
  /\ \A a \in PickAlias : Plain(a)
  /\ \A r \in ResolveProject : Plain(r)
<1>1. /\ Plain(<<>>) /\ Plain(<<"ask", "ask">>) /\ Plain(<<"tty", "ask">>)
      /\ Plain(<<"tty">>) /\ Plain(<<"ask">>) /\ Plain(<<"check">>) /\ Plain(<<"get">>)
      /\ Plain(<<"tryget">>) /\ Plain(<<"connected">>) /\ Plain(Pick) /\ Plain(Copy)
      /\ Plain(<<"get", "check">>)
  BY DEF Plain, Steps, Local, Requests, Authed, SignIns, Pick, Copy
<1>2. Plain(PickSecret) /\ Plain(PickEnv) /\ Plain(NewSecret) /\ Plain(<<"tty">> \o Copy)
  BY <1>1, PlainConcat DEF PickSecret, PickEnv, NewSecret
<1>3. Plain((<<"tty">> \o Pick) \o PickSecret)
  BY <1>1, <1>2, PlainConcat
<1> QED
  BY <1>1, <1>2, <1>3 DEF PickAlias, ResolveProject

LEMMA LiteralFlows ==
  /\ NewFlow(<<>>)
  /\ NewFlow(<<"change">>)
  /\ NewFlow(<<"get">>)
  /\ NewFlow(<<"get", "check", "change">>)
  /\ NewFlow(<<"start", "poll", "save">>)
  /\ NewFlow(<<"check", "ask", "signin", "save">>)
  /\ NewFlow(<<"check", "token", "save">>)
  /\ NewFlow(<<"connected", "logout", "forget", "dropkey">>)
  /\ NewFlow(<<"logout", "forget", "dropkey">>)
  /\ NewFlow(<<"check", "change">>)
  /\ NewFlow(<<"connected", "get">>)
  /\ NewFlow(<<"ask", "change">>)
  /\ NewFlow(<<"ask", "ask", "change">>)
  /\ NewFlow(<<"tryget">>)
  /\ NewFlow(<<"tryget", "ask", "change">>)
  /\ NewFlow(<<"ask", "get">>)
  /\ NewFlow(<<"get", "check", "get">>)
  /\ NewFlow(<<"check", "get", "check", "get">>)
<1>1. NewFlow(<<>>)
  BY DEF NewFlow, FlowOK, Steps, Local, Requests, Authed, SignIns
<1>2. NewFlow(<<"change">>)
  BY DEF NewFlow, FlowOK, Steps, Local, Requests, Authed, SignIns
<1>3. NewFlow(<<"get">>)
  BY DEF NewFlow, FlowOK, Steps, Local, Requests, Authed, SignIns
<1>4. NewFlow(<<"get", "check", "change">>)
  BY DEF NewFlow, FlowOK, Steps, Local, Requests, Authed, SignIns
<1>5. NewFlow(<<"start", "poll", "save">>)
  BY DEF NewFlow, FlowOK, Steps, Local, Requests, Authed, SignIns
<1>6. NewFlow(<<"check", "ask", "signin", "save">>)
  BY DEF NewFlow, FlowOK, Steps, Local, Requests, Authed, SignIns
<1>7. NewFlow(<<"check", "token", "save">>)
  BY DEF NewFlow, FlowOK, Steps, Local, Requests, Authed, SignIns
<1>8. NewFlow(<<"connected", "logout", "forget", "dropkey">>)
  BY DEF NewFlow, FlowOK, Steps, Local, Requests, Authed, SignIns
<1>9. NewFlow(<<"logout", "forget", "dropkey">>)
  BY DEF NewFlow, FlowOK, Steps, Local, Requests, Authed, SignIns
<1>10. NewFlow(<<"check", "change">>)
  BY DEF NewFlow, FlowOK, Steps, Local, Requests, Authed, SignIns
<1>11. NewFlow(<<"connected", "get">>)
  BY DEF NewFlow, FlowOK, Steps, Local, Requests, Authed, SignIns
<1>12. NewFlow(<<"ask", "change">>)
  BY DEF NewFlow, FlowOK, Steps, Local, Requests, Authed, SignIns
<1>13. NewFlow(<<"ask", "ask", "change">>)
  BY DEF NewFlow, FlowOK, Steps, Local, Requests, Authed, SignIns
<1>14. NewFlow(<<"tryget">>)
  BY DEF NewFlow, FlowOK, Steps, Local, Requests, Authed, SignIns
<1>15. NewFlow(<<"tryget", "ask", "change">>)
  BY DEF NewFlow, FlowOK, Steps, Local, Requests, Authed, SignIns
<1>16. NewFlow(<<"ask", "get">>)
  BY DEF NewFlow, FlowOK, Steps, Local, Requests, Authed, SignIns
<1>17. NewFlow(<<"get", "check", "get">>)
  BY DEF NewFlow, FlowOK, Steps, Local, Requests, Authed, SignIns
<1>18. NewFlow(<<"check", "get", "check", "get">>)
  BY DEF NewFlow, FlowOK, Steps, Local, Requests, Authed, SignIns
<1> QED
  BY <1>1, <1>2, <1>3, <1>4, <1>5, <1>6, <1>7, <1>8, <1>9, <1>10, <1>11, <1>12, <1>13, <1>14, <1>15, <1>16, <1>17, <1>18

LEMMA LiteralParts ==
  /\ Plain(<<"check", "probe", "check">>)
  /\ Plain(<<"check", "check">>)
  /\ Plain(<<"check", "connected">>)
  /\ Plain(<<"get", "ask">>)
  /\ Plain(<<"get">>)
BY DEF Plain, Steps, Local, Requests, Authed, SignIns

\* Every command, choice of the menu and tool of keynv-mcp
LEMMA CommandFlows == \A f \in Commands \cup MenuChoices \cup McpTools \cup {MenuLogin} : NewFlow(f)
<1>1. \A f \in SecretCreate : NewFlow(f)
  <2> DEFINE G(a, v, r) == a \o <<"check">> \o v \o r \o <<"change">>
  <2>1. ASSUME NEW a \in {<<>>, <<"tty">> \o Pick \o NewSecret},
               NEW v \in {<<>>, <<"ask">>},
               NEW r \in ResolveProject
        PROVE  NewFlow(G(a, v, r))
    <3>0. Plain(a) /\ Plain(v) /\ Plain(r)
      BY PlainParts, PlainConcat DEF NewSecret
    <3>1. Plain(a \o <<"check">>)
      BY <3>0, PlainParts, LiteralParts, PlainConcat
    <3>2. Plain(a \o <<"check">> \o v)
      BY <3>0, <3>1, PlainParts, LiteralParts, PlainConcat
    <3>3. Plain(a \o <<"check">> \o v \o r)
      BY <3>0, <3>2, PlainParts, LiteralParts, PlainConcat
    <3> QED
      BY <3>0, <3>3, PlainParts, LiteralFlows, PlainBefore
  <2>2. SecretCreate = {G(a, v, r) : a \in {<<>>, <<"tty">> \o Pick \o NewSecret}, v \in {<<>>, <<"ask">>}, r \in ResolveProject}
    BY DEF SecretCreate
  <2> HIDE DEF G
  <2> QED
    BY <2>1, <2>2
<1>2. \A f \in SecretGet : NewFlow(f)
  <2> DEFINE G(a, r, s) == a \o <<"check">> \o r \o <<"get">> \o s
  <2>1. ASSUME NEW a \in PickAlias,
               NEW r \in ResolveProject,
               NEW s \in {<<>>, <<"tty">> \o Copy, Copy}
        PROVE  NewFlow(G(a, r, s))
    <3>0. Plain(a) /\ Plain(r) /\ Plain(s)
      BY PlainParts, PlainConcat DEF NewSecret
    <3>1. Plain(a \o <<"check">>)
      BY <3>0, PlainParts, LiteralParts, PlainConcat
    <3>2. Plain(a \o <<"check">> \o r)
      BY <3>0, <3>1, PlainParts, LiteralParts, PlainConcat
    <3>3. Plain(a \o <<"check">> \o r \o <<"get">>)
      BY <3>0, <3>2, PlainParts, LiteralParts, PlainConcat
    <3> QED
      BY <3>0, <3>3, PlainParts, LiteralParts, PlainConcat, PlainOK
  <2>2. SecretGet = {G(a, r, s) : a \in PickAlias, r \in ResolveProject, s \in {<<>>, <<"tty">> \o Copy, Copy}}
    BY DEF SecretGet
  <2> HIDE DEF G
  <2> QED
    BY <2>1, <2>2
<1>3. \A f \in SecretList : NewFlow(f)
  <2> DEFINE G(p, r) == p \o r \o <<"get">>
  <2>1. ASSUME NEW p \in {<<>>, <<"tty">> \o Pick},
               NEW r \in ResolveProject
        PROVE  NewFlow(G(p, r))
    <3>0. Plain(p) /\ Plain(r)
      BY PlainParts, PlainConcat DEF NewSecret
    <3>1. Plain(p \o r)
      BY <3>0, PlainParts, LiteralParts, PlainConcat
    <3> QED
      BY <3>0, <3>1, PlainParts, LiteralParts, PlainConcat, PlainOK
  <2>2. SecretList = {G(p, r) : p \in {<<>>, <<"tty">> \o Pick}, r \in ResolveProject}
    BY DEF SecretList
  <2> HIDE DEF G
  <2> QED
    BY <2>1, <2>2
<1>4. \A f \in SecretRotate : NewFlow(f)
  <2> DEFINE G(a, v, r) == a \o <<"check">> \o v \o r \o <<"change">>
  <2>1. ASSUME NEW a \in PickAlias,
               NEW v \in {<<>>, <<"ask">>},
               NEW r \in ResolveProject
        PROVE  NewFlow(G(a, v, r))
    <3>0. Plain(a) /\ Plain(v) /\ Plain(r)
      BY PlainParts, PlainConcat DEF NewSecret
    <3>1. Plain(a \o <<"check">>)
      BY <3>0, PlainParts, LiteralParts, PlainConcat
    <3>2. Plain(a \o <<"check">> \o v)
      BY <3>0, <3>1, PlainParts, LiteralParts, PlainConcat
    <3>3. Plain(a \o <<"check">> \o v \o r)
      BY <3>0, <3>2, PlainParts, LiteralParts, PlainConcat
    <3> QED
      BY <3>0, <3>3, PlainParts, LiteralFlows, PlainBefore
  <2>2. SecretRotate = {G(a, v, r) : a \in PickAlias, v \in {<<>>, <<"ask">>}, r \in ResolveProject}
    BY DEF SecretRotate
  <2> HIDE DEF G
  <2> QED
    BY <2>1, <2>2
<1>5. \A f \in SecretDelete : NewFlow(f)
  <2> DEFINE G(a, c, r) == a \o <<"check">> \o c \o r \o <<"change">>
  <2>1. ASSUME NEW a \in PickAlias,
               NEW c \in {<<>>, <<"tty", "ask">>},
               NEW r \in ResolveProject
        PROVE  NewFlow(G(a, c, r))
    <3>0. Plain(a) /\ Plain(c) /\ Plain(r)
      BY PlainParts, PlainConcat DEF NewSecret
    <3>1. Plain(a \o <<"check">>)
      BY <3>0, PlainParts, LiteralParts, PlainConcat
    <3>2. Plain(a \o <<"check">> \o c)
      BY <3>0, <3>1, PlainParts, LiteralParts, PlainConcat
    <3>3. Plain(a \o <<"check">> \o c \o r)
      BY <3>0, <3>2, PlainParts, LiteralParts, PlainConcat
    <3> QED
      BY <3>0, <3>3, PlainParts, LiteralFlows, PlainBefore
  <2>2. SecretDelete = {G(a, c, r) : a \in PickAlias, c \in {<<>>, <<"tty", "ask">>}, r \in ResolveProject}
    BY DEF SecretDelete
  <2> HIDE DEF G
  <2> QED
    BY <2>1, <2>2
<1>6. \A f \in SecretSetRotation : NewFlow(f)
  <2> DEFINE G(a, r) == a \o <<"check", "check">> \o r \o <<"change">>
  <2>1. ASSUME NEW a \in PickAlias,
               NEW r \in ResolveProject
        PROVE  NewFlow(G(a, r))
    <3>0. Plain(a) /\ Plain(r)
      BY PlainParts, PlainConcat DEF NewSecret
    <3>1. Plain(a \o <<"check", "check">>)
      BY <3>0, PlainParts, LiteralParts, PlainConcat
    <3>2. Plain(a \o <<"check", "check">> \o r)
      BY <3>0, <3>1, PlainParts, LiteralParts, PlainConcat
    <3> QED
      BY <3>0, <3>2, PlainParts, LiteralFlows, PlainBefore
  <2>2. SecretSetRotation = {G(a, r) : a \in PickAlias, r \in ResolveProject}
    BY DEF SecretSetRotation
  <2> HIDE DEF G
  <2> QED
    BY <2>1, <2>2
<1>7. \A f \in SecretRotations : NewFlow(f)
  <2> SUFFICES ASSUME NEW r \in ResolveProject
               PROVE  NewFlow(r \o <<"get">>)
    BY DEF SecretRotations
  <2>0. Plain(r)
    BY PlainParts, PlainConcat DEF NewSecret
  <2> QED
    BY <2>0, PlainParts, LiteralParts, PlainConcat, PlainOK
<1>8. \A f \in ProjectDescribe : NewFlow(f)
  <2> SUFFICES ASSUME NEW r \in ResolveProject
               PROVE  NewFlow(r \o <<"get">>)
    BY DEF ProjectDescribe
  <2>0. Plain(r)
    BY PlainParts, PlainConcat DEF NewSecret
  <2> QED
    BY <2>0, PlainParts, LiteralParts, PlainConcat, PlainOK
<1>9. \A f \in MemberAdd : NewFlow(f)
  <2> SUFFICES ASSUME NEW r \in ResolveProject
               PROVE  NewFlow(<<"check">> \o r \o <<"change">>)
    BY DEF MemberAdd
  <2>0. Plain(r)
    BY PlainParts, PlainConcat DEF NewSecret
  <2>1. Plain(<<"check">> \o r)
    BY <2>0, PlainParts, LiteralParts, PlainConcat
  <2> QED
    BY <2>0, <2>1, PlainParts, LiteralFlows, PlainBefore
<1>10. \A f \in MemberRemove : NewFlow(f)
  <2> SUFFICES ASSUME NEW r \in ResolveProject
               PROVE  NewFlow(r \o <<"get", "check", "change">>)
    BY DEF MemberRemove
  <2>0. Plain(r)
    BY PlainParts, PlainConcat DEF NewSecret
  <2> QED
    BY <2>0, PlainParts, LiteralFlows, PlainBefore
<1>11. \A f \in MemberList : NewFlow(f)
  <2> SUFFICES ASSUME NEW r \in ResolveProject
               PROVE  NewFlow(r \o <<"get">>)
    BY DEF MemberList
  <2>0. Plain(r)
    BY PlainParts, PlainConcat DEF NewSecret
  <2> QED
    BY <2>0, PlainParts, LiteralParts, PlainConcat, PlainOK
<1>12. \A f \in EnvList : NewFlow(f)
  <2> SUFFICES ASSUME NEW r \in ResolveProject
               PROVE  NewFlow(r \o <<"get">>)
    BY DEF EnvList
  <2>0. Plain(r)
    BY PlainParts, PlainConcat DEF NewSecret
  <2> QED
    BY <2>0, PlainParts, LiteralParts, PlainConcat, PlainOK
<1>13. \A f \in EnvAdd : NewFlow(f)
  <2> SUFFICES ASSUME NEW r \in ResolveProject
               PROVE  NewFlow(<<"check", "probe", "check">> \o r \o <<"change">>)
    BY DEF EnvAdd
  <2>0. Plain(r)
    BY PlainParts, PlainConcat DEF NewSecret
  <2>1. Plain(<<"check", "probe", "check">> \o r)
    BY <2>0, PlainParts, LiteralParts, PlainConcat
  <2> QED
    BY <2>0, <2>1, PlainParts, LiteralFlows, PlainBefore
<1>14. \A f \in TestSecret : NewFlow(f)
  <2> SUFFICES ASSUME NEW r \in ResolveProject
               PROVE  NewFlow(<<"check", "connected">> \o r \o <<"get">>)
    BY DEF TestSecret
  <2>0. Plain(r)
    BY PlainParts, PlainConcat DEF NewSecret
  <2>1. Plain(<<"check", "connected">> \o r)
    BY <2>0, PlainParts, LiteralParts, PlainConcat
  <2> QED
    BY <2>0, <2>1, PlainParts, LiteralParts, PlainConcat, PlainOK
<1>15. \A f \in MenuSecrets : NewFlow(f)
  <2> DEFINE G(p, f) == p \o <<"get", "ask">> \o f
  <2>1. ASSUME NEW p \in {<<>>, Pick},
               NEW f \in SecretMenu \cup {CreateInteractive}
        PROVE  NewFlow(G(p, f))
    <3>0. Plain(p) /\ NewFlow(f)
      BY PlainParts, LiteralFlows, PlainConcat, PlainBefore DEF NewSecret, SecretMenu, CreateInteractive
    <3>1. Plain(p \o <<"get", "ask">>)
      BY <3>0, PlainParts, LiteralParts, PlainConcat
    <3> QED
      BY <3>0, <3>1, PlainParts, LiteralFlows, PlainBefore
  <2>2. MenuSecrets = {G(p, f) : p \in {<<>>, Pick}, f \in SecretMenu \cup {CreateInteractive}}
    BY DEF MenuSecrets
  <2> HIDE DEF G
  <2> QED
    BY <2>1, <2>2
<1>16. \A f \in MenuMembers : NewFlow(f)
  <2> DEFINE G(p, f) == p \o <<"get", "ask">> \o f
  <2>1. ASSUME NEW p \in {<<>>, Pick},
               NEW f \in {<<"ask", "change">>, <<"ask", "ask", "change">>}
        PROVE  NewFlow(G(p, f))
    <3>0. Plain(p) /\ NewFlow(f)
      BY PlainParts, LiteralFlows, PlainConcat, PlainBefore DEF NewSecret
    <3>1. Plain(p \o <<"get", "ask">>)
      BY <3>0, PlainParts, LiteralParts, PlainConcat
    <3> QED
      BY <3>0, <3>1, PlainParts, LiteralFlows, PlainBefore
  <2>2. MenuMembers = {G(p, f) : p \in {<<>>, Pick}, f \in {<<"ask", "change">>, <<"ask", "ask", "change">>}}
    BY DEF MenuMembers
  <2> HIDE DEF G
  <2> QED
    BY <2>1, <2>2
<1>17. \A f \in UNION {ProjectList, ProjectCreate, ProjectDelete, AuditList, AuditVerify, Whoami,
                       LogoutFlows, MenuAudit, {MenuLogout, <<>>}, McpTools} : NewFlow(f)
  BY LiteralFlows DEF ProjectList, ProjectCreate, ProjectDelete, AuditList, AuditVerify, Whoami,
     LogoutFlows, MenuAudit, MenuLogout, McpTools
<1>18. \A f \in LoginFlows \cup {MenuLogin} : NewFlow(f)
  <2>1. NewFlow(<<"check">> \o BrowserAuth) /\ NewFlow(Connect \o BrowserAuth)
    BY PlainParts, LiteralFlows, PlainBefore DEF BrowserAuth, Connect
  <2> QED
    BY <2>1, LiteralFlows DEF LoginFlows, MenuLogin
<1>19. \A f \in MenuProjects : NewFlow(f)
  BY PlainParts, LiteralFlows, PlainBefore DEF MenuProjects
<1> QED
  BY <1>1, <1>2, <1>3, <1>4, <1>5, <1>6, <1>7, <1>8, <1>9, <1>10, <1>11, <1>12, <1>13, <1>14, <1>15, <1>16, <1>17, <1>18, <1>19 DEF Commands, MenuChoices

-----------------------------------------------------------------------------
(* What a process becomes *)

Words == {"done", "perhaps", "refused", "declined", "notSaved", "notConnected", "expired"}

\* A process that has changed nothing yet and is not about to store a session
Able(s) ==
  /\ s \in Process /\ FlowOK(s.todo) /\ s.next = None
  /\ s.told = "nothing" /\ s.did = 0 /\ (s.wants <=> HasChange(s.todo))

LEMMA RunningAble ==
  ASSUME NEW s, ProcessOK(s), s.pc \in Running
  PROVE  /\ s.todo # <<>> \/ s.pc # "run" => s.did = 0
         /\ s.next = None /\ s.did = 0 => Able(s)
         /\ s.did = 0 => Able([s EXCEPT !.next = None, !.held = None])
<1>0. /\ s \in Process /\ FlowOK(s.todo) /\ Honest(s)
  BY DEF ProcessOK
<1>1. s.did \in {0, 1} /\ (s.todo # <<>> \/ s.pc # "run" => s.did = 0)
  BY <1>0 DEF Honest, Process
<1>2. s.next = None /\ s.did = 0 => Able(s)
  BY <1>0 DEF Able, Honest
<1> DEFINE r == [s EXCEPT !.next = None, !.held = None]
<1>3. r \in Process
  BY <1>0, Zenon DEF Process
<1>4. /\ r.next = None /\ r.told = s.told /\ r.did = s.did /\ (r.wants <=> s.wants)
      /\ r.todo = s.todo
  BY <1>0 DEF Process
<1>5. s.did = 0 => Able(r)
  BY <1>0, <1>3, <1>4 DEF Able, Honest
<1> QED
  BY <1>1, <1>2, <1>5

\* It takes the next step.
LEMMA GoOK ==
  ASSUME NEW s, Able(s), s.todo # <<>>, Head(s.todo) \notin SignIns \cup {"change"}
  PROVE  /\ ProcessOK(Go(s)) /\ Go(s).creds = s.creds /\ Go(s).next = None
         /\ Go(s).todo = Tail(s.todo)
<1>0. /\ s \in Process /\ FlowOK(s.todo)
  BY DEF Able
<1>1. /\ FlowOK(Tail(s.todo)) /\ Tail(s.todo) \in Seq(Steps)
      /\ HasChange(Tail(s.todo)) <=> HasChange(s.todo)
      /\ Tail(s.todo) # <<>> => Head(Tail(s.todo)) # "save"
  BY <1>0, TailOK DEF FlowOK
<1> DEFINE r == Go(s)
<1>2. /\ r.pc = "run" /\ r.todo = Tail(s.todo) /\ r.creds = s.creds /\ r.next = None
      /\ ~r.again /\ (r.wants <=> s.wants) /\ r.did = s.did /\ r.told = s.told
  BY <1>0 DEF Go, Process, Able
<1>3. r \in Process
  BY <1>0, <1>1, Zenon DEF Go, Process, Running
<1>4. Honest(r)
  BY <1>0, <1>1, <1>2 DEF Honest, Able, Running, Resting
<1>5. Placed(r)
  BY <1>1, <1>2 DEF Placed, SaveNext, Resting, Opening, Saving
<1> QED
  BY <1>1, <1>2, <1>3, <1>4, <1>5 DEF ProcessOK

\* It has made its change.
LEMMA ChangedOK ==
  ASSUME NEW s, Able(s), s.todo # <<>>, Head(s.todo) = "change"
  PROVE  LET r == Go([s EXCEPT !.did = 1]) IN
         ProcessOK(r) /\ r.creds = s.creds /\ r.next = None
<1>0. /\ s \in Process /\ FlowOK(s.todo) /\ HasChange(s.todo)
  BY DEF Able, FlowOK, HasChange
<1>1. Tail(s.todo) = <<>> /\ FlowOK(<<>>) /\ ~HasChange(<<>>) /\ <<>> \in Seq(Steps)
  BY <1>0, TailOK, NoFlow
<1> DEFINE r == Go([s EXCEPT !.did = 1])
<1>2. /\ r.pc = "run" /\ r.todo = Tail(s.todo) /\ r.creds = s.creds /\ r.next = None
      /\ ~r.again /\ (r.wants <=> s.wants) /\ r.did = 1 /\ r.told = s.told
  BY <1>0 DEF Go, Process, Able
<1>3. r \in Process
  BY <1>0, <1>1, Zenon DEF Go, Process, Running
<1>4. Honest(r)
  BY <1>0, <1>1, <1>2 DEF Honest, Able, Running, Resting
<1>5. Placed(r)
  BY <1>1, <1>2 DEF Placed, SaveNext, Resting, Opening, Saving
<1> QED
  BY <1>1, <1>2, <1>3, <1>4, <1>5 DEF ProcessOK

\* It ends with a word, which is true.
LEMMA EndedOK ==
  ASSUME NEW s \in Process, NEW word \in Words,
         word = "done" => s.did = (IF s.wants THEN 1 ELSE 0),
         word \notin {"done", "perhaps"} => s.did = 0
  PROVE  LET r == Ended(s, word) IN
         ProcessOK(r) /\ r.creds \in {s.creds, None} /\ r.next = None
<1> DEFINE r == Ended(s, word)
           rest == [Idle EXCEPT !.pc = "ended", !.wants = s.wants, !.did = s.did, !.told = Sense(word)]
           back == [rest EXCEPT !.kind = s.kind, !.pc = "menu", !.creds = s.creds]
<1>1. Sense(word) \in {"done", "perhaps", "not done"}
  BY DEF Sense
<1>2. /\ Sense(word) = "done" => s.did = (IF s.wants THEN 1 ELSE 0)
      /\ Sense(word) = "not done" => s.did = 0
  BY DEF Sense
<1>3. <<>> \in Seq(Steps) /\ FlowOK(<<>>)
  BY NoFlow
<1>4. /\ rest.pc = "ended" /\ rest.todo = <<>> /\ rest.creds = None /\ rest.next = None
      /\ (rest.wants <=> s.wants) /\ rest.did = s.did /\ rest.told = Sense(word)
  BY DEF Idle
<1>5. /\ back.pc = "menu" /\ back.todo = <<>> /\ back.creds = s.creds /\ back.next = None
      /\ (back.wants <=> s.wants) /\ back.did = s.did /\ back.told = Sense(word)
  BY DEF Idle
<1>6. rest \in Process
  <2>1. 0 \in Int
    OBVIOUS
  <2> QED
    BY <1>1, <1>3, <2>1, Zenon DEF Idle, Process, Resting
<1>7. back \in Process
  BY <1>6, Zenon DEF Process, Resting
<1>8. ASSUME NEW x \in {rest, back}
      PROVE  Honest(x) /\ Placed(x) /\ FlowOK(x.todo)
  <2> HIDE DEF rest, back
  <2>1. /\ x.pc \in {"ended", "menu"} /\ x.todo = <<>> /\ x.next = None
        /\ (x.wants <=> s.wants) /\ x.did = s.did /\ x.told = Sense(word)
    BY <1>4, <1>5
  <2> QED
    BY <1>1, <1>2, <1>3, <2>1 DEF Honest, Placed, Resting, Running, Opening, Saving
<1>9. r \in {rest, back}
  BY DEF Ended
<1> HIDE DEF rest, back, r
<1> QED
  BY <1>4, <1>5, <1>6, <1>7, <1>8, <1>9 DEF ProcessOK, r

LEMMA FailedOK ==
  ASSUME NEW s, Able(s), NEW word \in Words \ {"done"}
  PROVE  LET r == Failed(s, word) IN
         ProcessOK(r) /\ r.creds \in {s.creds, None} /\ r.next = None
<1>1. CASE s.todo # <<>> /\ Head(s.todo) \in BestEffort
  BY <1>1, GoOK DEF Failed, BestEffort, SignIns
<1>2. CASE ~(s.todo # <<>> /\ Head(s.todo) \in BestEffort)
  BY <1>2, EndedOK DEF Failed, Able
<1> QED
  BY <1>1, <1>2

LEMMA GoneOK ==
  LET r == [Idle EXCEPT !.pc = "ended"] IN ProcessOK(r) /\ r.creds = None /\ r.next = None
<1> DEFINE r == [Idle EXCEPT !.pc = "ended"]
<1>1. /\ r.pc = "ended" /\ r.todo = <<>> /\ r.creds = None /\ r.next = None /\ r.told = "nothing"
  BY DEF Idle
<1>2. 0 \in Int /\ <<>> \in Seq(Steps)
  OBVIOUS
<1>3. r \in Process
  BY <1>2, Zenon DEF Idle, Process, Resting
<1> QED
  BY <1>1, <1>3, NoFlow DEF ProcessOK, Honest, Placed, Resting, Running, Opening, Saving

LEMMA IdleOK == ProcessOK(Idle) /\ Idle.creds = None /\ Idle.next = None
<1>1. /\ Idle.pc = "new" /\ Idle.todo = <<>> /\ Idle.creds = None /\ Idle.next = None
      /\ Idle.told = "nothing" /\ Idle.did = 0
  BY DEF Idle
<1>2. 0 \in Int /\ <<>> \in Seq(Steps)
  OBVIOUS
<1>3. Idle \in Process
  BY <1>2, Zenon DEF Idle, Process, Resting
<1> QED
  BY <1>1, <1>3, NoFlow DEF ProcessOK, Honest, Placed, Resting, Running, Opening, Saving

LEMMA Concat ==
  ASSUME NEW S, NEW a \in Seq(S), NEW b \in Seq(S)
  PROVE  a \o b \in Seq(S) /\ Len(a \o b) = Len(a) + Len(b)
OBVIOUS

LEMMA LoginChangesNothing == MenuLogin # <<>> /\ ~HasChange(MenuLogin)
<1> DEFINE S == {"ask", "start", "poll", "save"}
<1>1. /\ Connect \in Seq(S) /\ Len(Connect) = 1
      /\ BrowserAuth \in Seq(S) /\ Len(BrowserAuth) = 3
  BY DEF Connect, BrowserAuth
<1>2. "change" \notin S
  OBVIOUS
<1> HIDE DEF S
<1>3. MenuLogin \in Seq(S) /\ Len(MenuLogin) = 4
  <2>1. MenuLogin \in Seq(S) /\ Len(MenuLogin) = Len(Connect) + Len(BrowserAuth)
    BY <1>1, Concat DEF MenuLogin
  <2> QED
    BY <1>1, <2>1
<1>4. MenuLogin # <<>> /\ \A i \in 1 .. Len(MenuLogin) : MenuLogin[i] # "change"
  BY <1>2, <1>3
<1> QED
  BY <1>4 DEF HasChange

\* It has a session to go on with, or none.
LEMMA LoadedOK ==
  ASSUME NEW s \in Process, NewFlow(s.todo), s.told = "nothing", s.did = 0,
         s.wants <=> HasChange(s.todo), NEW c \in {None} \cup Nat
  PROVE  LET r == Loaded(s, c) IN ProcessOK(r) /\ r.creds \in {c, None} /\ r.next = None
<1> DEFINE t == [s EXCEPT !.creds = c, !.pc = "run", !.held = None, !.next = None]
           login == [t EXCEPT !.todo = MenuLogin]
           menu == [t EXCEPT !.pc = "menu"]
           gone == [Idle EXCEPT !.pc = "ended"]
<1>1. t \in Process
  BY Zenon DEF Process, Running
<1>2. /\ t.pc = "run" /\ t.creds = c /\ t.held = None /\ t.next = None /\ t.todo = s.todo
      /\ (t.wants <=> s.wants) /\ t.did = s.did /\ t.told = s.told
  BY DEF Process
<1>3. ProcessOK(t)
  <2> HIDE DEF t
  <2> QED
    BY <1>1, <1>2 DEF ProcessOK, Honest, Placed, NewFlow, SaveNext, Resting, Running, Opening, Saving
<1>4. s.todo = <<>> => ProcessOK(login) /\ login.creds = c /\ login.next = None
  <2> HAVE s.todo = <<>>
  <2>1. ~t.wants
    BY <1>2, NoFlow
  <2>2. /\ NewFlow(MenuLogin) /\ MenuLogin \in Seq(Steps) /\ ~HasChange(MenuLogin)
        /\ MenuLogin # <<>>
    BY LoginChangesNothing, CommandFlows DEF NewFlow, FlowOK
  <2>3. login \in Process
    BY <1>1, <2>2, Zenon DEF Process
  <2>4. /\ login.pc = "run" /\ login.creds = c /\ login.next = None /\ login.todo = MenuLogin
        /\ (login.wants <=> t.wants) /\ login.did = s.did /\ login.told = s.told
    BY <1>1, <1>2 DEF Process
  <2> HIDE DEF login, t
  <2> QED
    BY <2>1, <2>2, <2>3, <2>4
    DEF ProcessOK, Honest, Placed, NewFlow, SaveNext, Resting, Running, Opening, Saving
<1>5. s.todo = <<>> => ProcessOK(menu) /\ menu.creds = c /\ menu.next = None
  <2> HAVE s.todo = <<>>
  <2>1. menu \in Process
    BY <1>1, Zenon DEF Process, Resting
  <2>2. /\ menu.pc = "menu" /\ menu.creds = c /\ menu.next = None /\ menu.todo = <<>>
        /\ menu.did = s.did /\ menu.told = s.told
    BY <1>1, <1>2 DEF Process
  <2> HIDE DEF menu, t
  <2> QED
    BY <2>1, <2>2, NoFlow
    DEF ProcessOK, Honest, Placed, NewFlow, SaveNext, Resting, Running, Opening, Saving
<1>6. Loaded(s, c) \in {t, login, menu, gone} /\ (Loaded(s, c) \in {login, menu} => s.todo = <<>> \/ Loaded(s, c) = t)
  BY DEF Loaded
<1>7. ProcessOK(gone) /\ gone.creds = None /\ gone.next = None
  BY GoneOK
<1> HIDE DEF t, login, menu, gone
<1> QED
  BY <1>2, <1>3, <1>4, <1>5, <1>6, <1>7

\* It has signed in and holds the new session.
LEMMA SignedOK ==
  ASSUME NEW s, Able(s), s.todo # <<>>, Head(s.todo) \in SignIns, NEW n \in Nat
  PROVE  LET r == Signed(s, n) IN ProcessOK(r) /\ r.creds = s.creds /\ r.next = n
<1>0. /\ s \in Process /\ FlowOK(s.todo)
  BY DEF Able
<1>1. /\ FlowOK(Tail(s.todo)) /\ Tail(s.todo) \in Seq(Steps)
      /\ HasChange(Tail(s.todo)) <=> HasChange(s.todo)
      /\ Tail(s.todo) # <<>> /\ Head(Tail(s.todo)) = "save"
  BY <1>0, TailOK DEF FlowOK, SignIns
<1> DEFINE r == Signed(s, n)
<1>2. /\ r.pc = "run" /\ r.todo = Tail(s.todo) /\ r.creds = s.creds /\ r.next = n
      /\ ~r.again /\ (r.wants <=> s.wants) /\ r.did = s.did /\ r.told = s.told
  BY <1>0 DEF Signed, Go, Process, Able
<1>3. r \in Process
  <2>1. 0 \in Int
    OBVIOUS
  <2> QED
    BY <1>0, <1>1, <2>1, Zenon DEF Signed, Go, Process, Running
<1>4. Honest(r)
  BY <1>0, <1>1, <1>2 DEF Honest, Able, Running, Resting
<1>5. Placed(r)
  BY <1>1, <1>2, NoneAssumption DEF Placed, SaveNext, Resting, Opening, Saving
<1> QED
  BY <1>1, <1>2, <1>3, <1>4, <1>5 DEF ProcessOK

\* It has stored its session, and goes on with it.
LEMMA SavedOK ==
  ASSUME NEW s, ProcessOK(s), s.pc = "data"
  PROVE  LET r == Saved(s) IN ProcessOK(r) /\ r.creds = s.next /\ r.next = None
<1>0. /\ s \in Process /\ FlowOK(s.todo) /\ s.next # None /\ s.told = "nothing" /\ s.did = 0
      /\ (s.wants <=> HasChange(s.todo))
  BY DEF ProcessOK, Honest, Placed, Saving, Opening, Running, Process
<1> DEFINE t == [s EXCEPT !.creds = s.next, !.next = None, !.held = None, !.pc = "run"]
<1>1. t \in Process
  BY <1>0, Zenon DEF Process, Running
<1>2. /\ t.creds = s.next /\ t.next = None /\ t.todo = s.todo /\ t.told = s.told /\ t.did = s.did
      /\ (t.wants <=> s.wants) /\ t.kind = s.kind
  BY <1>0 DEF Process
<1> HIDE DEF t
<1>3. CASE t.todo # <<>> /\ Head(t.todo) = "save"
  <2>1. Able(t)
    BY <1>0, <1>1, <1>2 DEF Able
  <2>2. Saved(s) = Go(t)
    BY <1>3 DEF Saved, t
  <2> QED
    BY <1>2, <1>3, <2>1, <2>2, GoOK DEF SignIns
<1>4. CASE ~(t.todo # <<>> /\ Head(t.todo) = "save")
  <2>1. Saved(s) = Loaded(t, t.creds)
    BY <1>4 DEF Saved, t
  <2>2. t.creds \in {None} \cup Nat
    BY <1>1 DEF Process
  <2>3. ProcessOK(Loaded(t, t.creds)) /\ Loaded(t, t.creds).next = None
    BY <1>0, <1>1, <1>2, <1>4, <2>2, LoadedOK DEF NewFlow
  <2>4. Loaded(t, t.creds).creds = t.creds
    BY <1>0, <1>1, <1>2 DEF Loaded, Process
  <2> QED
    BY <1>2, <2>1, <2>3, <2>4
<1> QED
  BY <1>3, <1>4

-----------------------------------------------------------------------------
(* Who has which session *)

\* The process has no session that nobody had, and is about to store none but the one it
\* was about to store.
NothingNew(s, r) ==
  /\ r.creds \in {None, CliToken, s.creds, legacy} \cup Stored
                 \cup (IF OnItsWay(s) THEN {} ELSE {s.next})
  /\ r.next \in {None, CliToken, s.next, legacy} \cup Stored
  /\ OnItsWay(r) => OnItsWay(s) /\ r.next = s.next

LEMMA Sessions ==
  ASSUME SessionTypes
  PROVE  /\ Stored \subseteq {None} \cup 0 .. newest
         /\ CliToken \in 0 .. newest /\ CliToken \notin valid
         /\ None \notin 0 .. newest
         /\ \A n \in 0 .. newest : n \in Nat
BY NoneAssumption DEF SessionTypes, Stored, Torn, CliToken

\* A step that issues and stores no session
LEMMA KeepsSessions ==
  ASSUME ClientsInv, NEW p \in Procs, NEW r, Becomes(p, r), ProcessOK(r),
         NothingNew(procs[p], r), Unsaved(procs[p]) \subseteq Unsaved(r) \cup ended',
         newest' = newest, accepted' \subseteq 0 .. newest,
         ended \subseteq ended', ended' \subseteq 0 .. newest,
         valid' \subseteq valid, valid \ valid' \subseteq ended' \cap {procs[p].creds},
         file' \in {file, None, Torn}, legacy' \in {legacy, None}, key' \in {None} \cup Keys
  PROVE  ClientsInv'
<1> DEFINE s == procs[p]
<1>0. /\ procs \in [Procs -> Process] /\ \A q \in Procs : ProcessOK(procs[q])
      /\ SessionTypes /\ OneHolder /\ StoredLives
  BY DEF ClientsInv
<1>1. /\ procs' \in [Procs -> Process] /\ procs'[p] = r
      /\ \A q \in Procs : q # p => procs'[q] = procs[q]
  BY <1>0 DEF Becomes, ProcessOK
<1>2. \A q \in Procs : ProcessOK(procs'[q])
  BY <1>0, <1>1
<1>3. Stored' \subseteq Stored
  BY DEF Stored
<1>4. {r.creds, r.next} \subseteq {None} \cup 0 .. newest
  <2>1. {s.creds, s.next, legacy} \subseteq {None} \cup 0 .. newest
    BY <1>0 DEF SessionTypes
  <2> QED
    BY <1>0, <2>1, Sessions DEF NothingNew
<1>5. SessionTypes'
  <2>1. file' \in [creds : {None} \cup 0 .. newest, key : {None} \cup Keys] \cup {None}
    BY <1>0 DEF SessionTypes, Torn
  <2>2. \A q \in Procs : {procs'[q].creds, procs'[q].next} \subseteq {None} \cup 0 .. newest
    BY <1>0, <1>1, <1>4 DEF SessionTypes
  <2>3. valid' \subseteq 1 .. newest /\ legacy' \in {None} \cup 1 .. newest
    BY <1>0 DEF SessionTypes
  <2> QED
    BY <1>0, <2>1, <2>2, <2>3 DEF SessionTypes
<1>6. OneHolder'
  <2> SUFFICES ASSUME NEW q \in Procs, OnItsWay(procs'[q])
               PROVE  LET n == procs'[q].next IN
                      /\ n \in valid' /\ n \notin Stored' /\ n # legacy'
                      /\ \A x \in Procs : procs'[x].creds # n /\ (x # q => procs'[x].next # n)
    BY DEF OneHolder
  <2> DEFINE n == procs'[q].next
  <2>1. OnItsWay(procs[q]) /\ procs[q].next = n /\ n \notin {None, CliToken}
    BY <1>1 DEF NothingNew, OnItsWay
  <2>2. /\ n \in valid /\ n \notin Stored /\ n # legacy
        /\ \A x \in Procs : procs[x].creds # n /\ (x # q => procs[x].next # n)
    BY <1>0, <2>1 DEF OneHolder
  <2>3. n \in valid' /\ n \notin Stored' /\ n # legacy'
    BY <1>3, <2>1, <2>2
  <2>4. p # q => r.next # n
    BY <2>1, <2>2 DEF NothingNew
  <2>5. r.creds # n
    <3>1. CASE p = q
      BY <2>1, <2>2, <3>1 DEF NothingNew
    <3>2. CASE p # q
      BY <2>1, <2>2, <3>2 DEF NothingNew
    <3> QED
      BY <3>1, <3>2
  <2>6. ASSUME NEW x \in Procs
        PROVE  procs'[x].creds # n /\ (x # q => procs'[x].next # n)
    BY <1>1, <2>2, <2>4, <2>5
  <2> QED
    BY <2>3, <2>6
<1>7. StoredLives'
  <2> SUFFICES ASSUME NEW n \in Stored'
               PROVE  n \in {CliToken} \cup valid' \cup ended' \cup Replaced'
    BY DEF StoredLives
  <2>1. n \in {CliToken} \cup valid \cup ended \cup Replaced
    BY <1>0, <1>3 DEF StoredLives
  <2>2. n \in valid => n \in valid' \cup ended'
    OBVIOUS
  <2>3. n \in Replaced => n \in Replaced' \cup ended'
    <3> SUFFICES ASSUME NEW q \in Procs, n \in Unsaved(procs[q])
                 PROVE  n \in Replaced' \cup ended'
      BY DEF Replaced
    <3>1. n \in Unsaved(procs'[q]) \cup ended'
      BY <1>1
    <3> QED
      BY <3>1 DEF Replaced
  <2> QED
    BY <2>1, <2>2, <2>3
<1> QED
  BY <1>1, <1>2, <1>5, <1>6, <1>7 DEF ClientsInv

-----------------------------------------------------------------------------
(* Every step keeps the invariant. *)

USE DEF issuer, store, counters, On, StandsAt, Step, Fault

LEMMA TheProcess ==
  ASSUME ClientsInv, NEW p \in Procs
  PROVE  /\ ProcessOK(procs[p]) /\ procs[p] \in Process /\ Placed(procs[p])
         /\ FlowOK(procs[p].todo)
         /\ SessionTypes
BY DEF ClientsInv, ProcessOK

\* A process about to take a step other than to store a session
LEMMA OnAble ==
  ASSUME ClientsInv, NEW p \in Procs, NEW steps, On(p, steps), "save" \notin steps
  PROVE  /\ Able(procs[p]) /\ ProcessOK(procs[p]) /\ procs[p].next = None
         /\ procs[p].todo # <<>> /\ Head(procs[p].todo) \in steps
<1>1. ProcessOK(procs[p]) /\ Placed(procs[p])
  BY TheProcess
<1>2. procs[p].next = None
  BY <1>1 DEF Placed, SaveNext
<1> QED
  BY <1>1, <1>2, RunningAble DEF Running

LEMMA NoneHeld == ASSUME NEW s, s.next = None PROVE ~OnItsWay(s) /\ Unsaved(s) = {}
BY DEF OnItsWay, Unsaved

\* A step of a process with no session on its way, which leaves all but the process alone
LEMMA Quietly ==
  ASSUME ClientsInv, NEW p \in Procs, NEW r, Becomes(p, r), ProcessOK(r),
         Unsaved(procs[p]) \subseteq ended', ended' \in {ended, ended \cup Unsaved(procs[p])},
         r.next = None, r.creds \in {None, CliToken, procs[p].creds}, UNCHANGED <<issuer, store>>
  PROVE  ClientsInv'
<1>0. SessionTypes /\ procs[p].creds \in {None} \cup 0 .. newest
  BY TheProcess DEF SessionTypes
<1>1. NothingNew(procs[p], r)
  BY NoneHeld DEF NothingNew
<1>2. ended' \subseteq 0 .. newest /\ accepted' \subseteq 0 .. newest /\ key' \in {None} \cup Keys
  <2>1. Unsaved(procs[p]) \subseteq 0 .. newest
    BY <1>0, TheProcess DEF Unsaved, Placed
  <2> QED
    BY <1>0, <2>1 DEF SessionTypes
<1> QED
  BY <1>1, <1>2, KeepsSessions

LEMMA MovedOK ==
  ASSUME NEW s, ProcessOK(s), s.pc \in Running, s.did = 0, NEW x \in Running,
         Placed([s EXCEPT !.pc = x])
  PROVE  LET r == [s EXCEPT !.pc = x] IN
         /\ ProcessOK(r) /\ r.creds = s.creds /\ r.next = s.next
         /\ Unsaved(r) = Unsaved(s) /\ (OnItsWay(r) <=> OnItsWay(s))
<1> DEFINE r == [s EXCEPT !.pc = x]
<1>0. s \in Process /\ FlowOK(s.todo) /\ Honest(s)
  BY DEF ProcessOK
<1>1. r \in Process
  BY <1>0, Zenon DEF Process
<1>2. /\ r.pc = x /\ r.creds = s.creds /\ r.next = s.next /\ r.todo = s.todo /\ r.told = s.told
      /\ r.did = s.did /\ (r.wants <=> s.wants) /\ (r.again <=> s.again)
  BY <1>0 DEF Process
<1> HIDE DEF r
<1>3. Honest(r)
  BY <1>0, <1>2 DEF Honest, Running, Resting
<1>4. Unsaved(r) = Unsaved(s) /\ (OnItsWay(r) <=> OnItsWay(s))
  BY <1>2 DEF Unsaved, OnItsWay
<1> QED
  BY <1>0, <1>1, <1>2, <1>3, <1>4 DEF ProcessOK, r

\* A step to another place, with the same sessions in hand
LEMMA Moves ==
  ASSUME ClientsInv, NEW p \in Procs, NEW x \in Running,
         procs[p].pc \in Running, procs[p].did = 0,
         LET r == [procs[p] EXCEPT !.pc = x] IN Becomes(p, r) /\ Placed(r),
         file' \in {file, Torn}, UNCHANGED <<issuer, legacy, key, ended>>
  PROVE  ClientsInv'
<1> DEFINE r == [procs[p] EXCEPT !.pc = x]
<1>0. SessionTypes /\ ProcessOK(procs[p])
  BY TheProcess
<1>1. /\ ProcessOK(r) /\ r.creds = procs[p].creds /\ r.next = procs[p].next
      /\ Unsaved(r) = Unsaved(procs[p]) /\ (OnItsWay(r) <=> OnItsWay(procs[p]))
  BY <1>0, MovedOK
<1> HIDE DEF r
<1>2. NothingNew(procs[p], r)
  BY <1>1 DEF NothingNew
<1>3. Becomes(p, r)
  BY DEF r
<1> QED
  BY <1>0, <1>1, <1>2, <1>3, KeepsSessions DEF SessionTypes

LEMMA StartInv == ASSUME ClientsInv, NEW p \in Procs, Start(p) PROVE ClientsInv'
<1>0. ProcessOK(procs[p]) /\ procs[p].next = None
  BY TheProcess DEF Start, Placed, Resting
<1> PICK i \in Invocations[p] :
       Becomes(p, [Flow(Idle, i.flow) EXCEPT !.kind = i.kind,
                                             !.pc = IF "save" \in Range(i.flow) THEN "run" ELSE "load",
                                             !.creds = IF i.env THEN CliToken ELSE None])
  BY DEF Start
<1>1. i.kind \in {"cli", "menu", "mcp"} /\ NewFlow(i.flow)
  <2>1. i.flow \in Commands \cup {<<>>} /\ i.kind \in {"cli", "menu", "mcp"}
    BY FlowAssumption
  <2> QED
    BY <2>1, CommandFlows DEF MenuChoices
<1>2. i.flow \in Seq(Steps) /\ FlowOK(i.flow)
  BY <1>1 DEF NewFlow, FlowOK
<1> DEFINE f == Flow(Idle, i.flow)
           r == [f EXCEPT !.kind = i.kind,
                          !.pc = IF "save" \in Range(i.flow) THEN "run" ELSE "load",
                          !.creds = IF i.env THEN CliToken ELSE None]
<1>3. f \in Process
  <2>1. ("change" \in Range(i.flow)) \in BOOLEAN
    OBVIOUS
  <2>2. Idle \in Process
    BY IdleOK DEF ProcessOK
  <2> QED
    BY <1>2, <2>1, <2>2, Zenon DEF Flow, Process
<1>4. /\ f.todo = i.flow /\ (f.wants <=> "change" \in Range(i.flow)) /\ f.did = 0
      /\ f.told = "nothing" /\ f.next = None /\ ~f.again
  BY DEF Flow, Idle
<1> HIDE DEF f
<1>5. r \in Process
  <2>1. (IF "save" \in Range(i.flow) THEN "run" ELSE "load") \in Running
    BY DEF Running
  <2>2. (IF i.env THEN CliToken ELSE None) \in {None} \cup Nat
    BY DEF CliToken
  <2> QED
    BY <1>1, <1>3, <2>1, <2>2, Zenon DEF Process
<1>6. /\ r.todo = i.flow /\ (r.wants <=> HasChange(i.flow)) /\ r.did = 0 /\ r.told = "nothing"
      /\ r.next = None /\ ~r.again /\ r.creds \in {None, CliToken}
      /\ r.pc = (IF HasSave(i.flow) THEN "run" ELSE "load")
  BY <1>2, <1>3, <1>4, RangeHas DEF Process
<1> HIDE DEF r
<1>7. ProcessOK(r)
  BY <1>1, <1>2, <1>5, <1>6
  DEF ProcessOK, Honest, Placed, NewFlow, SaveNext, Resting, Running, Opening, Saving
<1> QED
  BY <1>0, <1>6, <1>7, Quietly, NoneHeld DEF Start, r, f

LEMMA LoadFileInv == ASSUME ClientsInv, NEW p \in Procs, LoadFile(p) PROVE ClientsInv'
<1> DEFINE s == procs[p]
<1>0. /\ ProcessOK(s) /\ s \in Process /\ NewFlow(s.todo) /\ s.told = "nothing" /\ s.did = 0
      /\ (s.wants <=> HasChange(s.todo)) /\ s.next = None /\ ~s.again /\ ~HasSave(s.todo)
      /\ SessionTypes /\ s.pc = "load" /\ s.pc \in Running
  <2>1. ProcessOK(s) /\ SessionTypes /\ s.pc = "load" /\ ~HasSave(s.todo)
    BY TheProcess DEF LoadFile, Placed
  <2>2. s.todo # <<>> => Head(s.todo) # "save"
    BY <2>1 DEF ProcessOK, FlowOK, HasSave
  <2> QED
    BY <2>1, <2>2 DEF ProcessOK, Honest, Placed, NewFlow, Running, Process
<1>1. ASSUME NEW c \in {None, CliToken}, Becomes(p, Loaded(s, c))
      PROVE  ClientsInv'
  BY <1>0, <1>1, LoadedOK, Quietly, NoneHeld DEF LoadFile, CliToken
<1>2. ASSUME NEW pc \in {"save", "unlock"}, NEW c \in {legacy} \cup Stored, c # None,
             NEW k \in {None} \cup Keys,
             Becomes(p, [s EXCEPT !.pc = pc, !.next = c, !.held = k])
      PROVE  ClientsInv'
  <2> DEFINE r == [s EXCEPT !.pc = pc, !.next = c, !.held = k]
  <2>1. c \in Nat
    BY <1>0, <1>2, Sessions DEF SessionTypes
  <2>2. r \in Process
    <3>1. pc \in Running
      BY DEF Running, Saving, Opening
    <3> QED
      BY <1>0, <2>1, <3>1, Zenon DEF Process
  <2>3. /\ r.pc = pc /\ r.next = c /\ r.todo = s.todo /\ (r.wants <=> s.wants) /\ r.did = s.did
        /\ r.told = s.told /\ ~r.again /\ r.creds = s.creds
    BY <1>0 DEF Process
  <2> HIDE DEF r
  <2>4. ProcessOK(r)
    BY <1>0, <1>2, <2>2, <2>3
    DEF ProcessOK, Honest, Placed, NewFlow, SaveNext, Resting, Running, Opening, Saving
  <2>5. ~OnItsWay(r) /\ Unsaved(s) = {}
    BY <1>0, <2>3 DEF OnItsWay, Unsaved
  <2>6. NothingNew(s, r)
    BY <2>3, <2>5 DEF NothingNew
  <2> QED
    BY <1>0, <1>2, <2>4, <2>5, <2>6, KeepsSessions DEF SessionTypes, r, LoadFile
<1>3. CASE s.creds # CliToken /\ file = None /\ legacy # None
  <2>1. Becomes(p, [s EXCEPT !.pc = "save", !.next = legacy])
    BY <1>3 DEF LoadFile
  <2>2. [s EXCEPT !.pc = "save", !.next = legacy] = [s EXCEPT !.pc = "save", !.next = legacy, !.held = s.held]
    BY <1>0 DEF Process
  <2>3. s.held \in {None} \cup Keys
    BY <1>0 DEF Process
  <2> QED
    BY <1>2, <1>3, <2>1, <2>2, <2>3
<1>4. CASE s.creds # CliToken /\ file # None /\ file # Torn
  <2>1. Becomes(p, [s EXCEPT !.pc = "unlock", !.next = file.creds, !.held = file.key])
    BY <1>4 DEF LoadFile
  <2>2. file.creds \in Stored /\ file.key \in {None} \cup Keys /\ file.creds # None
    <3>1. file.creds \in Stored /\ file.key \in {None} \cup Keys
      BY <1>0, <1>4 DEF Stored, SessionTypes
    <3>2. StoredLives
      BY DEF ClientsInv
    <3>3. None \notin {CliToken} \cup valid \cup ended \cup Replaced
      <4>1. \A q \in Procs : None \notin Unsaved(procs[q])
        BY TheProcess DEF Unsaved, Placed
      <4> QED
        BY <1>0, <4>1, Sessions DEF Replaced, SessionTypes
    <3> QED
      BY <3>1, <3>2, <3>3 DEF StoredLives
  <2> QED
    BY <1>2, <2>1, <2>2
<1>5. CASE s.creds = CliToken \/ (file # None /\ file = Torn) \/ (file = None /\ legacy = None)
  BY <1>1, <1>5 DEF LoadFile
<1> QED
  BY <1>3, <1>4, <1>5

LEMMA McpLoadInv == ASSUME ClientsInv, NEW p \in Procs, McpLoad(p) PROVE ClientsInv'
<1> DEFINE s == procs[p]
           c == IF file # None /\ file # Torn /\ file.key = key THEN file.creds ELSE legacy
<1>0. /\ ProcessOK(s) /\ s \in Process /\ NewFlow(s.todo) /\ s.told = "nothing" /\ s.did = 0
      /\ (s.wants <=> HasChange(s.todo)) /\ s.next = None
      /\ SessionTypes /\ s.pc = "load"
  <2>1. ProcessOK(s) /\ SessionTypes /\ s.pc = "load" /\ ~HasSave(s.todo)
    BY TheProcess DEF McpLoad, Placed
  <2>2. s.todo # <<>> => Head(s.todo) # "save"
    BY <2>1 DEF ProcessOK, FlowOK, HasSave
  <2> QED
    BY <2>1, <2>2 DEF ProcessOK, Honest, Placed, NewFlow, Running, Process
<1>1. c \in {legacy} \cup Stored
  BY DEF Stored
<1>2. c \in {None} \cup Nat
  BY <1>0, <1>1, Sessions DEF SessionTypes
<1>3. Becomes(p, Loaded(s, c)) /\ UNCHANGED <<issuer, store, ended>>
  BY DEF McpLoad
<1> HIDE DEF c
<1> DEFINE r == Loaded(s, c)
<1>4. ProcessOK(r) /\ r.creds \in {c, None} /\ r.next = None
  BY <1>0, <1>2, LoadedOK
<1> HIDE DEF r
<1>5. NothingNew(s, r) /\ Unsaved(s) = {}
  BY <1>0, <1>1, <1>4, NoneHeld DEF NothingNew
<1> QED
  BY <1>0, <1>3, <1>4, <1>5, KeepsSessions DEF SessionTypes, r

\* The key has been found or made.
LEMMA WithKeyInv ==
  ASSUME ClientsInv, NEW p \in Procs, procs[p].pc \in Opening \cup {"save", "makeToSave"},
         NEW k \in Keys, key' \in {None} \cup Keys, Becomes(p, WithKey(procs[p], k)),
         UNCHANGED <<issuer, file, legacy, ended>>
  PROVE  ClientsInv'
<1> DEFINE s == procs[p]
<1>0. /\ ProcessOK(s) /\ s \in Process /\ s.told = "nothing" /\ s.did = 0
      /\ (s.wants <=> HasChange(s.todo)) /\ s.next # None /\ FlowOK(s.todo)
      /\ SessionTypes
  BY TheProcess DEF ProcessOK, Honest, Placed, Running, Opening, Saving, Process
<1>1. CASE s.pc \in Opening
  <2> DEFINE c == IF s.held = k THEN s.next ELSE None
             r == Loaded(s, c)
  <2>1. c \in {None} \cup Nat /\ c \in {None, s.next}
    BY <1>0 DEF Process
  <2>2. ~s.again /\ ~HasSave(s.todo)
    BY <1>0, <1>1 DEF ProcessOK, Placed
  <2>3. NewFlow(s.todo)
    BY <1>0, <2>2 DEF NewFlow, FlowOK, HasSave
  <2>4. WithKey(s, k) = r
    BY <1>1 DEF WithKey, Opening
  <2> HIDE DEF c
  <2>5. ProcessOK(r) /\ r.creds \in {c, None} /\ r.next = None
    BY <1>0, <2>1, <2>3, LoadedOK
  <2> HIDE DEF r
  <2>6. NothingNew(s, r) /\ Unsaved(s) = {}
    BY <2>1, <2>2, <2>5, NoneHeld DEF NothingNew, OnItsWay, Unsaved
  <2> QED
    BY <1>0, <2>4, <2>5, <2>6, KeepsSessions DEF SessionTypes
<1>2. CASE s.pc \in {"save", "makeToSave"}
  <2> DEFINE r == [s EXCEPT !.pc = "open", !.held = k]
  <2>1. WithKey(s, k) = r
    BY <1>2 DEF WithKey, Opening
  <2>2. r \in Process
    <3>1. "open" \in Running
      BY DEF Running, Saving
    <3> QED
      BY <1>0, <3>1, Zenon DEF Process
  <2>3. /\ r.pc = "open" /\ r.creds = s.creds /\ r.next = s.next /\ r.todo = s.todo
        /\ r.told = s.told /\ r.did = s.did /\ (r.wants <=> s.wants) /\ (r.again <=> s.again)
    BY <1>0 DEF Process
  <2> HIDE DEF r
  <2>4. ProcessOK(r)
    BY <1>0, <2>2, <2>3 DEF ProcessOK, Honest, Placed, SaveNext, Resting, Running, Opening, Saving
  <2>5. NothingNew(s, r) /\ Unsaved(s) = Unsaved(r)
    BY <2>3 DEF NothingNew, OnItsWay, Unsaved
  <2> QED
    BY <1>0, <2>1, <2>4, <2>5, KeepsSessions DEF SessionTypes
<1> QED
  BY <1>1, <1>2

LEMMA GetKeyInv == ASSUME ClientsInv, NEW p \in Procs, GetKey(p) PROVE ClientsInv'
<1> DEFINE s == procs[p]
<1>0. SessionTypes /\ ProcessOK(s) /\ Placed(s) /\ s.did = 0
  BY TheProcess DEF GetKey, ProcessOK, Honest, Running, Opening, Saving, Process
<1>1. CASE key # None
  BY <1>0, <1>1, WithKeyInv DEF GetKey, SessionTypes, Opening
<1>2. CASE key = None
  <2> DEFINE x == IF s.pc = "unlock" THEN "makeToOpen" ELSE "makeToSave"
             r == [s EXCEPT !.pc = x]
  <2>1. Becomes(p, r)
    BY <1>2 DEF GetKey
  <2>2. r.pc = x /\ r.next = s.next /\ r.todo = s.todo /\ (r.again <=> s.again) /\ r.creds = s.creds
    BY <1>0 DEF ProcessOK, Process
  <2>3. Placed(r)
    <3> HIDE DEF r
    <3> QED
      BY <1>0, <2>2 DEF GetKey, Placed, Resting, Opening, Saving
  <2>4. x \in Running /\ s.pc \in Running
    BY DEF GetKey, Running, Opening, Saving
  <2>5. UNCHANGED <<issuer, file, legacy, key, ended>>
    BY DEF GetKey
  <2> HIDE DEF x
  <2> QED
    BY <1>0, <2>1, <2>3, <2>4, <2>5, Moves
<1> QED
  BY <1>1, <1>2

LEMMA UnusedKey == (CHOOSE k \in Keys : k \notin InUse) \in Keys
<1> DEFINE held == {procs[p].held : p \in Procs}
           f == IF file = None THEN None ELSE file.key
<1>1. IsFiniteSet(held) /\ Cardinality(held) <= Cardinality(Procs)
  <2> DEFINE h == [p \in Procs |-> procs[p].held]
  <2>1. h \in Surjection(Procs, held)
    BY DEF Surjection
  <2> QED
    BY <2>1, FS_Surjection, KeyAssumption
<1> HIDE DEF held, f
<1>2. IsFiniteSet(held \cup {key}) /\ Cardinality(held \cup {key}) <= Cardinality(held) + 1
  <2>1. /\ IsFiniteSet(held \cup {key})
        /\ Cardinality(held \cup {key}) = IF key \in held THEN Cardinality(held) ELSE Cardinality(held) + 1
    BY <1>1, FS_AddElement
  <2>2. Cardinality(held) \in Nat
    BY <1>1, FS_CardinalityType
  <2> QED
    BY <2>1, <2>2
<1>3. /\ IsFiniteSet((held \cup {key}) \cup {f})
      /\ Cardinality((held \cup {key}) \cup {f}) <= Cardinality(held \cup {key}) + 1
  <2> DEFINE T == held \cup {key}
  <2> HIDE DEF T
  <2>0. IsFiniteSet(T)
    BY <1>2 DEF T
  <2>1. /\ IsFiniteSet(T \cup {f})
        /\ Cardinality(T \cup {f}) = IF f \in T THEN Cardinality(T) ELSE Cardinality(T) + 1
    BY <2>0, FS_AddElement
  <2>2. Cardinality(T) \in Nat
    BY <2>0, FS_CardinalityType
  <2> QED
    BY <2>1, <2>2 DEF T
<1>4. InUse = (held \cup {key}) \cup {f}
  BY DEF InUse, held, f
<1>5. IsFiniteSet(InUse) /\ Cardinality(InUse) <= Cardinality(Procs) + 2
  BY <1>1, <1>2, <1>3, <1>4, FS_CardinalityType, KeyAssumption
<1>6. ~(Keys \subseteq InUse)
  <2> SUFFICES ASSUME Keys \subseteq InUse
               PROVE  FALSE
    OBVIOUS
  <2>1. IsFiniteSet(Keys) /\ Cardinality(Keys) <= Cardinality(InUse)
    BY <1>5, FS_Subset
  <2> QED
    BY <1>5, <2>1, FS_CardinalityType, KeyAssumption
<1> QED
  BY <1>6

LEMMA MakeKeyInv == ASSUME ClientsInv, NEW p \in Procs, MakeKey(p) PROVE ClientsInv'
<1>1. key' \in Keys
  BY UnusedKey DEF MakeKey
<1> QED
  BY <1>1, WithKeyInv DEF MakeKey, Opening

LEMMA OpenFileInv == ASSUME ClientsInv, NEW p \in Procs, OpenFile(p) PROVE ClientsInv'
<1> DEFINE s == procs[p]
           r == [s EXCEPT !.pc = "data"]
<1>0. SessionTypes /\ ProcessOK(s) /\ Placed(s) /\ s.did = 0
  BY TheProcess DEF OpenFile, ProcessOK, Honest, Running, Opening, Saving, Process
<1>1. r.pc = "data" /\ r.next = s.next /\ r.todo = s.todo /\ (r.again <=> s.again) /\ r.creds = s.creds
  BY <1>0 DEF ProcessOK, Process
<1>2. Placed(r)
  <2> HIDE DEF r
  <2> QED
    BY <1>0, <1>1 DEF OpenFile, Placed, Resting, Opening, Saving
<1> QED
  BY <1>0, <1>2, Moves DEF OpenFile, Running, Saving

LEMMA WriteFileInv == ASSUME ClientsInv, NEW p \in Procs, WriteFile(p) PROVE ClientsInv'
<1> DEFINE s == procs[p]
           r == Saved(s)
<1>0. /\ procs \in [Procs -> Process] /\ \A q \in Procs : ProcessOK(procs[q])
      /\ SessionTypes /\ OneHolder /\ StoredLives
  BY DEF ClientsInv
<1>1. /\ s.pc = "data" /\ file' = [creds |-> s.next, key |-> s.held] /\ legacy' = None
      /\ Becomes(p, r) /\ ended' = (IF Loading(s) THEN ended \cup {s.next} ELSE ended)
      /\ UNCHANGED <<issuer, key>>
  BY DEF WriteFile
<1>2. /\ ProcessOK(r) /\ r.creds = s.next /\ r.next = None
  BY <1>0, <1>1, SavedOK
<1>3. s.next \in 0 .. newest /\ s.next # None /\ s.held \in {None} \cup Keys
  BY <1>0, <1>1 DEF ProcessOK, Placed, Saving, SessionTypes, Process
<1>4. Loading(s) \/ s.next = CliToken \/ OnItsWay(s)
  BY <1>0, <1>3, RangeHas DEF Loading, OnItsWay, ProcessOK, FlowOK
<1> HIDE DEF r
<1>5. /\ procs' \in [Procs -> Process] /\ procs'[p] = r
      /\ \A q \in Procs : q # p => procs'[q] = procs[q]
  BY <1>0, <1>1, <1>2 DEF Becomes, ProcessOK
<1>6. Stored' \subseteq {s.next}
  BY <1>1 DEF Stored
<1>7. SessionTypes'
  <2>1. file' \in [creds : {None} \cup 0 .. newest, key : {None} \cup Keys]
    BY <1>1, <1>3
  <2>2. \A q \in Procs : {procs'[q].creds, procs'[q].next} \subseteq {None} \cup 0 .. newest
    BY <1>0, <1>2, <1>3, <1>5 DEF SessionTypes
  <2>3. ended' \subseteq 0 .. newest
    BY <1>0, <1>1, <1>3 DEF SessionTypes
  <2> QED
    BY <1>0, <1>1, <2>1, <2>2, <2>3 DEF SessionTypes
<1>8. OneHolder'
  <2> SUFFICES ASSUME NEW q \in Procs, OnItsWay(procs'[q])
               PROVE  LET n == procs'[q].next IN
                      /\ n \in valid' /\ n \notin Stored' /\ n # legacy'
                      /\ \A x \in Procs : procs'[x].creds # n /\ (x # q => procs'[x].next # n)
    BY DEF OneHolder
  <2> DEFINE n == procs'[q].next
  <2>1. q # p /\ OnItsWay(procs[q]) /\ procs[q].next = n /\ n # None
    BY <1>2, <1>5 DEF OnItsWay
  <2>2. n \in valid /\ \A x \in Procs : procs[x].creds # n /\ (x # q => procs[x].next # n)
    BY <1>0, <2>1 DEF OneHolder
  <2>3. n \in valid' /\ n \notin Stored' /\ n # legacy' /\ n # s.next
    BY <1>1, <1>6, <2>1, <2>2
  <2>4. ASSUME NEW x \in Procs
        PROVE  procs'[x].creds # n /\ (x # q => procs'[x].next # n)
    BY <1>2, <1>5, <2>1, <2>2, <2>3
  <2> QED
    BY <2>3, <2>4
<1>9. StoredLives'
  <2>1. s.next \in {CliToken} \cup valid' \cup ended'
    BY <1>0, <1>1, <1>4 DEF OneHolder
  <2> QED
    BY <1>6, <2>1 DEF StoredLives
<1>10. \A q \in Procs : ProcessOK(procs'[q])
  BY <1>0, <1>2, <1>5
<1> QED
  BY <1>5, <1>7, <1>8, <1>9, <1>10 DEF ClientsInv

\* The server has issued a session for the process, perhaps in place of its old one.
LEMMA Issues ==
  ASSUME ClientsInv, NEW p \in Procs, NEW r, Becomes(p, r), ProcessOK(r), procs[p].next = None,
         NEW old \in {None, procs[p].creds}, IssueSession(newest + 1, old),
         r.creds \in {None, procs[p].creds, newest + 1}, r.next \in {None, newest + 1},
         r.next # None => r.creds # newest + 1,
         ended' \in {ended, ended \cup ({old} \ {None})},
         old # None => old \in ended' \cup Unsaved(r), UNCHANGED store
  PROVE  ClientsInv'
<1> DEFINE s == procs[p]
           m == newest + 1
<1>0. /\ procs \in [Procs -> Process] /\ \A q \in Procs : ProcessOK(procs[q])
      /\ SessionTypes /\ OneHolder /\ StoredLives
  BY DEF ClientsInv
<1>1. /\ newest' = m /\ valid' = (valid \ {old}) \cup {m} /\ accepted' = accepted \cup {m}
      /\ UNCHANGED <<file, legacy, key>>
  BY DEF IssueSession
<1>2. /\ procs' \in [Procs -> Process] /\ procs'[p] = r
      /\ \A q \in Procs : q # p => procs'[q] = procs[q]
  BY <1>0 DEF Becomes, ProcessOK
<1>3. /\ newest \in Nat /\ m \in Nat /\ m \notin 0 .. newest /\ m # None /\ m # CliToken
      /\ 0 .. newest \subseteq 0 .. m /\ 1 .. newest \subseteq 1 .. m /\ m \in 1 .. m /\ m \in 0 .. m
  BY <1>0, NoneAssumption DEF SessionTypes, CliToken
<1> HIDE DEF m
<1>4. /\ Stored \subseteq {None} \cup 0 .. newest /\ legacy \in {None} \cup 0 .. newest
      /\ \A q \in Procs : {procs[q].creds, procs[q].next} \subseteq {None} \cup 0 .. newest
  BY <1>0, Sessions DEF SessionTypes
<1>5. SessionTypes'
  <2>1. file' \in [creds : {None} \cup 0 .. m, key : {None} \cup Keys] \cup {None}
    BY <1>0, <1>1, <1>3 DEF SessionTypes
  <2>2. \A q \in Procs : {procs'[q].creds, procs'[q].next} \subseteq {None} \cup 0 .. m
    <3> TAKE q \in Procs
    <3>1. CASE q = p
      BY <1>2, <1>3, <1>4, <3>1 DEF m
    <3>2. CASE q # p
      BY <1>2, <1>3, <1>4, <3>2
    <3> QED
      BY <3>1, <3>2
  <2>3. ended' \subseteq 0 .. m
    BY <1>0, <1>3, <1>4 DEF SessionTypes
  <2>4. valid' \subseteq 1 .. m /\ accepted' \subseteq 0 .. m /\ legacy' \in {None} \cup 1 .. m
    BY <1>0, <1>1, <1>3 DEF SessionTypes
  <2>5. key' \in {None} \cup Keys
    BY <1>0, <1>1 DEF SessionTypes
  <2> QED
    BY <1>1, <1>3, <2>1, <2>2, <2>3, <2>4, <2>5 DEF SessionTypes
<1>6. Stored' = Stored
  BY <1>1 DEF Stored
<1>7. OneHolder'
  <2> SUFFICES ASSUME NEW q \in Procs, OnItsWay(procs'[q])
               PROVE  LET n == procs'[q].next IN
                      /\ n \in valid' /\ n \notin Stored' /\ n # legacy'
                      /\ \A x \in Procs : procs'[x].creds # n /\ (x # q => procs'[x].next # n)
    BY DEF OneHolder
  <2> DEFINE n == procs'[q].next
  <2>1. CASE q = p
    <3>1. n = m /\ r.creds # m /\ r.next = m
      BY <1>2, <2>1 DEF OnItsWay, m
    <3>2. n \in valid' /\ n \notin Stored' /\ n # legacy'
      BY <1>1, <1>3, <1>4, <1>6, <3>1
    <3>3. ASSUME NEW x \in Procs
          PROVE  procs'[x].creds # m /\ (x # q => procs'[x].next # m)
      BY <1>2, <1>3, <1>4, <2>1, <3>1
    <3> QED
      BY <3>1, <3>2, <3>3
  <2>2. CASE q # p
    <3>1. OnItsWay(procs[q]) /\ procs[q].next = n /\ n # None
      BY <1>2, <2>2 DEF OnItsWay
    <3>2. /\ n \in valid /\ n \notin Stored /\ n # legacy
          /\ \A x \in Procs : procs[x].creds # n /\ (x # q => procs[x].next # n)
      BY <1>0, <3>1 DEF OneHolder
    <3>3. n # old /\ n # m
      BY <1>3, <1>4, <3>1, <3>2
    <3>4. n \in valid' /\ n \notin Stored' /\ n # legacy'
      BY <1>1, <1>6, <3>2, <3>3
    <3>5. r.creds # n /\ r.next # n
      BY <3>1, <3>2, <3>3 DEF m
    <3>6. ASSUME NEW x \in Procs
          PROVE  procs'[x].creds # n /\ (x # q => procs'[x].next # n)
      BY <1>2, <3>2, <3>5
    <3> QED
      BY <3>4, <3>6
  <2> QED
    BY <2>1, <2>2
<1>8. StoredLives'
  <2> SUFFICES ASSUME NEW n \in Stored'
               PROVE  n \in {CliToken} \cup valid' \cup ended' \cup Replaced'
    BY DEF StoredLives
  <2>1. n \in {CliToken} \cup valid \cup ended \cup Replaced
    BY <1>0, <1>6 DEF StoredLives
  <2>2. n \in valid => n \in valid' \cup ended' \cup Replaced'
    <3>1. Unsaved(r) \subseteq Replaced'
      BY <1>2 DEF Replaced
    <3>2. old = None => old \notin valid
      BY <1>0, NoneAssumption DEF SessionTypes
    <3> QED
      BY <1>1, <3>1, <3>2
  <2>3. n \in Replaced => n \in Replaced'
    <3> SUFFICES ASSUME NEW q \in Procs, n \in Unsaved(procs[q])
                 PROVE  n \in Replaced'
      BY DEF Replaced
    <3>1. q # p
      BY NoneHeld
    <3> QED
      BY <1>2, <3>1 DEF Replaced
  <2> QED
    BY <2>1, <2>2, <2>3
<1>9. \A q \in Procs : ProcessOK(procs'[q])
  BY <1>0, <1>2
<1> QED
  BY <1>2, <1>5, <1>7, <1>8, <1>9 DEF ClientsInv

LEMMA SaveFailsInv == ASSUME ClientsInv, NEW p \in Procs, SaveFails(p) PROVE ClientsInv'
<1> DEFINE s == procs[p]
           r == IF Loading(s) THEN Loaded(s, None)
                ELSE Failed([s EXCEPT !.next = None, !.held = None], "notSaved")
<1>0. /\ ProcessOK(s) /\ s \in Process /\ FlowOK(s.todo) /\ s.told = "nothing" /\ s.did = 0
      /\ (s.wants <=> HasChange(s.todo)) /\ s.pc \in Running
  BY TheProcess DEF SaveFails, ProcessOK, Honest, Running, Opening, Saving, Process
<1>1. ProcessOK(r) /\ r.creds \in {s.creds, None} /\ r.next = None
  <2>1. CASE Loading(s)
    <3>1. ~HasSave(s.todo)
      BY <1>0, <2>1, RangeHas DEF Loading, FlowOK
    <3>2. NewFlow(s.todo)
      BY <1>0, <3>1 DEF NewFlow, FlowOK, HasSave
    <3> QED
      BY <1>0, <2>1, <3>2, LoadedOK
  <2>2. CASE ~Loading(s)
    <3> DEFINE t == [s EXCEPT !.next = None, !.held = None]
    <3>1. Able(t) /\ t.creds = s.creds
      BY <1>0, RunningAble DEF Process
    <3>2. r = Failed(t, "notSaved")
      BY <2>2
    <3> HIDE DEF t, r
    <3> QED
      BY <3>1, <3>2, FailedOK DEF Words
  <2> QED
    BY <2>1, <2>2
<1>2. Becomes(p, r) /\ ended' = ended \cup Unsaved(s) /\ UNCHANGED <<issuer, store>>
  BY DEF SaveFails
<1> HIDE DEF r
<1> QED
  BY <1>1, <1>2, Quietly

LEMMA SaveStepInv == ASSUME ClientsInv, NEW p \in Procs, SaveStep(p) PROVE ClientsInv'
<1> DEFINE s == procs[p]
           r == [s EXCEPT !.pc = "save"]
<1>0. ProcessOK(s) /\ Placed(s) /\ s.pc = "run" /\ SaveNext(s) /\ s \in Process
  BY TheProcess DEF SaveStep, SaveNext
<1>1. s.did = 0 /\ s.pc \in Running
  BY <1>0, RunningAble DEF SaveNext, Running
<1>2. r.pc = "save" /\ r.next = s.next /\ r.todo = s.todo /\ (r.again <=> s.again) /\ r.creds = s.creds
  BY <1>0 DEF Process
<1>3. Placed(r)
  <2> HIDE DEF r
  <2> QED
    BY <1>0, <1>2 DEF Placed, Resting, Opening, Saving
<1> QED
  BY <1>1, <1>3, Moves DEF SaveStep, Running, Saving

LEMMA ForgetInv == ASSUME ClientsInv, NEW p \in Procs, Forget(p) PROVE ClientsInv'
<1> DEFINE s == procs[p]
<1>0. /\ Able(s) /\ s.next = None /\ s.todo # <<>> /\ Head(s.todo) = "forget" /\ SessionTypes
  BY OnAble, TheProcess DEF Forget
<1>1. ProcessOK(Go(s)) /\ Go(s).creds = s.creds /\ Go(s).next = None
  BY <1>0, GoOK DEF SignIns
<1>2. NothingNew(s, Go(s)) /\ Unsaved(s) = {}
  BY <1>0, <1>1, NoneHeld DEF NothingNew
<1> QED
  BY <1>0, <1>1, <1>2, KeepsSessions DEF Forget, SessionTypes

LEMMA DropKeyInv == ASSUME ClientsInv, NEW p \in Procs, DropKey(p) PROVE ClientsInv'
<1> DEFINE s == procs[p]
<1>0. /\ Able(s) /\ s.next = None /\ s.todo # <<>> /\ Head(s.todo) = "dropkey" /\ SessionTypes
  BY OnAble, TheProcess DEF DropKey
<1>1. ProcessOK(Go(s)) /\ Go(s).creds = s.creds /\ Go(s).next = None
  BY <1>0, GoOK DEF SignIns
<1>2. NothingNew(s, Go(s)) /\ Unsaved(s) = {}
  BY <1>0, <1>1, NoneHeld DEF NothingNew
<1>3. key' \in {None} \cup Keys
  BY <1>0 DEF DropKey, SessionTypes
<1> QED
  BY <1>0, <1>1, <1>2, <1>3, KeepsSessions DEF DropKey, SessionTypes

LEMMA NotConnectedInv == ASSUME ClientsInv, NEW p \in Procs, NotConnected(p) PROVE ClientsInv'
<1> DEFINE s == procs[p]
           word == IF Step(p) = "probe" THEN "perhaps" ELSE "notConnected"
<1>0. Able(s) /\ s.next = None
  BY OnAble DEF NotConnected, Requests, Authed
<1>1. word \in Words \ {"done"}
  BY DEF Words
<1>2. Becomes(p, Failed(s, word)) /\ UNCHANGED <<issuer, store, ended>>
  BY DEF NotConnected
<1> HIDE DEF word
<1> QED
  BY <1>0, <1>1, <1>2, FailedOK, Quietly, NoneHeld

\* An answer to the request that is next
LEMMA AnsweredOK ==
  ASSUME NEW s, Able(s), s.todo # <<>>, Head(s.todo) \in Requests, NEW ok \in BOOLEAN
  PROVE  LET r == Answer(s, ok) IN
         ProcessOK(r) /\ r.creds \in {s.creds, None} /\ r.next = None
<1>0. s \in Process /\ s.did = 0
  BY DEF Able
<1>1. CASE ~ok
  BY <1>1, FailedOK DEF Answer, Words
<1>2. CASE ok /\ Head(s.todo) = "change"
  <2>1. Answer(s, ok) = Go([s EXCEPT !.did = 1])
    BY <1>0, <1>2 DEF Answer
  <2> QED
    BY <1>2, <2>1, ChangedOK
<1>3. CASE ok /\ Head(s.todo) # "change"
  <2>1. Answer(s, ok) = Go(s)
    BY <1>0, <1>3 DEF Answer, Process
  <2> QED
    BY <1>3, <2>1, GoOK DEF Requests, Authed, SignIns
<1> QED
  BY <1>1, <1>2, <1>3

\* What is left when the server has been told to end the session, or not
LEMMA Revokes ==
  ASSUME ClientsInv, NEW p \in Procs, NEW r, Becomes(p, r), ProcessOK(r),
         procs[p].next = None, r.next = None, r.creds \in {None, procs[p].creds},
         procs[p].creds # None,
         \/ valid' = valid \ {procs[p].creds} /\ ended' = ended \cup {procs[p].creds}
         \/ UNCHANGED <<valid, ended>>,
         UNCHANGED <<accepted, newest, store>>
  PROVE  ClientsInv'
<1>0. SessionTypes /\ procs[p].creds \in 0 .. newest
  BY TheProcess DEF SessionTypes
<1>1. NothingNew(procs[p], r) /\ Unsaved(procs[p]) = {}
  BY NoneHeld DEF NothingNew
<1>2. /\ ended \subseteq ended' /\ ended' \subseteq 0 .. newest /\ valid' \subseteq valid
      /\ valid \ valid' \subseteq ended' \cap {procs[p].creds}
  BY <1>0 DEF SessionTypes
<1>3. accepted' \subseteq 0 .. newest /\ key' \in {None} \cup Keys
  BY <1>0 DEF SessionTypes
<1> QED
  BY <1>1, <1>2, <1>3, KeepsSessions

\* It goes to exchange its session.
LEMMA ToRefresh ==
  ASSUME ClientsInv, NEW p \in Procs, On(p, Requests), procs[p].creds # None,
         Becomes(p, [procs[p] EXCEPT !.pc = "refresh"]), UNCHANGED <<issuer, store, ended>>
  PROVE  ClientsInv'
<1> DEFINE s == procs[p]
           r == [s EXCEPT !.pc = "refresh"]
<1>0. /\ Able(s) /\ s.next = None /\ s \in Process /\ s.todo # <<>> /\ Head(s.todo) \in Requests
      /\ s.pc = "run"
  BY OnAble DEF Requests, Authed, Able
<1>1. r.pc = "refresh" /\ r.next = s.next /\ r.todo = s.todo /\ (r.again <=> s.again) /\ r.creds = s.creds
  BY <1>0 DEF Process
<1>2. Placed(r)
  <2> HIDE DEF r
  <2> QED
    BY <1>0, <1>1 DEF Placed, SaveNext, Resting, Opening, Saving, Requests, Authed
<1> QED
  BY <1>0, <1>2, Moves DEF Running, Able

LEMMA SendInv == ASSUME ClientsInv, NEW p \in Procs, Send(p) PROVE ClientsInv'
<1> DEFINE s == procs[p]
<1>0. /\ Able(s) /\ s.next = None /\ s.todo # <<>> /\ Head(s.todo) \in Requests
      /\ s.creds # None /\ On(p, Requests)
  BY OnAble DEF Send, Requests, Authed
<1>1. CASE Head(s.todo) \in Authed /\ s.creds \notin accepted
  <2>1. UNCHANGED <<issuer, store, ended>>
    BY <1>1 DEF Send, Authed
  <2>2. \/ Becomes(p, Failed(s, "refused"))
        \/ Becomes(p, [s EXCEPT !.pc = "refresh"])
    BY <1>1 DEF Send
  <2>3. CASE Becomes(p, Failed(s, "refused"))
    BY <1>0, <2>1, <2>3, FailedOK, Quietly, NoneHeld DEF Words
  <2>4. CASE Becomes(p, [s EXCEPT !.pc = "refresh"])
    BY <1>0, <2>1, <2>4, ToRefresh
  <2> QED
    BY <2>2, <2>3, <2>4
<1>2. CASE ~(Head(s.todo) \in Authed /\ s.creds \notin accepted)
  <2>1. PICK ok \in BOOLEAN : Becomes(p, Answer(s, ok))
    BY <1>2 DEF Send
  <2>2. LET r == Answer(s, ok) IN ProcessOK(r) /\ r.creds \in {s.creds, None} /\ r.next = None
    BY <1>0, AnsweredOK
  <2> QED
    BY <1>0, <2>1, <2>2, Revokes DEF Send
<1> QED
  BY <1>1, <1>2

LEMMA SendFailsInv == ASSUME ClientsInv, NEW p \in Procs, SendFails(p) PROVE ClientsInv'
<1> DEFINE s == procs[p]
           done == Step(p) = "change" /\ s.creds \in accepted
<1>0. /\ Able(s) /\ s.next = None /\ s.todo # <<>> /\ Head(s.todo) \in Requests
      /\ s.creds # None /\ s \in Process /\ s.did = 0
  BY OnAble DEF SendFails, Requests, Authed, Able
<1>1. PICK arrived \in BOOLEAN :
        /\ Becomes(p, Unclear(s, IF arrived /\ done THEN s.did + 1 ELSE s.did))
        /\ IF arrived /\ Step(p) = "logout"
           THEN valid' = valid \ {s.creds} /\ ended' = ended \cup {s.creds}
           ELSE UNCHANGED <<valid, ended>>
  BY DEF SendFails
<1> DEFINE did == IF arrived /\ done THEN s.did + 1 ELSE s.did
           r == Unclear(s, did)
<1>2. ProcessOK(r) /\ r.creds \in {s.creds, None} /\ r.next = None
  <2>1. CASE arrived /\ done
    <3> DEFINE t == [s EXCEPT !.did = did]
    <3>1. did = 1
      BY <1>0, <2>1
    <3>2. t \in Process /\ t.creds = s.creds /\ t.todo = s.todo
      <4>1. did \in {0, 1}
        BY <3>1
      <4> HIDE DEF did
      <4>2. t \in Process
        BY <1>0, <4>1, Zenon DEF Process
      <4> QED
        BY <1>0, <4>2 DEF Process
    <3>3. r = Ended(t, "perhaps")
      <4>1. Head(t.todo) \notin BestEffort
        BY <2>1, <3>2 DEF BestEffort
      <4> HIDE DEF did, t
      <4>2. r = Failed(t, "perhaps")
        BY DEF Unclear, t
      <4> HIDE DEF r
      <4> QED
        BY <4>1, <4>2 DEF Failed
    <3> HIDE DEF did, t, r
    <3> QED
      BY <3>2, <3>3, EndedOK DEF Words
  <2>2. CASE ~(arrived /\ done)
    <3>1. [s EXCEPT !.did = did] = s
      BY <1>0, <2>2 DEF Process
    <3>2. r = Failed(s, "perhaps")
      BY <3>1 DEF Unclear
    <3> HIDE DEF r
    <3> QED
      BY <1>0, <3>2, FailedOK DEF Words
  <2> QED
    BY <2>1, <2>2
<1>3. Becomes(p, r) /\ UNCHANGED <<accepted, newest, store>>
  BY <1>1 DEF SendFails
<1> HIDE DEF r, did, done
<1> QED
  BY <1>0, <1>1, <1>2, <1>3, Revokes

LEMMA McpExpiringInv == ASSUME ClientsInv, NEW p \in Procs, McpExpiring(p) PROVE ClientsInv'
BY ToRefresh DEF McpExpiring

LEMMA RefreshRefusedInv == ASSUME ClientsInv, NEW p \in Procs, RefreshRefused(p) PROVE ClientsInv'
<1> DEFINE s == procs[p]
           t == [s EXCEPT !.creds = None]
           r == IF s.kind = "mcp" THEN Ended(s, "expired") ELSE Failed(t, "expired")
<1>0. Able(s) /\ s.next = None /\ s \in Process /\ s.did = 0
  <2>1. ProcessOK(s) /\ Placed(s) /\ s.pc = "refresh"
    BY TheProcess DEF RefreshRefused
  <2> QED
    BY <2>1, RunningAble DEF Placed, Running, Able
<1>1. Able(t) /\ t.creds = None
  <2>1. t \in Process
    BY <1>0, Zenon DEF Process
  <2>2. /\ t.next = s.next /\ t.told = s.told /\ t.did = s.did /\ (t.wants <=> s.wants)
        /\ t.todo = s.todo /\ t.creds = None
    BY <1>0 DEF Process
  <2> HIDE DEF t
  <2> QED
    BY <1>0, <2>1, <2>2 DEF Able
<1>2. ProcessOK(r) /\ r.creds \in {s.creds, None} /\ r.next = None
  <2> HIDE DEF t
  <2>1. CASE s.kind = "mcp"
    BY <1>0, <2>1, EndedOK DEF Words
  <2>2. CASE s.kind # "mcp"
    BY <1>1, <2>2, FailedOK DEF Words
  <2> QED
    BY <2>1, <2>2
<1>3. Becomes(p, r) /\ UNCHANGED <<issuer, store, ended>>
  BY DEF RefreshRefused
<1> HIDE DEF r
<1> QED
  BY <1>0, <1>2, <1>3, Quietly, NoneHeld

LEMMA RefreshLookInv == ASSUME ClientsInv, NEW p \in Procs, RefreshLook(p) PROVE ClientsInv'
<1> DEFINE s == procs[p]
           r == [s EXCEPT !.pc = "rotate"]
<1>0. ProcessOK(s) /\ Placed(s) /\ s.pc = "refresh" /\ s \in Process /\ s.did = 0
  <2>1. ProcessOK(s) /\ Placed(s) /\ s.pc = "refresh" /\ s \in Process
    BY TheProcess DEF RefreshLook
  <2> QED
    BY <2>1, RunningAble DEF Running
<1>1. r.pc = "rotate" /\ r.next = s.next /\ r.todo = s.todo /\ (r.again <=> s.again) /\ r.creds = s.creds
  BY <1>0 DEF Process
<1>2. Placed(r)
  <2> HIDE DEF r
  <2> QED
    BY <1>0, <1>1 DEF Placed, SaveNext, Resting, Opening, Saving
<1> QED
  BY <1>0, <1>2, Moves DEF RefreshLook, Running

LEMMA RotateInv == ASSUME ClientsInv, NEW p \in Procs, Rotate(p) PROVE ClientsInv'
<1> DEFINE s == procs[p]
           n == newest + 1
           r == Refreshed(s, n)
<1>0. /\ ProcessOK(s) /\ Placed(s) /\ s.pc = "rotate" /\ s \in Process /\ s.did = 0
      /\ SessionTypes /\ s.next = None /\ s.creds # None /\ ~SaveNext(s)
  <2>1. ProcessOK(s) /\ Placed(s) /\ s.pc = "rotate" /\ s \in Process /\ SessionTypes
    BY TheProcess DEF Rotate
  <2> QED
    BY <2>1, RunningAble DEF Running, Placed
<1>1. n \in Nat /\ n # s.creds /\ n # None
  BY <1>0, NoneAssumption DEF SessionTypes
<1>2. IssueSession(n, s.creds) /\ Becomes(p, r) /\ UNCHANGED store
  BY DEF Rotate
<1> HIDE DEF n
<1>3. CASE s.kind = "mcp"
  <2>1. r = [s EXCEPT !.creds = n, !.again = TRUE, !.pc = "run"]
    BY <1>3 DEF Refreshed, RefreshedInMemory
  <2>2. r \in Process
    <3>1. "run" \in Running
      BY DEF Running
    <3> QED
      BY <1>0, <1>1, <2>1, <3>1, Zenon DEF Process
  <2>3. /\ r.pc = "run" /\ r.creds = n /\ r.next = None /\ r.todo = s.todo /\ r.told = s.told
        /\ r.did = s.did /\ (r.wants <=> s.wants)
    BY <1>0, <2>1 DEF Process
  <2> HIDE DEF r
  <2>4. ProcessOK(r)
    BY <1>0, <2>2, <2>3 DEF ProcessOK, Honest, Placed, SaveNext, Resting, Running, Opening, Saving
  <2>5. ended' = ended \cup {s.creds}
    BY <1>3 DEF Rotate
  <2> QED
    BY <1>0, <1>1, <1>2, <2>3, <2>4, <2>5, Issues DEF n
<1>4. CASE s.kind # "mcp"
  <2>1. r = [s EXCEPT !.next = n, !.again = TRUE, !.pc = "save"]
    BY <1>4 DEF Refreshed
  <2>2. r \in Process
    <3>1. "save" \in Running
      BY DEF Running, Saving
    <3> QED
      BY <1>0, <1>1, <2>1, <3>1, Zenon DEF Process
  <2>3. /\ r.pc = "save" /\ r.creds = s.creds /\ r.next = n /\ r.todo = s.todo /\ r.told = s.told
        /\ r.did = s.did /\ (r.wants <=> s.wants) /\ r.again
    BY <1>0, <2>1 DEF Process
  <2> HIDE DEF r
  <2>4. ProcessOK(r)
    BY <1>0, <1>1, <2>2, <2>3 DEF ProcessOK, Honest, Placed, SaveNext, Resting, Running, Opening, Saving
  <2>5. ended' = ended
    BY <1>4 DEF Rotate
  <2>6. s.creds \in Unsaved(r)
    BY <1>1, <2>3 DEF Unsaved
  <2> QED
    BY <1>0, <1>1, <1>2, <2>3, <2>4, <2>5, <2>6, Issues DEF n
<1> QED
  BY <1>3, <1>4

LEMMA RefreshFailsInv == ASSUME ClientsInv, NEW p \in Procs, RefreshFails(p) PROVE ClientsInv'
<1> DEFINE s == procs[p]
           r == Failed(s, "perhaps")
<1>0. Able(s) /\ s.next = None /\ s.creds # None /\ SessionTypes
  <2>1. ProcessOK(s) /\ Placed(s) /\ s.pc \in {"refresh", "rotate"} /\ SessionTypes
    BY TheProcess DEF RefreshFails
  <2> QED
    BY <2>1, RunningAble DEF Placed, Running
<1>1. ProcessOK(r) /\ r.creds \in {s.creds, None} /\ r.next = None
  BY <1>0, FailedOK DEF Words
<1>2. Becomes(p, r) /\ UNCHANGED store
  BY DEF RefreshFails
<1> HIDE DEF r
<1>3. CASE s.pc = "rotate"
  <2>1. IssueSession(newest + 1, s.creds) /\ ended' = ended \cup {s.creds}
    BY <1>3 DEF RefreshFails
  <2> QED
    BY <1>0, <1>1, <1>2, <2>1, Issues
<1>4. CASE s.pc # "rotate"
  <2>1. UNCHANGED <<issuer, ended>>
    BY <1>4 DEF RefreshFails
  <2> QED
    BY <1>0, <1>1, <1>2, <2>1, Quietly, NoneHeld
<1> QED
  BY <1>3, <1>4

\* A process at another place, with another clock and pause
Timed(s, x, a, b) == [s EXCEPT !.pc = x, !.clock = a, !.wait = b]

LEMMA TimedOK ==
  ASSUME NEW s, Able(s), NEW x \in {"run", "polling"}, NEW a \in Int, NEW b \in Int,
         x = "run" => ~SaveNext(s), x = "polling" => s.todo # <<>> /\ Head(s.todo) = "poll"
  PROVE  /\ ProcessOK(Timed(s, x, a, b))
         /\ Timed(s, x, a, b).creds = s.creds /\ Timed(s, x, a, b).next = None
<1> DEFINE r == Timed(s, x, a, b)
<1>0. s \in Process /\ FlowOK(s.todo) /\ s.next = None /\ x \in Running /\ x \notin Resting
  BY DEF Able, Running, Resting
<1>1. r \in Process
  BY <1>0, Zenon DEF Process, Timed
<1>2. /\ r.pc = x /\ r.creds = s.creds /\ r.next = s.next /\ r.todo = s.todo /\ r.told = s.told
      /\ r.did = s.did /\ (r.wants <=> s.wants) /\ (r.again <=> s.again)
  BY <1>0 DEF Process, Timed
<1> HIDE DEF r
<1>3. Honest(r)
  BY <1>0, <1>2 DEF Able, Honest
<1>4. Placed(r)
  BY <1>0, <1>2 DEF Placed, SaveNext, Resting, Opening, Saving
<1>5. ProcessOK(r) /\ r.creds = s.creds /\ r.next = None
  BY <1>0, <1>1, <1>2, <1>3, <1>4 DEF ProcessOK
<1> QED
  BY <1>5 DEF r

LEMMA StartBrowserInv == ASSUME ClientsInv, NEW p \in Procs, StartBrowser(p) PROVE ClientsInv'
<1> DEFINE s == procs[p]
           g == Go(s)
           r == [g EXCEPT !.clock = 0, !.wait = Interval]
<1>0. /\ Able(s) /\ s.next = None /\ s.todo # <<>> /\ Head(s.todo) = "start"
      /\ UNCHANGED <<issuer, store, ended>>
  BY OnAble DEF StartBrowser
<1>1. CASE Becomes(p, Ended(s, "refused"))
  BY <1>0, <1>1, EndedOK, Quietly, NoneHeld DEF Words, Able
<1>2. CASE Becomes(p, r)
  <2>1. ProcessOK(g) /\ g.creds = s.creds /\ g.next = None
    BY <1>0, GoOK DEF SignIns
  <2>2. /\ g.pc = "run" /\ g.did = 0 /\ g.told = "nothing"
        /\ Able(g)
    <3>1. g.pc = "run" /\ g.did = 0
      BY <1>0 DEF Go, Able, Process
    <3> HIDE DEF g
    <3> QED
      BY <2>1, <3>1, RunningAble DEF ProcessOK, Honest, Running
  <2> HIDE DEF g
  <2>3. r = Timed(g, "run", 0, Interval)
    BY <2>1, <2>2 DEF ProcessOK, Process, Timed
  <2>4. ~SaveNext(g)
    BY <2>1, <2>2 DEF ProcessOK, Placed
  <2>5. Interval \in Int /\ 0 \in Int
    BY PollAssumption
  <2> HIDE DEF r
  <2>6. ProcessOK(r) /\ r.creds = s.creds /\ r.next = None
    BY <2>1, <2>2, <2>3, <2>4, <2>5, TimedOK
  <2> QED
    BY <1>0, <1>2, <2>6, Quietly, NoneHeld
<1> QED
  BY <1>1, <1>2 DEF StartBrowser

LEMMA PauseInv == ASSUME ClientsInv, NEW p \in Procs, Pause(p) PROVE ClientsInv'
<1> DEFINE s == procs[p]
           a == Lower(s.clock + s.wait, Deadline)
           r == [s EXCEPT !.pc = "polling", !.clock = a]
<1>0. /\ Able(s) /\ ProcessOK(s) /\ s.next = None /\ s.todo # <<>> /\ Head(s.todo) = "poll"
      /\ s.pc = "run" /\ s \in Process
  BY OnAble DEF Pause, Able
<1>1. Becomes(p, r) /\ UNCHANGED <<issuer, store, ended>>
  BY <1>0 DEF Pause
<1>2. a \in Int /\ s.wait \in Int
  <2>1. s.clock \in Int /\ s.wait \in Int
    BY <1>0 DEF Process
  <2>2. Deadline \in Int
    BY PollAssumption
  <2> QED
    BY <2>1, <2>2 DEF Lower
<1> HIDE DEF a
<1>3. r = Timed(s, "polling", a, s.wait)
  BY <1>0 DEF Process, Timed
<1> HIDE DEF r
<1>4. ProcessOK(r) /\ r.creds = s.creds /\ r.next = None
  BY <1>0, <1>2, <1>3, TimedOK
<1> QED
  BY <1>0, <1>1, <1>4, Quietly, NoneHeld

LEMMA PollInv == ASSUME ClientsInv, NEW p \in Procs, Poll(p) PROVE ClientsInv'
<1> DEFINE s == procs[p]
           back == [s EXCEPT !.pc = "run"]
           b == Lower(Higher(2 * s.wait, SlowDown), Slowest)
           slower == [back EXCEPT !.wait = b]
<1>0. /\ ProcessOK(s) /\ s.pc = "polling" /\ s \in Process /\ SessionTypes
      /\ s.todo # <<>> /\ Head(s.todo) = "poll" /\ s.next = None /\ Able(s) /\ s.did = 0
      /\ s.told = "nothing" /\ (s.wants <=> HasChange(s.todo)) /\ ~SaveNext(s)
  <2>1. ProcessOK(s) /\ s.pc = "polling" /\ s \in Process /\ Placed(s) /\ SessionTypes
    BY TheProcess DEF Poll
  <2> QED
    BY <2>1, RunningAble DEF Placed, Running, Resting, SaveNext, Able
<1>1. CASE Becomes(p, back) /\ UNCHANGED issuer
  <2>1. back = Timed(s, "run", s.clock, s.wait) /\ s.clock \in Int /\ s.wait \in Int
    BY <1>0 DEF Process, Timed
  <2> HIDE DEF back
  <2>2. ProcessOK(back) /\ back.creds = s.creds /\ back.next = None
    BY <1>0, <2>1, TimedOK
  <2> QED
    BY <1>0, <1>1, <2>2, Quietly, NoneHeld DEF Poll
<1>2. CASE Becomes(p, slower) /\ UNCHANGED issuer
  <2>0. b \in Int
    <3>1. s.wait \in Int
      BY <1>0 DEF Process
    <3>2. SlowDown \in Int /\ Slowest \in Int
      BY PollAssumption
    <3> QED
      BY <3>1, <3>2 DEF Lower, Higher
  <2> HIDE DEF b
  <2>1. slower = Timed(s, "run", s.clock, b) /\ s.clock \in Int
    BY <1>0 DEF Process, Timed
  <2> HIDE DEF slower
  <2>2. ProcessOK(slower) /\ slower.creds = s.creds /\ slower.next = None
    BY <1>0, <2>0, <2>1, TimedOK
  <2> QED
    BY <1>0, <1>2, <2>2, Quietly, NoneHeld DEF Poll
<1>3. CASE Becomes(p, Ended(s, "refused")) /\ UNCHANGED issuer
  BY <1>0, <1>3, EndedOK, Quietly, NoneHeld DEF Words, Poll
<1>4. CASE IssueSession(newest + 1, None) /\ Becomes(p, Signed(s, newest + 1))
  <2> DEFINE n == newest + 1
             r == Signed(s, n)
  <2>1. n \in Nat /\ n # s.creds
    BY <1>0, NoneAssumption, TheProcess DEF SessionTypes
  <2>2. UNCHANGED <<store, ended>>
    BY DEF Poll
  <2> HIDE DEF n
  <2>3. ProcessOK(r) /\ r.creds = s.creds /\ r.next = n
    BY <1>0, <2>1, SignedOK DEF SignIns
  <2> HIDE DEF r
  <2> QED
    BY <1>0, <1>4, <2>1, <2>2, <2>3, Issues DEF n, r
<1>5. \/ Becomes(p, back) /\ UNCHANGED issuer
      \/ Becomes(p, slower) /\ UNCHANGED issuer
      \/ Becomes(p, Ended(s, "refused")) /\ UNCHANGED issuer
      \/ IssueSession(newest + 1, None) /\ Becomes(p, Signed(s, newest + 1))
  <2>1. back.wait = s.wait
    BY <1>0 DEF Process
  <2> QED
    BY <2>1 DEF Poll
<1> HIDE DEF back, slower, b
<1> QED
  BY <1>1, <1>2, <1>3, <1>4, <1>5

LEMMA PollTimedOutInv == ASSUME ClientsInv, NEW p \in Procs, PollTimedOut(p) PROVE ClientsInv'
<1>0. Able(procs[p]) /\ procs[p].next = None
  BY OnAble DEF PollTimedOut
<1> QED
  BY <1>0, EndedOK, Quietly, NoneHeld DEF Words, Able, PollTimedOut

LEMMA SignInInv == ASSUME ClientsInv, NEW p \in Procs, SignIn(p) PROVE ClientsInv'
<1> DEFINE s == procs[p]
<1>0. /\ Able(s) /\ s.next = None /\ s.todo # <<>> /\ Head(s.todo) = "signin" /\ SessionTypes
      /\ UNCHANGED <<store, ended>>
  BY OnAble, TheProcess DEF SignIn
<1>1. CASE IssueSession(newest + 1, None) /\ Becomes(p, Signed(s, newest + 1))
  <2> DEFINE n == newest + 1
             r == Signed(s, n)
  <2>1. n \in Nat /\ n # s.creds
    BY <1>0, NoneAssumption, TheProcess DEF SessionTypes
  <2> HIDE DEF n
  <2>2. ProcessOK(r) /\ r.creds = s.creds /\ r.next = n
    BY <1>0, <2>1, SignedOK DEF SignIns
  <2> HIDE DEF r
  <2> QED
    BY <1>0, <1>1, <2>1, <2>2, Issues DEF n, r
<1>2. CASE Becomes(p, Ended(s, "refused")) /\ UNCHANGED issuer
  BY <1>0, <1>2, EndedOK, Quietly, NoneHeld DEF Words, Able
<1> QED
  BY <1>1, <1>2 DEF SignIn

LEMMA TokenSignInInv == ASSUME ClientsInv, NEW p \in Procs, TokenSignIn(p) PROVE ClientsInv'
<1> DEFINE s == procs[p]
           r == Signed(s, CliToken)
<1>0. /\ Able(s) /\ s.next = None /\ s.todo # <<>> /\ Head(s.todo) = "token" /\ SessionTypes
      /\ UNCHANGED <<issuer, store, ended>>
  BY OnAble, TheProcess DEF TokenSignIn
<1>1. CASE Becomes(p, r)
  <2>1. ProcessOK(r) /\ r.creds = s.creds /\ r.next = CliToken
    BY <1>0, SignedOK DEF SignIns, CliToken
  <2>2. NothingNew(s, r) /\ Unsaved(s) = {}
    BY <1>0, <2>1, NoneHeld DEF NothingNew, OnItsWay
  <2> HIDE DEF r
  <2> QED
    BY <1>0, <1>1, <2>1, <2>2, KeepsSessions DEF SessionTypes
<1>2. CASE Becomes(p, Ended(s, "refused"))
  BY <1>0, <1>2, EndedOK, Quietly, NoneHeld DEF Words, Able
<1> QED
  BY <1>1, <1>2 DEF TokenSignIn

LEMMA DecideInv == ASSUME ClientsInv, NEW p \in Procs, Decide(p) PROVE ClientsInv'
<1> DEFINE s == procs[p]
<1>0. /\ Able(s) /\ ProcessOK(s) /\ s.next = None /\ s.todo # <<>> /\ Head(s.todo) \in Local
      /\ s.pc = "run" /\ s \in Process /\ UNCHANGED <<issuer, store, ended>>
  BY OnAble DEF Decide, Local, Able
<1>1. ASSUME NEW n \in 2 .. Len(s.todo) + 1, PastLocal(s.todo, n),
             Becomes(p, [s EXCEPT !.todo = SubSeq(s.todo, n, Len(s.todo))])
      PROVE  ClientsInv'
  <2> DEFINE u == SubSeq(s.todo, n, Len(s.todo))
             r == [s EXCEPT !.todo = u]
  <2>1. /\ FlowOK(u) /\ (HasChange(u) <=> HasChange(s.todo)) /\ (u # <<>> => Head(u) # "save")
        /\ u \in Seq(Steps)
    BY <1>0, <1>1, RestOK DEF Able, FlowOK
  <2>2. Becomes(p, r)
    BY <1>1
  <2> HIDE DEF u
  <2>3. r \in Process
    BY <1>0, <2>1, Zenon DEF Process
  <2>4. /\ r.pc = "run" /\ r.creds = s.creds /\ r.next = None /\ r.todo = u /\ r.told = s.told
        /\ r.did = s.did /\ (r.wants <=> s.wants)
    BY <1>0 DEF Process
  <2> HIDE DEF r
  <2>5. ProcessOK(r)
    BY <1>0, <2>1, <2>3, <2>4
    DEF ProcessOK, Able, Honest, Placed, SaveNext, Resting, Running, Opening, Saving
  <2> QED
    BY <1>0, <2>2, <2>4, <2>5, Quietly, NoneHeld
<1>2. CASE Becomes(p, Ended(s, "declined"))
  BY <1>0, <1>2, EndedOK, Quietly, NoneHeld DEF Words, Able
<1> QED
  BY <1>1, <1>2 DEF Decide

LEMMA ConnectedInv == ASSUME ClientsInv, NEW p \in Procs, Connected(p) PROVE ClientsInv'
<1> DEFINE s == procs[p]
<1>0. /\ Able(s) /\ s.next = None /\ s.todo # <<>> /\ Head(s.todo) = "connected"
      /\ UNCHANGED <<issuer, store, ended>>
  BY OnAble DEF Connected
<1>1. CASE Becomes(p, Ended(s, "notConnected"))
  BY <1>0, <1>1, EndedOK, Quietly, NoneHeld DEF Words, Able
<1>2. CASE Becomes(p, Go(s))
  BY <1>0, <1>2, GoOK, Quietly, NoneHeld DEF SignIns
<1> QED
  BY <1>1, <1>2 DEF Connected

LEMMA FinishInv == ASSUME ClientsInv, NEW p \in Procs, Finish(p) PROVE ClientsInv'
<1> DEFINE s == procs[p]
<1>0. /\ ProcessOK(s) /\ Placed(s) /\ s \in Process /\ s.pc = "run" /\ s.todo = <<>>
      /\ Becomes(p, Ended(s, "done")) /\ UNCHANGED <<issuer, store, ended>>
  BY TheProcess DEF Finish
<1>1. s.next = None
  BY <1>0 DEF Placed, SaveNext
<1>2. s.did = (IF s.wants THEN 1 ELSE 0)
  BY <1>0, NoFlow DEF ProcessOK, Honest, Running, Process
<1> QED
  BY <1>0, <1>1, <1>2, EndedOK, Quietly, NoneHeld DEF Words

LEMMA ChooseInv == ASSUME ClientsInv, NEW p \in Procs, Choose(p) PROVE ClientsInv'
<1> DEFINE s == procs[p]
<1>0. ProcessOK(s) /\ s \in Process /\ s.next = None
  BY TheProcess DEF Choose, Placed, Resting
<1> PICK flow \in IF s.kind = "mcp" THEN McpTools ELSE Choosable :
       Becomes(p, [Flow(s, flow) EXCEPT !.pc = "run",
                     !.kind = IF flow \in {MenuLogout, <<>>} THEN "cli" ELSE s.kind])
  <2>1. \A flow : Flow(s, flow).kind = s.kind
    BY <1>0 DEF Flow, Process
  <2> QED
    BY <2>1 DEF Choose
<1>1. NewFlow(flow)
  BY CommandFlows, FlowAssumption
<1>2. flow \in Seq(Steps) /\ FlowOK(flow)
  BY <1>1 DEF NewFlow, FlowOK
<1> DEFINE f == Flow(s, flow)
           kind == IF flow \in {MenuLogout, <<>>} THEN "cli" ELSE s.kind
           r == [f EXCEPT !.pc = "run", !.kind = kind]
<1>3. f \in Process
  <2>1. ("change" \in Range(flow)) \in BOOLEAN
    OBVIOUS
  <2> QED
    BY <1>0, <1>2, <2>1, Zenon DEF Flow, Process
<1>4. /\ f.todo = flow /\ (f.wants <=> "change" \in Range(flow)) /\ f.did = 0
      /\ f.told = "nothing" /\ f.next = None /\ f.creds = s.creds
  BY <1>0 DEF Flow, Process
<1>5. kind \in {"none", "cli", "menu", "mcp"}
  BY <1>0 DEF Process
<1> HIDE DEF f, kind
<1>6. r \in Process
  <2>1. "run" \in Running
    BY DEF Running
  <2> QED
    BY <1>3, <1>5, <2>1, Zenon DEF Process
<1>7. /\ r.todo = flow /\ (r.wants <=> HasChange(flow)) /\ r.did = 0 /\ r.told = "nothing"
      /\ r.next = None /\ r.creds = s.creds /\ r.pc = "run"
  BY <1>2, <1>3, <1>4, RangeHas DEF Process
<1>8. Becomes(p, r)
  BY DEF r, f, kind
<1> HIDE DEF r
<1>9. ProcessOK(r)
  BY <1>1, <1>2, <1>6, <1>7
  DEF ProcessOK, Honest, Placed, NewFlow, SaveNext, Resting, Running, Opening, Saving
<1> QED
  BY <1>0, <1>7, <1>8, <1>9, Quietly, NoneHeld DEF Choose

LEMMA KillInv == ASSUME ClientsInv, NEW p \in Procs, Kill(p) PROVE ClientsInv'
BY GoneOK, Quietly DEF Kill

LEMMA RunOutInv == ASSUME ClientsInv, RunOut PROVE ClientsInv'
<1>1. /\ UNCHANGED <<valid, newest, file, legacy, key, procs, ended>> /\ accepted' \subseteq accepted
  BY DEF RunOut
<1>2. SessionTypes'
  BY <1>1 DEF ClientsInv, SessionTypes
<1>3. OneHolder' /\ StoredLives'
  BY <1>1 DEF ClientsInv, OneHolder, StoredLives, Stored, Replaced
<1> QED
  BY <1>1, <1>2, <1>3 DEF ClientsInv

LEMMA ClientsInitInv == ClientsInit => ClientsInv
<1> SUFFICES ASSUME ClientsInit PROVE ClientsInv
  OBVIOUS
<1>1. \A p \in Procs : procs[p] = Idle
  BY DEF ClientsInit
<1>2. procs \in [Procs -> Process] /\ \A p \in Procs : ProcessOK(procs[p])
  BY IdleOK DEF ClientsInit, ProcessOK
<1>3. (CHOOSE k \in Keys : TRUE) \in Keys
  <2>1. Keys # {}
    BY FS_EmptySet, KeyAssumption, FS_CardinalityType
  <2> QED
    BY <2>1
<1>4. newest = 1 /\ valid = {1} /\ ended = {} /\ accepted = {0, 1}
  BY DEF ClientsInit
<1>5. SessionTypes
  <2>1. \A p \in Procs : {procs[p].creds, procs[p].next} \subseteq {None} \cup 0 .. newest
    BY <1>1, IdleOK
  <2>2. /\ file \in [creds : {None} \cup 0 .. newest, key : {None} \cup Keys] \cup {None}
        /\ legacy \in {None} \cup 1 .. newest /\ key \in {None} \cup Keys
    BY <1>3, <1>4 DEF ClientsInit
  <2> QED
    BY <1>4, <2>1, <2>2 DEF SessionTypes
<1>6. OneHolder
  BY <1>1, IdleOK, NoneHeld DEF OneHolder
<1>7. StoredLives
  <2>1. Stored \subseteq {1}
    BY DEF ClientsInit, Stored
  <2> QED
    BY <1>4, <2>1 DEF StoredLives
<1> QED
  BY <1>2, <1>5, <1>6, <1>7 DEF ClientsInv

LEMMA ClientsNextInv == ClientsInv /\ [ClientsNext]_clientVars => ClientsInv'
<1> SUFFICES ASSUME ClientsInv, [ClientsNext]_clientVars
             PROVE  ClientsInv'
  OBVIOUS
<1>1. CASE RunOut
  BY <1>1, RunOutInv
<1>2. ASSUME NEW p \in Procs,
             Work(p) \/ Start(p) \/ Choose(p) \/ Kill(p) \/ SaveFails(p) \/ SendFails(p) \/ RefreshFails(p)
      PROVE  ClientsInv'
  <2>1. CASE Work(p)
    BY <2>1, LoadFileInv, McpLoadInv, GetKeyInv, MakeKeyInv, OpenFileInv, WriteFileInv,
       SaveStepInv, ForgetInv, DropKeyInv, NotConnectedInv, SendInv, McpExpiringInv,
       RefreshRefusedInv, RefreshLookInv, RotateInv, StartBrowserInv, PauseInv, PollInv,
       PollTimedOutInv, SignInInv, TokenSignInInv, DecideInv, ConnectedInv, FinishInv
    DEF Work
  <2> QED
    BY <1>2, <2>1, StartInv, ChooseInv, KillInv, SaveFailsInv, SendFailsInv, RefreshFailsInv
<1>3. CASE UNCHANGED clientVars
  BY <1>3 DEF clientVars, ClientsInv, SessionTypes, OneHolder, StoredLives, Stored, Replaced
<1> QED
  BY <1>1, <1>2, <1>3 DEF ClientsNext

LEMMA ClientsAlways == ClientsSpec => []ClientsInv
BY ClientsInitInv, ClientsNextInv, PTL DEF ClientsSpec

\* A change is sent once, however often its request is refused, refreshed or lost, and what
\* the user is told of it is true (ApiClient.request, fmtError, handleExecError).
THEOREM UserIsToldTheTruth == ClientsSpec => []TellsTheTruth
<1>1. ClientsInv => TellsTheTruth
  <2> SUFFICES ASSUME ClientsInv, NEW p \in Procs
               PROVE  LET s == procs[p] IN
                      /\ s.did <= 1
                      /\ s.told = "done" => s.did = (IF s.wants THEN 1 ELSE 0)
                      /\ s.told = "not done" => s.did = 0
    BY DEF TellsTheTruth
  <2>1. /\ procs[p].pc \in Resting \/ procs[p].pc \in Running
        /\ procs[p].did \in {0, 1} /\ Honest(procs[p])
    BY TheProcess DEF ProcessOK, Process
  <2>2. CASE procs[p].pc \in Resting
    <3>1. /\ procs[p].told = "done" => procs[p].did = (IF procs[p].wants THEN 1 ELSE 0)
          /\ procs[p].told = "not done" => procs[p].did = 0
      BY <2>1, <2>2 DEF Honest
    <3>2. procs[p].did <= 1
      BY <2>1
    <3> QED
      BY <3>1, <3>2
  <2>3. CASE procs[p].pc \in Running
    <3>1. procs[p].told = "nothing"
      BY <2>1, <2>3 DEF Honest
    <3>2. procs[p].did <= 1
      BY <2>1
    <3> QED
      BY <3>1, <3>2
  <2> QED
    BY <2>1, <2>2, <2>3
<1> QED
  BY <1>1, ClientsAlways, PTL

\* The stored session can be exchanged, its successor is about to be stored, or something
\* that cannot write the file has ended it (tryRefresh, saveCredentialsBlob).
THEOREM StoredSessionIsLive == ClientsSpec => []StoredSessionLives
<1>1. ClientsInv => StoredSessionLives
  BY DEF ClientsInv, SessionTypes, StoredLives, Stored, Replaced, StoredSessionLives, ClientsTypeOK
<1> QED
  BY <1>1, ClientsAlways, PTL

HIDE DEF issuer, store, counters, On, StandsAt, Step, Fault
=============================================================================
