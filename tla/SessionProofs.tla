---------------------------- MODULE SessionProofs ----------------------------
(***************************************************************************)
(* Session for any tabs, users and number of inputs: its types, and that   *)
(* what a browser knows is all of the person who logged in last.           *)
(***************************************************************************)
EXTENDS Session, TLAPS

-----------------------------------------------------------------------------
(* What the operators on tabs and requests return. *)

LEMMA LoadedType ==
  ASSUME TypeOK, NEW p \in {"login", "home"}, NEW u \in Someone
  PROVE  loaded(p, u) \in Tab
BY DEF TypeOK, loaded, Tab, Someone

\* What is asked for the rooms is no login.
LEMMA RoomsOf ==
  ASSUME TypeOK, NEW t \in Tabs
  PROVE  /\ roomsOf(t) \subseteq Request
         /\ \A r \in roomsOf(t) : r.kind = "rooms"
<1>1. access_token \in Someone /\ 0 \in 0..MaxInputs
  BY NobodyAssumption DEF TypeOK
<1> DEFINE q == request(t, "rooms", access_token, TRUE, 0)
<1>2. q \in Request /\ q.kind = "rooms"
  BY <1>1 DEF request, Request
<1>3. roomsOf(t) \subseteq {q}
  BY DEF roomsOf
<1>. HIDE DEF q
<1>. QED
  BY <1>2, <1>3

\* One more input is still in bounds.
LEMMA Input ==
  ASSUME TypeOK, input
  PROVE  inputs' \in 0..MaxInputs
BY NobodyAssumption DEF TypeOK, input

-----------------------------------------------------------------------------
LEMMA InitInvariant == Init => IInv
<1> SUFFICES ASSUME Init PROVE IInv
  OBVIOUS
<1>1. TypeOK
  <2>1. tab \in [Tabs -> Tab]
    BY DEF Init, loaded, Tab, Someone
  <2>2. 0 \in 0..MaxInputs
    BY NobodyAssumption
  <2>. QED
    BY <2>1, <2>2 DEF Init, TypeOK, Someone
<1>2. TabIsOnePerson
  BY DEF Init, TabIsOnePerson, known, loaded
<1>3. LoginsAreOfPerson /\ LoggedOutIsClean
  BY DEF Init, LoginsAreOfPerson, LoggedOutIsClean, loaded
<1>. QED
  BY <1>1, <1>2, <1>3 DEF IInv

-----------------------------------------------------------------------------
(* The steps of users. *)

\* Nobody is mixed up by a login of the same person, of the first one, or after a logout
\* that left nothing.
LEMMA OnFinishInvariant ==
  ASSUME IInv, NEW t \in Tabs, NEW u \in Users, NEW ok \in BOOLEAN, OnFinish(t, u, ok)
  PROVE  IInv'
<1>0. TypeOK /\ TabIsOnePerson /\ LoginsAreOfPerson /\ LoggedOutIsClean /\ inputs' \in 0..MaxInputs
  BY Input DEF IInv, OnFinish
<1>1. PICK q \in Request : /\ requests' = requests \cup {q}
                           /\ q.kind = "login" /\ q.user = u
  <2> DEFINE q == request(t, "login", u, ok, inputs')
  <2>1. q \in Request /\ q.kind = "login" /\ q.user = u
    BY <1>0 DEF request, Request, Someone
  <2>2. requests' = requests \cup {q}
    BY DEF OnFinish
  <2>. HIDE DEF q
  <2>. QED
    BY <2>1, <2>2
<1>2. TypeOK'
  BY <1>0, <1>1 DEF OnFinish, TypeOK, Someone, cookies
<1>3. \/ mixed'
      \/ /\ ~mixed /\ person' = u
         /\ person \in {u, nobody} \/ dirty = {}
  BY DEF OnFinish
<1>4. TabIsOnePerson'
  <2>1. UNCHANGED <<access_token, currentUser, tab>>
    BY DEF OnFinish, cookies
  <2>2. CASE ~mixed /\ person' = u /\ person \in {u, nobody}
    BY <1>0, <2>1, <2>2 DEF TabIsOnePerson, known
  <2>3. CASE ~mixed /\ person' = u /\ dirty = {}
    BY <1>0, <2>1, <2>3 DEF LoggedOutIsClean, TabIsOnePerson, known
  <2>. QED
    BY <1>3, <2>2, <2>3 DEF TabIsOnePerson
<1>5. LoginsAreOfPerson'
  <2>1. CASE ~mixed /\ person' = u /\ person \in {u, nobody}
    BY <1>0, <1>1, <2>1, NobodyAssumption DEF LoginsAreOfPerson
  <2>2. CASE ~mixed /\ person' = u /\ dirty = {}
    BY <1>0, <1>1, <2>2 DEF LoggedOutIsClean, LoginsAreOfPerson
  <2>. QED
    BY <1>3, <2>1, <2>2 DEF LoginsAreOfPerson
<1>6. LoggedOutIsClean'
  <2>1. ~out' /\ dirty' # {}
    BY DEF OnFinish
  <2>. QED
    BY <2>1 DEF LoggedOutIsClean
<1>. QED
  BY <1>2, <1>4, <1>5, <1>6 DEF IInv

\* A logout leaves the tabs as they are, to be loaded, and no cookie.
LEMMA HandleLogoutInvariant ==
  ASSUME IInv, NEW t \in Tabs, HandleLogout(t)
  PROVE  IInv'
<1>0. TypeOK /\ TabIsOnePerson /\ LoginsAreOfPerson /\ LoggedOutIsClean /\ inputs' \in 0..MaxInputs
  BY Input DEF IInv, HandleLogout
<1>1. PICK q \in Request : requests' = requests \cup {q} /\ q.kind = "logout"
  <2> DEFINE q == request(t, "logout", nobody, TRUE, inputs')
  <2>1. q \in Request /\ q.kind = "logout"
    BY <1>0 DEF request, Request, Someone
  <2>2. requests' = requests \cup {q}
    BY DEF HandleLogout
  <2>. HIDE DEF q
  <2>. QED
    BY <2>1, <2>2
<1>2. /\ tab' = [tab EXCEPT ![t].page = "login"]
      /\ access_token' = nobody /\ currentUser' = nobody
      /\ dirty' = Tabs /\ out' = TRUE /\ person' = person /\ lost' = lost
      /\ mixed' = (mixed \/ \E r \in requests : r.kind \in {"login", "profile"})
  BY DEF HandleLogout, deleteCookies
<1>3. TypeOK'
  <2>1. tab' \in [Tabs -> Tab]
    BY <1>0, <1>2 DEF TypeOK, Tab
  <2>. QED
    BY <1>0, <1>1, <1>2, <2>1 DEF TypeOK, Someone
<1>4. TabIsOnePerson'
  <2>1. \A s \in Tabs : tab'[s].me = tab[s].me /\ tab'[s].socket = tab[s].socket
    BY <1>0, <1>2 DEF TypeOK, Tab
  <2>. QED
    BY <1>0, <1>2, <2>1 DEF TabIsOnePerson, known
<1>5. LoginsAreOfPerson'
  BY <1>0, <1>1, <1>2 DEF LoginsAreOfPerson
<1>6. LoggedOutIsClean'
  BY <1>1, <1>2 DEF LoggedOutIsClean
<1>. QED
  BY <1>3, <1>4, <1>5, <1>6 DEF IInv

-----------------------------------------------------------------------------
(* Loading a page. *)

\* A tab that is loaded knows what the cookies say; the token may have been deleted, and
\* no login was added.
LEMMA LoadInvariant ==
  ASSUME IInv, TypeOK', NEW t \in Tabs, NEW p \in {"login", "home"},
         NEW token \in {access_token, nobody},
         tab' = [tab EXCEPT ![t] = loaded(p, token)],
         access_token' \in {access_token, nobody},
         \A r \in requests' : r \in requests \/ r.kind \notin {"login", "profile"},
         cleaned(t),
         UNCHANGED <<currentUser, person, out, mixed>>
  PROVE  IInv'
<1>0. TypeOK /\ TabIsOnePerson /\ LoginsAreOfPerson /\ LoggedOutIsClean
  BY DEF IInv
<1>1. /\ \A s \in Tabs \ {t} : tab'[s] = tab[s]
      /\ tab'[t].me = currentUser /\ tab'[t].socket \in {token, unloaded}
  BY <1>0 DEF TypeOK, loaded
<1>2. TabIsOnePerson'
  <2>1. CASE mixed
    BY <2>1 DEF TabIsOnePerson
  <2>2. CASE ~mixed
    <3>1. known' = known
      BY DEF known
    <3>2. /\ access_token' \in known /\ currentUser' \in known
          /\ \A s \in Tabs : tab'[s].me \in known /\ tab'[s].socket \in known
      BY <1>0, <1>1, <2>2 DEF TabIsOnePerson, known
    <3>. QED
      BY <3>1, <3>2 DEF TabIsOnePerson
  <2>. QED
    BY <2>1, <2>2
<1>3. LoginsAreOfPerson'
  BY <1>0 DEF LoginsAreOfPerson
<1>4. LoggedOutIsClean'
  <2> SUFFICES ASSUME ~mixed, out \/ dirty' = {}
               PROVE  /\ access_token' = nobody /\ currentUser' = nobody
                      /\ \A r \in requests' : r.kind \notin {"login", "profile"}
                      /\ \A s \in Tabs \ dirty' : /\ tab'[s].me = nobody
                                                  /\ tab'[s].socket \in {nobody, unloaded}
    BY DEF LoggedOutIsClean
  <2>1. out \/ dirty = {}
    BY DEF cleaned
  <2>2. /\ access_token = nobody /\ currentUser = nobody
        /\ \A r \in requests : r.kind \notin {"login", "profile"}
        /\ \A s \in Tabs \ dirty : tab[s].me = nobody /\ tab[s].socket \in {nobody, unloaded}
    BY <1>0, <2>1 DEF LoggedOutIsClean
  <2>3. dirty \subseteq dirty' \cup {t}
    BY DEF cleaned
  <2>. QED
    BY <1>1, <2>2, <2>3
<1>. QED
  BY <1>2, <1>3, <1>4 DEF IInv

LEMMA UserLoads ==
  ASSUME IInv, NEW t \in Tabs, NEW p \in {"login", "home"}, Load(t, p)
  PROVE  IInv'
<1>0. TypeOK /\ inputs' \in 0..MaxInputs /\ access_token \in Someone /\ 0 \in 0..MaxInputs
  BY Input, NobodyAssumption DEF IInv, TypeOK, Load
<1>1. /\ requests' \subseteq Request
      /\ \A r \in requests' : r \in requests \/ r.kind = "rooms"
  <2> DEFINE q == request(t, "rooms", access_token, TRUE, 0)
  <2>1. q \in Request /\ q.kind = "rooms"
    BY <1>0 DEF request, Request
  <2>2. requests' = (requests \ of(t)) \cup (IF p = "home" THEN {q} ELSE {})
    BY DEF Load
  <2>. HIDE DEF q
  <2>. QED
    BY <1>0, <2>1, <2>2 DEF of, TypeOK
<1>2. TypeOK'
  <2>1. loaded(p, access_token) \in Tab
    BY <1>0, LoadedType
  <2>. QED
    BY <1>0, <1>1, <2>1 DEF Load, TypeOK, cleaned, of, cookies
<1>. QED
  BY <1>1, <1>2, LoadInvariant DEF Load, cookies

\* The 401 loads the login page.
LEMMA RefusedInvariant ==
  ASSUME IInv, NEW r \in requests, Refused(r)
  PROVE  IInv'
<1>0. TypeOK /\ r.tab \in Tabs /\ nobody \in Someone
  BY DEF IInv, TypeOK, Request, Someone
<1>1. TypeOK'
  <2>1. loaded("login", nobody) \in Tab
    BY <1>0, LoadedType
  <2>. QED
    BY <1>0, <2>1 DEF Refused, handleError, cleaned, of, TypeOK
<1>. QED
  BY <1>0, <1>1, LoadInvariant DEF Refused, handleError, of

-----------------------------------------------------------------------------
(* The other answers. *)

\* The token is of the person who logged in, unless persons are mixed.
LEMMA LoginInvariant ==
  ASSUME IInv, NEW r \in requests, HandleLoginSuccess(r)
  PROVE  IInv'
<1>0. TypeOK /\ TabIsOnePerson /\ LoginsAreOfPerson /\ LoggedOutIsClean
  BY DEF IInv
<1>1. /\ r \in Request /\ r.kind = "login" /\ access_token' = r.user
      /\ UNCHANGED <<currentUser, tab, inputs, person, out, dirty, mixed, lost>>
  BY <1>0 DEF HandleLoginSuccess, LocalAuthGuard, tokenIn, history, TypeOK
<1> DEFINE q == [r EXCEPT !.kind = "profile"]
<1>2. q \in Request /\ q.user = r.user /\ requests' = (requests \ {r}) \cup {q}
  BY <1>1 DEF HandleLoginSuccess, Request
<1>. HIDE DEF q
<1>3. TypeOK'
  BY <1>0, <1>1, <1>2 DEF TypeOK, Request
<1>4. mixed \/ (r.user = person /\ r.user \in Users /\ ~out /\ dirty # {})
  BY <1>0, <1>1 DEF LoginsAreOfPerson, LoggedOutIsClean
<1>5. TabIsOnePerson' /\ LoginsAreOfPerson' /\ LoggedOutIsClean'
  BY <1>0, <1>1, <1>2, <1>4 DEF TabIsOnePerson, known, LoginsAreOfPerson, LoggedOutIsClean
<1>. QED
  BY <1>3, <1>5 DEF IInv

\* Nor is the user that the tab and the cookie take from the profile another's.
LEMMA ProfileInvariant ==
  ASSUME IInv, NEW r \in requests, GetProfileUserSuccess(r)
  PROVE  IInv'
<1>0. TypeOK /\ TabIsOnePerson /\ LoginsAreOfPerson /\ LoggedOutIsClean
  BY DEF IInv
<1> DEFINE t == r.tab
           v == [page |-> "home", me |-> r.user, socket |-> socketOf(tab[t].socket)]
<1>1. /\ r \in Request /\ t \in Tabs /\ r.kind = "profile" /\ currentUser' = r.user
      /\ tab' = [tab EXCEPT ![t] = v]
      /\ UNCHANGED <<access_token, inputs, person, out, dirty, mixed, lost>>
  BY <1>0 DEF GetProfileUserSuccess, history, TypeOK, Request
<1>2. PICK rs \in SUBSET Request : /\ requests' = (requests \ {r}) \cup rs
                                   /\ \A q \in rs : q.kind = "rooms"
  BY <1>0, <1>1, RoomsOf DEF GetProfileUserSuccess
<1>3. v.me = r.user /\ v.socket \in {tab[t].socket, access_token}
  BY DEF socketOf
<1>4. v \in Tab
  BY <1>0, <1>1 DEF socketOf, TypeOK, Tab, Request
<1>. HIDE DEF v
<1>5. TypeOK'
  BY <1>0, <1>1, <1>2, <1>4 DEF TypeOK, Request
<1>6. mixed \/ (r.user = person /\ r.user \in Users /\ ~out /\ dirty # {})
  BY <1>0, <1>1 DEF LoginsAreOfPerson, LoggedOutIsClean
<1>7. TabIsOnePerson'
  <2>1. CASE mixed
    BY <1>1, <2>1 DEF TabIsOnePerson
  <2>2. CASE ~mixed
    <3>1. tab[t].socket \in known /\ access_token \in known /\ r.user \in known
      BY <1>0, <1>1, <1>6, <2>2 DEF TabIsOnePerson, known
    <3>2. \A s \in Tabs : tab'[s].me \in known /\ tab'[s].socket \in known
      <4>1. \A s \in Tabs : tab'[s] = IF s = t THEN v ELSE tab[s]
        BY <1>0, <1>1 DEF TypeOK
      <4>2. v.me \in known /\ v.socket \in known
        BY <1>3, <3>1
      <4>. QED
        BY <1>0, <2>2, <4>1, <4>2 DEF TabIsOnePerson
    <3>3. known' = known
      BY <1>1 DEF known
    <3>. QED
      BY <1>1, <3>1, <3>2, <3>3 DEF TabIsOnePerson
  <2>. QED
    BY <2>1, <2>2
<1>8. LoginsAreOfPerson' /\ LoggedOutIsClean'
  BY <1>0, <1>1, <1>2, <1>6 DEF LoginsAreOfPerson, LoggedOutIsClean
<1>. QED
  BY <1>5, <1>7, <1>8 DEF IInv

\* An answer that only ends its request.
LEMMA RequestEnds ==
  ASSUME IInv, NEW r \in requests, requests' = requests \ {r}, lost' \in BOOLEAN,
         UNCHANGED <<access_token, currentUser, tab, inputs, person, out, dirty, mixed>>
  PROVE  IInv'
<1>0. TypeOK /\ TabIsOnePerson /\ LoginsAreOfPerson /\ LoggedOutIsClean
  BY DEF IInv
<1>1. TypeOK'
  BY <1>0 DEF TypeOK
<1>2. TabIsOnePerson' /\ LoginsAreOfPerson' /\ LoggedOutIsClean'
  BY <1>0 DEF TabIsOnePerson, known, LoginsAreOfPerson, LoggedOutIsClean
<1>. QED
  BY <1>1, <1>2 DEF IInv

-----------------------------------------------------------------------------
\* Cookies, tabs and requests stay those of one person.
THEOREM Invariance == Spec => []IInv
<1>1. IInv /\ [Next]_sessionVars => IInv'
  <2> SUFFICES ASSUME IInv, [Next]_sessionVars PROVE IInv'
    OBVIOUS
  <2>1. ASSUME NEW r \in requests, Answer(r) PROVE IInv'
    <3>1. CASE HandleLoginSuccess(r)
      BY <3>1, LoginInvariant
    <3>2. CASE GetProfileUserSuccess(r)
      BY <3>2, ProfileInvariant
    <3>3. CASE RoomsArrive(r)
      BY <3>3, RequestEnds DEF RoomsArrive, cookies, history, IInv, TypeOK
    <3>4. CASE Refused(r)
      BY <3>4, RefusedInvariant
    <3>5. CASE Fails(r)
      BY <3>5, RequestEnds DEF Fails, cookies, IInv, TypeOK
    <3>. QED
      BY <2>1, <3>1, <3>2, <3>3, <3>4, <3>5 DEF Answer
  <2>2. ASSUME NEW t \in Tabs, NEW u \in Users, NEW ok \in BOOLEAN, OnFinish(t, u, ok)
        PROVE  IInv'
    BY <2>2, OnFinishInvariant
  <2>3. ASSUME NEW t \in Tabs, HandleLogout(t) PROVE IInv'
    BY <2>3, HandleLogoutInvariant
  <2>4. ASSUME NEW t \in Tabs, NEW p \in {"login", "home"}, Load(t, p) PROVE IInv'
    BY <2>4, UserLoads
  <2>5. CASE UNCHANGED sessionVars
    BY <2>5 DEF sessionVars, cookies, history, IInv, TypeOK, TabIsOnePerson, known,
                LoginsAreOfPerson, LoggedOutIsClean
  <2>. QED
    BY <2>1, <2>2, <2>3, <2>4, <2>5 DEF Next
<1>. QED
  BY InitInvariant, <1>1, PTL DEF Spec

\* Tokens, users and sockets have their types.
THEOREM TypeCorrect == Spec => []TypeOK
<1>1. IInv => TypeOK
  BY DEF IInv
<1>. QED
  BY Invariance, <1>1, PTL

\* Unless persons were mixed, the cookies and every tab and socket are of the person who
\* logged in last, or of nobody.
THEOREM BrowserIsOnePerson == Spec => []TabIsOnePerson
<1>1. IInv => TabIsOnePerson
  BY DEF IInv
<1>. QED
  BY Invariance, <1>1, PTL
=============================================================================
