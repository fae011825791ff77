------------------------------- MODULE Session -------------------------------
(***************************************************************************)
(* Who a browser takes its user to be.  The cookies access_token and       *)
(* currentUser are the browser's; every tab has besides them AuthProvider's *)
(* currentUser and the socket of SocketService, which is opened with the   *)
(* token there is when the code of /home is loaded and stays until the tab *)
(* is loaded again.  Nothing tells a tab of the logins of another.         *)
(*                                                                         *)
(* A token is the user it was issued to.  It may be refused from some time *)
(* on (it expires), and is deleted then.  getRooms stands for all requests *)
(* of the pages under /home.  The effects of AuthProvider run with the     *)
(* step that causes them.                                                  *)
(***************************************************************************)
EXTENDS Naturals, FiniteSets

CONSTANTS Tabs, Users, nobody,
          MaxInputs      \* bound on what users do

ASSUME NobodyAssumption == nobody \notin Users /\ MaxInputs \in Nat

VARIABLES access_token, currentUser,   \* cookies
          tab,         \* the tabs' pages
          requests,    \* HTTP requests in flight
          inputs,
          person,      \* history: who logged in last,
          out,         \*   whether somebody has logged out since,
          dirty,       \*   tabs not loaded since that,
          mixed,       \*   another logged in while some were dirty, or the logout
                       \*   came between the requests of a login
          lost         \* history: a logout was not answered

cookies == <<access_token, currentUser>>
history == <<person, out, dirty, mixed, lost>>
sessionVars == <<cookies, tab, requests, inputs, history>>

Someone == Users \cup {nobody}
unloaded == "unloaded"    \* SocketService's module is not loaded yet

\* `me' is AuthProvider's currentUser, as whom the tab joins rooms; the server takes what
\* it sends to be from the user of `socket'.
Tab == [page : {"login", "home"}, me : Someone, socket : Someone \cup {unloaded}]

\* `user' is who logs in or whose token the request carries, `ok' whether the password
\* is right, and `at' tells the logins of a tab apart.
Request == [tab : Tabs, kind : {"login", "profile", "rooms", "logout"}, user : Someone,
            ok : BOOLEAN, at : 0..MaxInputs]

request(t, k, u, ok, at) == [tab |-> t, kind |-> k, user |-> u, ok |-> ok, at |-> at]
of(t) == {r \in requests : r.tab = t}
waits(t, k) == \E r \in of(t) : r.kind = k

-----------------------------------------------------------------------------
\* The socket of the module under /home.
socketOf(s) == IF s = unloaded THEN access_token ELSE s

\* The request of NavigationRoom; react-query shares one that is in flight.
roomsOf(t) == IF waits(t, "rooms") THEN {} ELSE {request(t, "rooms", access_token, TRUE, 0)}

\* A page after a full load; AuthProvider restores currentUser from the cookie.
loaded(p, token) ==
  [page |-> p, me |-> currentUser, socket |-> IF p = "home" THEN token ELSE unloaded]

cleaned(t) == dirty' = IF out THEN dirty \ {t} ELSE dirty

\* The answer 401: window.location.href = '/login' gives up all requests of the tab.
mutantRefuse(r) ==
  IF r.kind = "logout" THEN requests' = requests \ {r} /\ UNCHANGED <<tab, access_token, dirty>>
  ELSE /\ access_token' = nobody /\ tab' = [tab EXCEPT ![r.tab] = loaded("login", nobody)]
       /\ requests' = requests \ of(r.tab) /\ cleaned(r.tab)
handleError(r) ==
  /\ access_token' = nobody
  /\ tab' = [tab EXCEPT ![r.tab] = loaded("login", nobody)]
  /\ requests' = requests \ of(r.tab)
  /\ cleaned(r.tab)

Init ==
  /\ access_token = nobody /\ currentUser = nobody
  /\ tab = [t \in Tabs |-> loaded("login", nobody)]
  /\ requests = {} /\ inputs = 0
  /\ person = nobody /\ out = FALSE /\ dirty = {} /\ mixed = FALSE /\ lost = FALSE

input == inputs < MaxInputs /\ inputs' = inputs + 1

-----------------------------------------------------------------------------
\* LoginPage.onFinish; its button waits for the login that is under way, and no longer
\* than that.
OnFinish(t, u, ok) ==
  /\ input
  /\ tab[t].page = "login" /\ ~waits(t, "login")
  /\ requests' = requests \cup {request(t, "login", u, ok, inputs')}
  /\ person' = u /\ out' = FALSE /\ dirty' = Tabs
  /\ mixed' = (mixed \/ (person \notin {u, nobody} /\ dirty # {}))
  /\ UNCHANGED <<cookies, tab, lost>>

\* LocalAuthGuard guards logins and logouts, and JwtAuthGuard the rest.  A logout sends
\* neither username nor password.
validateUser(r) == r.ok
LocalAuthGuard(r) == r.kind = "login" /\ validateUser(r)
JwtAuthGuard(r) == r.kind \in {"profile", "rooms"} /\ r.user # nobody

\* The token in the answer: handleLoginSuccess takes response.access_token, while
\* AuthService.login looks for data.access_token, which is not there, and leaves it.
mutantTokenIn(r) == "undefined"
tokenIn(r) == r.user

\* The login page asks for the profile next.
HandleLoginSuccess(r) ==
  /\ LocalAuthGuard(r)
  /\ access_token' = tokenIn(r)
  /\ requests' = (requests \ {r}) \cup {[r EXCEPT !.kind = "profile"]}
  /\ UNCHANGED <<currentUser, tab, inputs, history>>

\* currentUser is set, in the tab and by the effect in the cookie, and /home opened.
GetProfileUserSuccess(r) ==
  LET t == r.tab
  IN /\ r.kind = "profile" /\ JwtAuthGuard(r)
     /\ currentUser' = r.user
     /\ tab' = [tab EXCEPT ![t] = [page |-> "home", me |-> r.user, socket |-> socketOf(@.socket)]]
     /\ requests' = (requests \ {r}) \cup (IF tab[t].page = "home" THEN {} ELSE roomsOf(t))
     /\ UNCHANGED <<access_token, inputs, history>>

\* The rooms are the same for everybody.
RoomsArrive(r) ==
  /\ r.kind = "rooms" /\ JwtAuthGuard(r)
  /\ requests' = requests \ {r}
  /\ UNCHANGED <<cookies, tab, inputs, history>>

\* A wrong password, no token or an expired one, and every logout.
Refused(r) ==
  /\ ~LocalAuthGuard(r)
  /\ handleError(r)
  /\ UNCHANGED <<currentUser, inputs, person, out, mixed, lost>>

\* The network fails: no response, so that the interceptor throws.
Fails(r) ==
  /\ requests' = requests \ {r}
  /\ lost' = (lost \/ r.kind = "logout")
  /\ UNCHANGED <<cookies, tab, inputs, person, out, dirty, mixed>>

-----------------------------------------------------------------------------
\* AccountDropdown deletes the cookies, does not wait for the answer and opens /login.
mutantLogoutCookies == access_token' = nobody /\ UNCHANGED currentUser
deleteCookies == access_token' = nobody /\ currentUser' = nobody
HandleLogout(t) ==
  /\ input
  /\ tab[t].page = "home"
  /\ deleteCookies
  /\ requests' = requests \cup {request(t, "logout", nobody, TRUE, inputs')}
  /\ tab' = [tab EXCEPT ![t].page = "login"]
  /\ out' = TRUE /\ dirty' = Tabs
  /\ mixed' = (mixed \/ \E r \in requests : r.kind \in {"login", "profile"})
  /\ UNCHANGED <<person, lost>>

\* The user loads a page by its address.
Load(t, p) ==
  /\ input
  /\ tab' = [tab EXCEPT ![t] = loaded(p, access_token)]
  /\ requests' = (requests \ of(t)) \cup
       (IF p = "home" THEN {request(t, "rooms", access_token, TRUE, 0)} ELSE {})
  /\ cleaned(t)
  /\ UNCHANGED <<cookies, person, out, mixed, lost>>

Answer(r) == \/ HandleLoginSuccess(r) \/ GetProfileUserSuccess(r) \/ RoomsArrive(r)
             \/ Refused(r) \/ Fails(r)

Next ==
  \/ \E r \in requests : Answer(r)
  \/ \E t \in Tabs : \/ \E u \in Users, ok \in BOOLEAN : OnFinish(t, u, ok)
                     \/ HandleLogout(t)
                     \/ \E p \in {"login", "home"} : Load(t, p)

Spec == Init /\ [][Next]_sessionVars

\* Every request ends, answered or not.
Fairness == WF_sessionVars(\E r \in requests : Answer(r))

-----------------------------------------------------------------------------
TypeOK ==
  /\ {access_token, currentUser, person} \subseteq Someone
  /\ tab \in [Tabs -> Tab]
  /\ requests \subseteq Request
  /\ inputs \in 0..MaxInputs
  /\ dirty \subseteq Tabs
  /\ out \in BOOLEAN /\ mixed \in BOOLEAN /\ lost \in BOOLEAN

known == {person, nobody, unloaded}

\* Cookies, tabs and their sockets are all of the person who logged in last: answers that
\* come late, expired tokens and the other tab bring nobody back.  But only when a logout
\* waits for logins that are under way, and every tab is loaded again after it before
\* another logs in: otherwise the new user speaks through the socket of the old one.
TabIsOnePerson ==
  mixed \/ /\ {access_token, currentUser} \subseteq known
           /\ \A t \in Tabs : {tab[t].me, tab[t].socket} \subseteq known

\* A tab where the user logged out forgets user and socket, which it keeps at first: the
\* logout is refused and the page loaded.  Unless the logout is not answered, somebody
\* logs in, or a login was under way.
LogoutForgets ==
  \A t \in Tabs : waits(t, "logout") ~>
    (tab[t].me = nobody /\ tab[t].socket \notin Users) \/ lost \/ ~out \/ mixed

-----------------------------------------------------------------------------
(* What makes TabIsOnePerson inductive, for SessionProofs. *)

\* A login that is under way is of the person who logged in last.
LoginsAreOfPerson ==
  mixed \/ \A r \in requests : r.kind \in {"login", "profile"} => r.user = person /\ r.user \in Users

\* Since a logout, and before any login, no login is under way, the cookies are gone, and a
\* tab that was loaded knows nobody: the next login finds nothing of another person.
LoggedOutIsClean ==
  mixed \/ (out \/ dirty = {} =>
              /\ access_token = nobody /\ currentUser = nobody
              /\ \A r \in requests : r.kind \notin {"login", "profile"}
              /\ \A t \in Tabs \ dirty : tab[t].me = nobody /\ tab[t].socket \in {nobody, unloaded})

IInv == TypeOK /\ TabIsOnePerson /\ LoginsAreOfPerson /\ LoggedOutIsClean
=============================================================================
