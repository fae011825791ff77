---------------------------- MODULE BrowserProofs ----------------------------
(***************************************************************************)
(* For any requests, usernames and emails: Registration.  For any rooms,   *)
(* keywords and number of inputs: RoomList, its types, that a tab joins    *)
(* the rooms it lists, and what its search shows.  And for what MCBrowser  *)
(* puts together of them and Session, that it takes the steps of each.     *)
(***************************************************************************)
EXTENDS MCBrowser, SessionProofs

(* Registration. *)

\* Registrations that have only been sent have stored nothing.
LEMMA RegistrationInit == R!Init => R!IInv
BY DEF R!Init, R!IInv, R!TypeOK, R!AccountsAreUnique, R!PendingStoredNothing, R!Steps,
       R!Statuses

\* A step of a request that stores no account keeps the invariant, if the answer it may
\* give is true.
LEMMA NothingStored ==
  ASSUME R!IInv, NEW q \in Requests, step[q] # "answered",
         NEW s \in R!Steps, NEW a \in R!Statuses,
         step' = [step EXCEPT ![q] = s],
         status' = [status EXCEPT ![q] = a],
         s # "answered" => a = "none",
         a # "201",
         a = "409" => R!usernameExists(q) \/ R!emailExists(q),
         UNCHANGED <<form, users>>
  PROVE  R!IInv'
<1>. USE DEF R!IInv
<1>1. R!TypeOK'
  BY DEF R!TypeOK
<1>2. R!AccountsAreUnique'
  <2>1. q \notin users
    BY DEF R!PendingStoredNothing
  <2>2. ASSUME NEW p \in Requests
        PROVE  /\ status'[p] = "201" => p \in users'
               /\ status'[p] = "409" =>
                    p \notin users' /\ (R!usernameExists(p) \/ R!emailExists(p))'
    BY <2>1 DEF R!TypeOK, R!AccountsAreUnique, R!usernameExists, R!emailExists
  <2>. QED
    BY <2>2 DEF R!AccountsAreUnique
<1>3. R!PendingStoredNothing'
  BY DEF R!PendingStoredNothing, R!TypeOK
<1>. QED
  BY <1>1, <1>2, <1>3

\* A request that the indexes admit may store its account with the step that answers it.
LEMMA AccountStored ==
  ASSUME R!IInv, NEW q \in Requests, step[q] # "answered",
         NEW a \in {"201", "500"},
         step' = [step EXCEPT ![q] = "answered"],
         status' = [status EXCEPT ![q] = a],
         R!indexAdmits(q),
         users' = users \cup {q},
         UNCHANGED form
  PROVE  R!IInv'
<1>. USE DEF R!IInv
<1>1. R!TypeOK'
  BY DEF R!TypeOK, R!Steps, R!Statuses
<1>2. R!AccountsAreUnique'
  <2>1. \A p, o \in users' : p # o => /\ form'[p].username # form'[o].username
                                      /\ form'[p].email # form'[o].email
    BY DEF R!AccountsAreUnique, R!indexAdmits, R!usernameExists, R!emailExists
  <2>2. ASSUME NEW p \in Requests
        PROVE  /\ status'[p] = "201" => p \in users'
               /\ status'[p] = "409" =>
                    p \notin users' /\ (R!usernameExists(p) \/ R!emailExists(p))'
    <3>1. CASE p = q
      BY <3>1 DEF R!TypeOK
    <3>2. CASE p # q
      <4>1. status'[p] = status[p]
        BY <3>2 DEF R!TypeOK
      <4>. QED
        BY <3>2, <4>1 DEF R!AccountsAreUnique, R!usernameExists, R!emailExists
    <3>. QED
      BY <3>1, <3>2
  <2>. QED
    BY <2>1, <2>2 DEF R!AccountsAreUnique
<1>3. R!PendingStoredNothing'
  BY DEF R!PendingStoredNothing, R!TypeOK
<1>. QED
  BY <1>1, <1>2, <1>3

\* Every step of a request is one of the two.
LEMMA RequestStep ==
  ASSUME R!IInv, NEW q \in Requests,
         \/ R!Register(q) \/ R!ExistsByUsername(q) \/ R!ExistsByEmail(q)
         \/ R!Create(q) \/ R!Fails(q)
  PROVE  R!IInv'
<1>0. R!TypeOK /\ step[q] \in R!Steps
  BY DEF R!IInv, R!TypeOK
<1>1. step[q] # "answered" => status[q] = "none" /\ status = [status EXCEPT ![q] = "none"]
  BY DEF R!IInv, R!TypeOK, R!PendingStoredNothing
<1>2. CASE R!Register(q)
  BY <1>1, <1>2, NothingStored DEF R!Register, R!go, R!Steps, R!Statuses
<1>3. CASE R!ExistsByUsername(q)
  BY <1>1, <1>3, NothingStored DEF R!ExistsByUsername, R!go, R!answer, R!Steps, R!Statuses
<1>4. CASE R!ExistsByEmail(q)
  BY <1>1, <1>4, NothingStored DEF R!ExistsByEmail, R!go, R!answer, R!Steps, R!Statuses
<1>5. CASE R!Create(q)
  <2>1. CASE R!indexAdmits(q)
    BY <1>5, <2>1, AccountStored DEF R!Create, R!go, R!answer
  <2>2. CASE ~R!indexAdmits(q)
    BY <1>5, <2>2, NothingStored DEF R!Create, R!go, R!answer, R!Steps, R!Statuses
  <2>. QED
    BY <2>1, <2>2
<1>6. CASE R!Fails(q)
  <2>1. CASE UNCHANGED users
    BY <1>6, <2>1, NothingStored DEF R!Fails, R!go, R!answer, R!Steps, R!Statuses
  <2>2. CASE R!indexAdmits(q) /\ users' = users \cup {q}
    BY <1>6, <2>2, AccountStored DEF R!Fails, R!go, R!answer
  <2>. QED
    BY <1>6, <2>1, <2>2 DEF R!Fails
<1>. QED
  BY <1>2, <1>3, <1>4, <1>5, <1>6

\* What is stored and answered stays in order.
THEOREM RegistrationInvariance == R!Spec => []R!IInv
<1>1. R!IInv /\ [R!Next]_(R!vars) => R!IInv'
  <2>1. R!IInv /\ R!Next => R!IInv'
    BY RequestStep DEF R!Next
  <2>2. R!IInv /\ UNCHANGED R!vars => R!IInv'
    BY DEF R!vars, R!IInv, R!TypeOK, R!AccountsAreUnique, R!PendingStoredNothing,
           R!usernameExists, R!emailExists
  <2>. QED
    BY <2>1, <2>2
<1>. QED
  BY RegistrationInit, <1>1, PTL DEF R!Spec

\* No two accounts share a username or an email, and the answers to registrations are
\* true, however many run side by side, as the unique indexes decide last.
THEOREM UniqueAccounts == R!Spec => []AccountsAreUnique
<1>1. R!IInv => AccountsAreUnique
  BY DEF R!IInv, AccountsAreUnique
<1>. QED
  BY RegistrationInvariance, <1>1, PTL

-----------------------------------------------------------------------------
(* The list of rooms. *)

LEMMA NewListType == L!newList \in L!List
BY DEF L!newList, L!List

\* The query a page starts with.
LEMMA FirstFetch == {[keyword |-> none, answered |-> FALSE, rooms |-> {}]} \subseteq L!Fetch
<1>1. [keyword |-> none, answered |-> FALSE, rooms |-> {}] \in L!Fetch
  BY DEF L!Fetch
<1>. QED
  BY <1>1

\* query leaves the fetches there are and has one for the keyword.
LEMMA Query ==
  ASSUME fetches \subseteq L!Fetch, NEW k \in Keywords \cup {none}
  PROVE  /\ L!query(k) \subseteq L!Fetch
         /\ fetches \subseteq L!query(k)
         /\ \A f \in L!query(k) : f \in fetches \/ ~f.answered
         /\ \E f \in L!query(k) : f.keyword = k
<1> DEFINE new == [keyword |-> k, answered |-> FALSE, rooms |-> {}]
<1>1. new \in L!Fetch /\ new.keyword = k /\ ~new.answered
  BY DEF L!Fetch
<1>2. CASE \E f \in fetches : f.keyword = k
  BY <1>2 DEF L!query
<1>3. CASE ~\E f \in fetches : f.keyword = k
  <2>1. L!query(k) = fetches \cup {new}
    BY <1>3 DEF L!query
  <2>. HIDE DEF new
  <2>. QED
    BY <1>1, <2>1
<1>. QED
  BY <1>2, <1>3

\* What onSuccess appends to are the rooms of the last render.
LEMMA Appended ==
  ASSUME closure \in L!List, NEW rs
  PROVE  L!appended(rs) \in [Rooms -> Nat]
BY DEF L!appended, L!List

\* The parts of the list that types and properties tell apart.
LEMMA Parts ==
  ASSUME L!TypeOK
  PROVE  /\ state \in L!List /\ closure \in L!List
         /\ state.keyword \in Keywords \cup {none} /\ closure.keyword \in Keywords \cup {none}
         /\ state.rooms \in [Rooms -> Nat] /\ closure.rooms \in [Rooms -> Nat]
         /\ state.isSearch \in BOOLEAN /\ closure.isSearch \in BOOLEAN
         /\ state.results \in SUBSET Rooms
BY DEF L!TypeOK, L!List

\* The answer changes rooms, results and keyword of the state, as far as they are observed.
LEMMA ArrivedState ==
  ASSUME L!TypeOK, NEW f, L!RoomsArrive(f)
  PROVE  /\ state' \in L!List
         /\ state'.isSearch = state.isSearch
         /\ crashed => state' = state
         /\ ~crashed /\ L!isObserved(f) /\ state.isSearch
              => state'.results = f.rooms /\ state'.keyword = closure.keyword
         /\ ~(L!isObserved(f) /\ state.isSearch)
              => state'.results = state.results /\ state'.keyword = state.keyword
<1>0. f \in L!Fetch /\ state \in L!List /\ closure \in L!List
  BY DEF L!TypeOK, L!RoomsArrive
<1> DEFINE listed == IF f.keyword # none THEN state
                     ELSE [state EXCEPT !.rooms = L!appended(f.rooms),
                                        !.undefinedFirst = closure.undefinedFirst]
           shownNow == [listed EXCEPT !.results = f.rooms, !.keyword = closure.keyword]
<1>1. /\ listed \in L!List /\ listed.isSearch = state.isSearch
      /\ listed.results = state.results /\ listed.keyword = state.keyword
  <2>1. L!appended(f.rooms) \in [Rooms -> Nat]
    BY <1>0, Appended
  <2>2. CASE f.keyword # none
    BY <1>0, <2>2
  <2>3. CASE f.keyword = none
    BY <1>0, <2>1, <2>3 DEF L!List
  <2>. QED
    BY <2>2, <2>3
<1>2. state' = IF crashed THEN state
               ELSE IF L!isObserved(f) /\ state.isSearch THEN shownNow ELSE listed
  BY DEF L!RoomsArrive
<1>. HIDE DEF listed
<1>3. /\ shownNow \in L!List /\ shownNow.isSearch = state.isSearch
      /\ shownNow.results = f.rooms /\ shownNow.keyword = closure.keyword
  BY <1>0, <1>1 DEF L!List, L!Fetch
<1>. HIDE DEF shownNow
<1>4. CASE crashed
  BY <1>0, <1>2, <1>4
<1>5. CASE ~crashed /\ L!isObserved(f) /\ state.isSearch
  BY <1>2, <1>3, <1>5
<1>6. CASE ~crashed /\ ~(L!isObserved(f) /\ state.isSearch)
  BY <1>1, <1>2, <1>6
<1>. QED
  BY <1>4, <1>5, <1>6

-----------------------------------------------------------------------------
LEMMA ListInit == L!Init => L!IInv
<1> SUFFICES ASSUME L!Init PROVE L!IInv
  OBVIOUS
<1>1. L!TypeOK
  <2>1. fetches \subseteq L!Fetch
    BY FirstFetch DEF L!Init
  <2>2. 0 \in 0..MaxClicks
    BY RoomListAssumption DEF L!RoomListAssumption
  <2>. QED
    BY <2>1, <2>2, NewListType, RoomListAssumption
       DEF L!RoomListAssumption, L!Init, L!TypeOK
<1>2. L!RowsHaveAsked
  BY DEF L!Init, L!RowsHaveAsked, L!rowsOf, L!newList
<1>3. L!AnswersAreOfKeyword
  BY DEF L!Init, L!AnswersAreOfKeyword
<1>4. L!KeywordIsWanted /\ L!SearchIsAnswered
  BY DEF L!Init, L!KeywordIsWanted, L!SearchIsAnswered, L!newList
<1>. QED
  BY <1>1, <1>2, <1>3, <1>4 DEF L!IInv

-----------------------------------------------------------------------------
(* Types. *)

\* One more input is still in bounds.
LEMMA ListInput ==
  ASSUME L!TypeOK, L!input
  PROVE  clicks' \in 0..MaxClicks
BY RoomListAssumption DEF L!RoomListAssumption, L!TypeOK, L!input

\* The steps that set the state, each to a list.
LEMMA StateType ==
  ASSUME L!TypeOK,
         \/ L!OpenSearch \/ L!CloseSearch \/ L!DebouncedSearch \/ L!HandleNewRoomClick
         \/ L!CancelModal \/ L!Load \/ \E rooms \in creating : L!RoomCreated(rooms)
  PROVE  L!TypeOK'
<1>0. state \in L!List /\ L!newList \in L!List
  BY NewListType DEF L!TypeOK
<1>1. CASE L!OpenSearch
  <2>1. state' \in L!List
    BY <1>0, <1>1 DEF L!OpenSearch, L!List
  <2>. QED
    BY <1>1, <2>1, ListInput DEF L!OpenSearch, L!shown, L!TypeOK, L!database, L!server
<1>2. CASE L!CloseSearch
  <2>1. state' \in L!List
    BY <1>0, <1>2 DEF L!CloseSearch, L!List
  <2>. QED
    BY <1>2, <2>1, ListInput DEF L!CloseSearch, L!shown, L!TypeOK, L!database, L!server,
                                 L!search
<1>3. CASE L!DebouncedSearch
  <2>1. state' \in L!List
    BY <1>0, <1>3 DEF L!DebouncedSearch, L!List, L!TypeOK
  <2>. QED
    BY <1>3, <2>1 DEF L!DebouncedSearch, L!TypeOK, L!database, L!server
<1>4. CASE L!HandleNewRoomClick
  <2>1. state' \in L!List
    BY <1>0, <1>4 DEF L!HandleNewRoomClick, L!List
  <2>. QED
    BY <1>4, <2>1, ListInput DEF L!HandleNewRoomClick, L!shown, L!TypeOK, L!database,
                                 L!server, L!search
<1>5. CASE L!CancelModal
  <2>1. state' \in L!List
    BY <1>0, <1>5 DEF L!CancelModal, L!List
  <2>. QED
    BY <1>5, <2>1, ListInput DEF L!CancelModal, L!shown, L!TypeOK, L!database, L!server,
                                 L!search
<1>6. CASE L!Load
  <2>1. fetches' \subseteq L!Fetch
    BY <1>6, FirstFetch DEF L!Load
  <2>. QED
    BY <1>0, <1>6, <2>1, ListInput DEF L!Load, L!TypeOK, L!database
<1>7. ASSUME NEW rooms \in creating, L!RoomCreated(rooms) PROVE L!TypeOK'
  <2>1. state' \in L!List
    BY <1>0, <1>7 DEF L!RoomCreated, L!List, L!TypeOK
  <2>. QED
    BY <1>7, <2>1 DEF L!RoomCreated, L!TypeOK, L!database, L!server, L!search
<1>. QED
  BY <1>1, <1>2, <1>3, <1>4, <1>5, <1>6, <1>7

\* The steps that take the state over, or answers to it.
LEMMA QueryType ==
  ASSUME L!TypeOK,
         \/ L!Refresh \/ L!Scroll
         \/ \E f \in fetches : L!Answer(f) \/ L!RoomsArrive(f) \/ L!Fails(f)
  PROVE  L!TypeOK'
<1>1. CASE L!Refresh
  <2>1. fetches' \subseteq L!Fetch
    BY <1>1, Parts, Query DEF L!Refresh, L!TypeOK
  <2>2. asked' \subseteq Rooms /\ joined' \subseteq Rooms /\ exempt' \subseteq Rooms
        /\ crashed' \in BOOLEAN
    BY <1>1 DEF L!Refresh, L!TypeOK, L!joinRoom, L!server
  <2>. QED
    BY <1>1, <2>1, <2>2 DEF L!Refresh, L!TypeOK, L!database, L!search
<1>2. CASE L!Scroll
  <2>1. fetches' \subseteq L!Fetch
    BY <1>2, Parts, Query DEF L!Scroll, L!TypeOK
  <2>. QED
    BY <1>2, <2>1, ListInput DEF L!Scroll, L!shown, L!TypeOK, L!database, L!react, L!server,
                                 L!search
<1>3. ASSUME NEW f \in fetches, L!Answer(f) PROVE L!TypeOK'
  <2>1. L!found(f.keyword) \subseteq Rooms
    BY DEF L!found, L!TypeOK
  <2>2. [f EXCEPT !.answered = TRUE, !.rooms = L!found(f.keyword)] \in L!Fetch
    BY <2>1 DEF L!TypeOK, L!Fetch
  <2>. QED
    BY <1>3, <2>2 DEF L!Answer, L!TypeOK, L!database, L!react, L!server, L!search
<1>4. ASSUME NEW f \in fetches, L!RoomsArrive(f) PROVE L!TypeOK'
  <2>1. state' \in L!List
    BY <1>4, ArrivedState
  <2>2. disturbed' \in BOOLEAN
    BY <1>4 DEF L!RoomsArrive, L!TypeOK
  <2>. QED
    BY <1>4, <2>1, <2>2 DEF L!RoomsArrive, L!TypeOK, L!database, L!server
<1>5. ASSUME NEW f \in fetches, L!Fails(f) PROVE L!TypeOK'
  BY <1>5 DEF L!Fails, L!TypeOK, L!database, L!react, L!server
<1>. QED
  BY <1>1, <1>2, <1>3, <1>4, <1>5

\* The steps of the server, and those of the user that leave the state alone.
LEMMA OtherType ==
  ASSUME L!TypeOK,
         \/ L!Reconnect \/ L!CreateFails \/ L!CreateRoom
         \/ \E r \in Rooms : L!JoinRoom(r) \/ L!Created(r) \/ L!Invited(r)
         \/ \E k \in Keywords : L!HandleSearch(k)
  PROVE  L!TypeOK'
<1>1. CASE L!Reconnect
  BY <1>1, ListInput DEF L!Reconnect, L!TypeOK, L!database, L!react, L!search
<1>2. CASE L!CreateFails
  BY <1>2 DEF L!CreateFails, L!TypeOK, L!database, L!react, L!server, L!search
<1>3. CASE L!CreateRoom
  BY <1>3, ListInput, Parts DEF L!CreateRoom, L!shown, L!TypeOK, L!database, L!react,
                                L!server, L!search
<1>4. ASSUME NEW r \in Rooms, L!JoinRoom(r) PROVE L!TypeOK'
  BY <1>4 DEF L!JoinRoom, L!TypeOK, L!database, L!react, L!search
<1>5. ASSUME NEW r \in Rooms, L!Created(r) PROVE L!TypeOK'
  BY <1>5, ListInput DEF L!Created, L!TypeOK, L!react, L!server, L!search
<1>6. ASSUME NEW r \in Rooms, L!Invited(r) PROVE L!TypeOK'
  BY <1>6, ListInput DEF L!Invited, L!TypeOK, L!react, L!server, L!search
<1>7. ASSUME NEW k \in Keywords, L!HandleSearch(k) PROVE L!TypeOK'
  BY <1>7, ListInput DEF L!HandleSearch, L!shown, L!TypeOK, L!database, L!server, L!search
<1>. QED
  BY <1>1, <1>2, <1>3, <1>4, <1>5, <1>6, <1>7

-----------------------------------------------------------------------------
(* The rows. *)

\* A row mounted by a render asks with it; those there were have asked.
LEMMA RowsStep ==
  ASSUME L!IInv, L!Next
  PROVE  L!RowsHaveAsked'
<1>0. L!TypeOK /\ L!RowsHaveAsked
  BY DEF L!IInv
<1>1. CASE L!Refresh
  <2> SUFFICES ASSUME ~crashed', NEW r \in Rooms, L!rowsOf(closure', r) > 0
               PROVE  r \in asked' \cup joined' \cup exempt'
    BY DEF L!RowsHaveAsked, L!rowsOf
  <2> DEFINE emits == {q \in Rooms : L!rowsOf(state, q) > L!rowsOf(closure, q)}
  <2>1. /\ ~crashed /\ closure' = state
        /\ asked' = asked \cup emits /\ exempt' = exempt \ emits /\ joined' = joined
    BY <1>1 DEF L!Refresh, L!joinRoom, L!server
  <2>2. L!rowsOf(state, r) \in Nat /\ L!rowsOf(closure, r) \in Nat /\ L!rowsOf(state, r) > 0
    BY <1>0, <2>1, Parts DEF L!rowsOf
  <2>3. CASE r \in emits
    BY <2>1, <2>3
  <2>4. CASE r \notin emits
    <3>1. L!rowsOf(closure, r) > 0
      BY <2>2, <2>4
    <3>. HIDE DEF emits
    <3>. QED
      BY <1>0, <2>1, <2>4, <3>1 DEF L!RowsHaveAsked
  <2>. QED
    BY <2>3, <2>4
<1>2. ASSUME NEW r \in Rooms, L!JoinRoom(r) PROVE L!RowsHaveAsked'
  <2>1. UNCHANGED <<closure, crashed>>
    BY <1>2 DEF L!JoinRoom, L!react
  <2>2. asked \cup joined \cup exempt \subseteq asked' \cup joined' \cup exempt'
    BY <1>2 DEF L!JoinRoom
  <2>. QED
    BY <1>0, <2>1, <2>2 DEF L!RowsHaveAsked, L!rowsOf
<1>3. CASE L!Reconnect
  <2>1. UNCHANGED <<closure, crashed>>
    BY <1>3 DEF L!Reconnect, L!react
  <2>2. asked \cup joined \cup exempt \subseteq asked' \cup joined' \cup exempt'
    BY <1>3 DEF L!Reconnect
  <2>. QED
    BY <1>0, <2>1, <2>2 DEF L!RowsHaveAsked, L!rowsOf
<1>4. CASE L!Load
  BY <1>4 DEF L!Load, L!RowsHaveAsked, L!rowsOf, L!newList
<1>5. CASE UNCHANGED <<closure, crashed, L!server>>
  BY <1>0, <1>5 DEF L!RowsHaveAsked, L!rowsOf, L!server
<1>6. \/ L!Refresh \/ L!Reconnect \/ L!Load \/ \E r \in Rooms : L!JoinRoom(r)
      \/ UNCHANGED <<closure, crashed, L!server>>
  BY DEF L!Next, L!CreateFails, L!RoomCreated, L!Answer, L!RoomsArrive, L!Fails, L!Created,
         L!Invited, L!HandleSearch, L!Scroll, L!OpenSearch, L!CloseSearch, L!DebouncedSearch,
         L!HandleNewRoomClick, L!CreateRoom, L!CancelModal, L!react
<1>. QED
  BY <1>1, <1>2, <1>3, <1>4, <1>5, <1>6

-----------------------------------------------------------------------------
(* The search. *)

\* Answers stay right while rooms are only added.
LEMMA AnswersStep ==
  ASSUME L!IInv, L!Next
  PROVE  L!AnswersAreOfKeyword'
<1>0. L!TypeOK /\ L!AnswersAreOfKeyword
  BY DEF L!IInv
<1>1. exists \subseteq exists' /\ matches' = matches
  BY DEF L!Next, L!Refresh, L!Reconnect, L!CreateFails, L!RoomCreated, L!Answer,
         L!RoomsArrive, L!Fails, L!JoinRoom, L!Created, L!Invited, L!HandleSearch, L!Scroll,
         L!OpenSearch, L!CloseSearch, L!DebouncedSearch, L!HandleNewRoomClick, L!CreateRoom,
         L!CancelModal, L!Load, L!database
<1>2. ASSUME NEW rs, NEW k, L!areOf(rs, k) PROVE L!areOf(rs, k)'
  BY <1>0, <1>1, <1>2 DEF L!areOf, L!found, L!AnswersAreOfKeyword
<1>3. FirstRooms \subseteq exists'
  BY <1>0, <1>1 DEF L!AnswersAreOfKeyword
<1>4. ASSUME NEW f \in fetches' PROVE \/ f \in fetches \/ ~f.answered
                                     \/ L!areOf(f.rooms, f.keyword)'
  <2>1. CASE L!Refresh
    BY <1>0, <2>1, Parts, Query DEF L!Refresh, L!TypeOK
  <2>2. CASE L!Scroll
    BY <1>0, <2>2, Parts, Query DEF L!Scroll, L!TypeOK
  <2>3. ASSUME NEW g \in fetches, L!Answer(g)
        PROVE  f \in fetches \/ L!areOf(f.rooms, f.keyword)'
    <3> DEFINE new == [g EXCEPT !.answered = TRUE, !.rooms = L!found(g.keyword)]
    <3>1. g \in L!Fetch
      BY <1>0 DEF L!TypeOK
    <3>2. new.keyword = g.keyword /\ new.rooms = L!found(g.keyword)
      BY <3>1 DEF L!Fetch
    <3>3. L!areOf(L!found(g.keyword), g.keyword)
      BY DEF L!areOf
    <3>4. f \in fetches \/ f = new
      BY <2>3 DEF L!Answer
    <3>. HIDE DEF new
    <3>. QED
      BY <1>2, <3>2, <3>3, <3>4
  <2>4. CASE L!Load
    BY <2>4 DEF L!Load
  <2>5. CASE fetches' \subseteq fetches
    BY <2>5
  <2>6. \/ L!Refresh \/ L!Scroll \/ L!Load
        \/ \E g \in fetches : L!Answer(g)
        \/ fetches' \subseteq fetches
    BY DEF L!Next, L!Reconnect, L!CreateFails, L!RoomCreated, L!RoomsArrive, L!Fails,
           L!JoinRoom, L!Created, L!Invited, L!HandleSearch, L!OpenSearch, L!CloseSearch,
           L!DebouncedSearch, L!HandleNewRoomClick, L!CreateRoom, L!CancelModal
  <2>. QED
    BY <2>1, <2>2, <2>3, <2>4, <2>5, <2>6
<1>. QED
  BY <1>0, <1>2, <1>3, <1>4 DEF L!AnswersAreOfKeyword

\* The setters get keywords from the user, who wants them; an answer that sets the keyword
\* back to that of the last render counts as a disturbance unless it is the one wanted.
LEMMA KeywordStep ==
  ASSUME L!IInv, L!Next
  PROVE  L!KeywordIsWanted'
<1>0. L!TypeOK /\ L!KeywordIsWanted /\ state \in L!List
  BY DEF L!IInv, L!TypeOK
<1>1. ASSUME state'.keyword = state.keyword, crashed => crashed', wanted' = wanted,
             disturbed => disturbed'
      PROVE  L!KeywordIsWanted'
  BY <1>0, <1>1 DEF L!KeywordIsWanted
<1>2. CASE L!Refresh
  BY <1>1, <1>2 DEF L!Refresh, L!search
<1>3. ASSUME NEW f \in fetches, L!RoomsArrive(f) PROVE L!KeywordIsWanted'
  <2>1. wanted' = wanted /\ crashed' = crashed
        /\ disturbed' = IF L!isObserved(f) /\ state.isSearch THEN closure.keyword # wanted
                                                          ELSE disturbed
    BY <1>3 DEF L!RoomsArrive
  <2>. QED
    BY <1>0, <1>3, <2>1, ArrivedState DEF L!KeywordIsWanted
<1>4. ASSUME NEW f \in fetches, L!Fails(f) PROVE L!KeywordIsWanted'
  BY <1>1, <1>4 DEF L!Fails, L!react
<1>5. ASSUME NEW rooms \in creating, L!RoomCreated(rooms) PROVE L!KeywordIsWanted'
  <2>1. state'.keyword = state.keyword
    BY <1>0, <1>5 DEF L!RoomCreated, L!List
  <2>. QED
    BY <1>1, <1>5, <2>1 DEF L!RoomCreated, L!search
<1>6. CASE L!CloseSearch \/ L!HandleNewRoomClick \/ L!CancelModal
  <2>1. state'.keyword = state.keyword
    BY <1>0, <1>6 DEF L!CloseSearch, L!HandleNewRoomClick, L!CancelModal, L!List
  <2>2. UNCHANGED <<crashed, wanted, disturbed>>
    BY <1>6 DEF L!CloseSearch, L!HandleNewRoomClick, L!CancelModal, L!search
  <2>. QED
    BY <1>1, <2>1, <2>2
<1>7. CASE L!OpenSearch
  BY <1>0, <1>7 DEF L!OpenSearch, L!KeywordIsWanted, L!List
<1>8. CASE L!DebouncedSearch
  BY <1>0, <1>8 DEF L!DebouncedSearch, L!KeywordIsWanted, L!List
<1>9. CASE L!Load
  BY <1>9 DEF L!Load, L!KeywordIsWanted, L!newList
<1>10. CASE UNCHANGED <<state, crashed, L!search>>
  BY <1>1, <1>10 DEF L!search
<1>11. \/ L!Refresh \/ L!CloseSearch \/ L!HandleNewRoomClick \/ L!CancelModal
       \/ L!OpenSearch \/ L!DebouncedSearch \/ L!Load
       \/ (\E f \in fetches : L!RoomsArrive(f) \/ L!Fails(f))
       \/ (\E rooms \in creating : L!RoomCreated(rooms))
       \/ UNCHANGED <<state, crashed, L!search>>
  BY DEF L!Next, L!Reconnect, L!CreateFails, L!Answer, L!JoinRoom, L!Created, L!Invited,
         L!HandleSearch, L!Scroll, L!CreateRoom, L!react
<1>. QED
  BY <1>2, <1>3, <1>4, <1>5, <1>6, <1>7, <1>8, <1>9, <1>10, <1>11

\* The query of the last render is in flight until its results are shown, or its failure
\* noticed.
LEMMA SearchStep ==
  ASSUME L!IInv, L!Next
  PROVE  L!SearchIsAnswered'
<1>0. L!TypeOK /\ L!AnswersAreOfKeyword /\ L!SearchIsAnswered /\ state \in L!List
  BY DEF L!IInv, L!TypeOK
<1>1. exists \subseteq exists' /\ matches' = matches
  BY DEF L!Next, L!Refresh, L!Reconnect, L!CreateFails, L!RoomCreated, L!Answer,
         L!RoomsArrive, L!Fails, L!JoinRoom, L!Created, L!Invited, L!HandleSearch, L!Scroll,
         L!OpenSearch, L!CloseSearch, L!DebouncedSearch, L!HandleNewRoomClick, L!CreateRoom,
         L!CancelModal, L!Load, L!database
<1>2. ASSUME NEW rs, NEW k, L!areOf(rs, k) PROVE L!areOf(rs, k)'
  BY <1>0, <1>1, <1>2 DEF L!areOf, L!found, L!AnswersAreOfKeyword
<1>3. ASSUME state'.results = state.results, state'.isSearch => state.isSearch,
             closure'.keyword = closure.keyword, closure'.isSearch => closure.isSearch,
             crashed => crashed', disturbed => disturbed',
             \A f \in fetches : f.keyword = closure.keyword
                               => \E g \in fetches' : g.keyword = f.keyword
      PROVE  L!SearchIsAnswered'
  BY <1>0, <1>2, <1>3 DEF L!SearchIsAnswered
<1>4. CASE L!Refresh
  <2>1. /\ closure' = state /\ state' = state /\ disturbed' = disturbed /\ ~crashed
        /\ fetches' = IF /\ state.isSearch
                         /\ state.keyword # closure.keyword \/ ~closure.isSearch
                      THEN L!query(state.keyword) ELSE fetches
    BY <1>4 DEF L!Refresh, L!search
  <2>2. CASE state.isSearch /\ (state.keyword # closure.keyword \/ ~closure.isSearch)
    BY <1>0, <2>1, <2>2, Parts, Query DEF L!TypeOK, L!SearchIsAnswered
  <2>3. CASE state.isSearch /\ state.keyword = closure.keyword /\ closure.isSearch
    <3>1. closure'.keyword = closure.keyword /\ fetches' = fetches
      BY <2>1, <2>3
    <3>. QED
      BY <1>0, <1>2, <2>1, <2>3, <3>1 DEF L!SearchIsAnswered
  <2>4. CASE ~state.isSearch
    BY <2>1, <2>4 DEF L!SearchIsAnswered
  <2>. QED
    BY <2>2, <2>3, <2>4
<1>5. ASSUME NEW f \in fetches, L!RoomsArrive(f) PROVE L!SearchIsAnswered'
  <2>0. f.answered /\ L!areOf(f.rooms, f.keyword)
    BY <1>0, <1>5 DEF L!RoomsArrive, L!AnswersAreOfKeyword
  <2>1. /\ fetches' = fetches \ {f} /\ closure' = closure /\ crashed' = crashed
        /\ disturbed' = IF L!isObserved(f) /\ state.isSearch THEN closure.keyword # wanted
                                                          ELSE disturbed
    BY <1>5 DEF L!RoomsArrive
  <2>2. CASE ~crashed /\ L!isObserved(f) /\ state.isSearch
    <3>1. state'.results = f.rooms /\ f.keyword = closure.keyword
      BY <1>0, <1>5, <2>2, ArrivedState DEF L!isObserved
    <3>2. L!areOf(f.rooms, closure.keyword)'
      BY <1>2, <2>0, <2>1, <3>1
    <3>. QED
      BY <2>1, <3>1, <3>2 DEF L!SearchIsAnswered
  <2>3. CASE ~crashed /\ ~(L!isObserved(f) /\ state.isSearch)
    <3>1. state'.results = state.results /\ state'.isSearch = state.isSearch
      BY <1>0, <1>5, <2>3, ArrivedState
    <3>2. CASE closure.isSearch /\ state.isSearch
      <4>1. f.keyword # closure.keyword
        BY <2>3, <3>2 DEF L!isObserved
      <4>. QED
        BY <1>3, <2>1, <2>3, <3>1, <4>1
    <3>3. CASE ~(closure.isSearch /\ state.isSearch)
      BY <2>1, <3>1, <3>3 DEF L!SearchIsAnswered
    <3>. QED
      BY <3>2, <3>3
  <2>4. CASE crashed
    BY <2>1, <2>4 DEF L!SearchIsAnswered
  <2>. QED
    BY <2>2, <2>3, <2>4
<1>6. ASSUME NEW f \in fetches, L!Fails(f) PROVE L!SearchIsAnswered'
  <2>1. /\ fetches' = fetches \ {f} /\ UNCHANGED <<state, closure, crashed>>
        /\ disturbed' = (disturbed \/ f.keyword \in {wanted, closure.keyword})
    BY <1>6 DEF L!Fails, L!react
  <2>2. CASE f.keyword = closure.keyword
    BY <2>1, <2>2 DEF L!SearchIsAnswered
  <2>3. CASE f.keyword # closure.keyword
    BY <1>3, <2>1, <2>3
  <2>. QED
    BY <2>2, <2>3
<1>7. ASSUME NEW rooms \in creating, L!RoomCreated(rooms) PROVE L!SearchIsAnswered'
  <2>1. state'.results = state.results /\ state'.isSearch = state.isSearch
    BY <1>0, <1>7 DEF L!RoomCreated, L!List
  <2>. QED
    BY <1>3, <1>7, <2>1 DEF L!RoomCreated, L!search
<1>8. CASE L!CloseSearch \/ L!HandleNewRoomClick \/ L!CancelModal \/ L!DebouncedSearch
  <2>1. state'.results = state.results /\ (state'.isSearch => state.isSearch)
    BY <1>0, <1>8 DEF L!CloseSearch, L!HandleNewRoomClick, L!CancelModal, L!DebouncedSearch,
                      L!List
  <2>2. UNCHANGED <<closure, crashed, disturbed, fetches>>
    BY <1>8 DEF L!CloseSearch, L!HandleNewRoomClick, L!CancelModal, L!DebouncedSearch,
                L!search
  <2>. QED
    BY <1>3, <2>1, <2>2
<1>9. CASE L!OpenSearch
  BY <1>9 DEF L!OpenSearch, L!SearchIsAnswered
<1>10. CASE L!Load
  BY <1>10 DEF L!Load, L!SearchIsAnswered, L!newList
<1>11. ASSUME NEW f \in fetches, L!Answer(f) PROVE L!SearchIsAnswered'
  <2> DEFINE new == [f EXCEPT !.answered = TRUE, !.rooms = L!found(f.keyword)]
  <2>1. new.keyword = f.keyword
    BY <1>0 DEF L!TypeOK, L!Fetch
  <2>2. fetches' = (fetches \ {f}) \cup {new} /\ UNCHANGED <<state, closure, crashed, disturbed>>
    BY <1>11 DEF L!Answer, L!react, L!search
  <2>. HIDE DEF new
  <2>. QED
    BY <1>3, <2>1, <2>2
<1>12. CASE L!Scroll
  <2>1. fetches \subseteq fetches'
    BY <1>0, <1>12, Parts, Query DEF L!Scroll, L!TypeOK
  <2>. QED
    BY <1>3, <1>12, <2>1 DEF L!Scroll, L!react, L!search
<1>13. CASE UNCHANGED <<state, closure, crashed, fetches, L!search>>
  BY <1>3, <1>13 DEF L!search
<1>14. \/ L!Refresh \/ L!CloseSearch \/ L!HandleNewRoomClick \/ L!CancelModal
       \/ L!OpenSearch \/ L!DebouncedSearch \/ L!Load \/ L!Scroll
       \/ (\E f \in fetches : L!Answer(f) \/ L!RoomsArrive(f) \/ L!Fails(f))
       \/ (\E rooms \in creating : L!RoomCreated(rooms))
       \/ UNCHANGED <<state, closure, crashed, fetches, L!search>>
  BY DEF L!Next, L!Reconnect, L!CreateFails, L!JoinRoom, L!Created, L!Invited,
         L!HandleSearch, L!CreateRoom, L!react
<1>. QED
  BY <1>4, <1>5, <1>6, <1>7, <1>8, <1>9, <1>10, <1>11, <1>12, <1>13, <1>14

-----------------------------------------------------------------------------
\* Types, rows and search stay in order.
THEOREM ListInvariance == L!Spec => []L!IInv
<1>1. L!Init => L!IInv
  BY ListInit
<1>2. L!IInv /\ [L!Next]_(L!listVars) => L!IInv'
  <2>1. ASSUME L!IInv, L!Next PROVE L!IInv'
    <3>1. L!TypeOK
      BY <2>1 DEF L!IInv
    <3>2. L!TypeOK'
      BY <2>1, <3>1, StateType, QueryType, OtherType DEF L!Next
    <3>. QED
      BY <2>1, <3>2, RowsStep, AnswersStep, KeywordStep, SearchStep DEF L!IInv
  <2>2. ASSUME L!IInv, UNCHANGED L!listVars PROVE L!IInv'
    <3> USE <2>2 DEF L!IInv, L!listVars, L!database, L!react, L!server, L!search
    <3>1. L!TypeOK'
      BY DEF L!TypeOK
    <3>2. L!RowsHaveAsked' /\ L!KeywordIsWanted'
      BY DEF L!RowsHaveAsked, L!rowsOf, L!KeywordIsWanted
    <3>3. L!AnswersAreOfKeyword' /\ L!SearchIsAnswered'
      BY DEF L!AnswersAreOfKeyword, L!SearchIsAnswered, L!areOf, L!found
    <3>. QED
      BY <3>1, <3>2, <3>3
  <2>. QED
    BY <2>1, <2>2
<1>. QED
  BY <1>1, <1>2, PTL DEF L!Spec

\* When nothing is under way, the rooms that have a row are joined, unless the server
\* refused or the connection was lost after the row asked.
THEOREM ListedRoomsAreJoined == L!Spec => []RowsAreJoined
<1>1. L!IInv => RowsAreJoined
  BY DEF L!IInv, L!RowsHaveAsked, L!RowsAreJoined, L!quiet, RowsAreJoined
<1>. QED
  BY ListInvariance, <1>1, PTL

\* When nothing is under way and nothing disturbed it, the search shows the rooms of the
\* keyword typed last.
THEOREM SearchShowsWanted == L!Spec => []SearchIsOfKeyword
<1>1. L!IInv => SearchIsOfKeyword
  BY DEF L!IInv, L!KeywordIsWanted, L!SearchIsAnswered, L!SearchIsOfKeyword, L!areOf,
         L!quiet, SearchIsOfKeyword
<1>. QED
  BY ListInvariance, <1>1, PTL

-----------------------------------------------------------------------------
(* The browser. *)

\* A behaviour of the three parts is one of each of them.
THEOREM PartsAreImplemented == MCSpec => Spec /\ R!Spec /\ L!Spec
<1>1. MCInit => Init /\ R!Init /\ L!Init
  BY DEF MCInit
<1>2. [MCNext]_mcVars => [Next]_sessionVars /\ [R!Next]_(R!vars) /\ [L!Next]_(L!listVars)
  <2> USE DEF mcVars, server, list, R!vars,
              L!listVars, L!database, L!react, L!server, L!search
  <2>1. CASE Next /\ UNCHANGED <<server, list>>
    BY <2>1
  <2>2. CASE R!Next /\ UNCHANGED <<sessionVars, list>>
    BY <2>2
  <2>3. CASE L!Next /\ UNCHANGED <<sessionVars, server>>
    BY <2>3
  <2>4. CASE UNCHANGED mcVars
    BY <2>4
  <2>. QED
    BY <2>1, <2>2, <2>3, <2>4 DEF MCNext
<1>. QED
  BY <1>1, <1>2, PTL DEF MCSpec, Spec, R!Spec, L!Spec

\* Whichever part takes its steps, what it keeps has its types.
THEOREM BrowserTypes == MCSpec => []MCTypeOK
<1> DEFINE Part == part \in {"session", "list", "server"}
<1>1. MCInit => Part
  BY DEF MCInit
<1>2. Part /\ [MCNext]_mcVars => Part'
  BY DEF MCNext, mcVars
<1>3. TypeOK /\ R!TypeOK /\ L!TypeOK /\ Part => MCTypeOK
  BY DEF MCTypeOK
<1>4. (IInv => TypeOK) /\ (R!IInv => R!TypeOK) /\ (L!IInv => L!TypeOK)
  BY DEF IInv, R!IInv, L!IInv
<1>. HIDE DEF Part
<1>. QED
  BY PartsAreImplemented, Invariance, RegistrationInvariance, ListInvariance,
     <1>1, <1>2, <1>3, <1>4, PTL DEF MCSpec
=============================================================================
