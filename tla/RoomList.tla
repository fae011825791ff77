------------------------------ MODULE RoomList ------------------------------
(***************************************************************************)
(* The list of rooms beside every page under /home, in one tab:            *)
(* NavigationRoom, the RoomItem of every row with its own useChat instance, *)
(* RoomSearch, which takes the place of the rows while it is open, and the *)
(* modal CreateRoom.                                                       *)
(*                                                                         *)
(* Through its row, and only so, a tab joins a room: the server broadcasts *)
(* to the rooms a socket has joined.  A row asks once, when it is mounted, *)
(* and takes the room for joined whatever the server makes of it.          *)
(*                                                                         *)
(* NavigationRoom and RoomSearch ask for the rooms under the same key until *)
(* a keyword is typed, and share what comes; see RoomPage on queries.      *)
(* `state' is what the setters have been given, `closure' what the last    *)
(* render and its effects saw.  The tab has a user, a token and a socket.  *)
(***************************************************************************)
EXTENDS Naturals, FiniteSets

CONSTANTS Rooms, Keywords,
          FirstRooms,    \* those that exist from the start
          none,          \* no keyword
          MaxInputs      \* bound on what users do and on reconnects

RoomListAssumption ==
  FirstRooms \subseteq Rooms /\ none \notin Keywords /\ MaxInputs \in Nat

VARIABLES exists,        \* rooms in the database,
          participants,  \*   those the tab's user is in,
          matches,       \*   and which names a keyword is found in
          state, closure,
          crashed,       \* a render threw
          typed,         \* the keyword that waits for the 500 ms of debounce
          fetches,       \* queries in flight
          creating,      \* createRoom requests in flight: the rooms listed before
          asked,         \* joinRoom events on their way
          joined,        \* rooms the tab's socket has joined on the server
          inputs,
          exempt,        \* history: rooms refused, or lost with a connection, since
                         \*   a row asked for them
          wanted,        \* history: the keyword typed last,
          disturbed      \*   whose answer failed or was set back

database == <<exists, participants, matches>>
react == <<state, closure, crashed, typed>>
server == <<asked, joined, exempt>>
search == <<wanted, disturbed>>
listVars == <<database, react, fetches, creating, server, inputs, search>>

\* `rooms' and `results' are the arrays of NavigationRoom and RoomSearch: how often
\* they have a room.  `undefinedFirst' is an undefined in front of the rooms.
List == [rooms : [Rooms -> Nat], undefinedFirst : BOOLEAN,
         isSearch : BOOLEAN, isOpenCreateRoom : BOOLEAN,
         keyword : Keywords \cup {none}, results : SUBSET Rooms]
newList == [rooms |-> [r \in Rooms |-> 0], undefinedFirst |-> FALSE,
            isSearch |-> FALSE, isOpenCreateRoom |-> FALSE,
            keyword |-> none, results |-> {}]

Fetch == [keyword : Keywords \cup {none}, answered : BOOLEAN, rooms : SUBSET Rooms]

\* useQuery: a fetch in flight for the key is shared.
query(k) == IF \E f \in fetches : f.keyword = k THEN fetches
            ELSE fetches \cup {[keyword |-> k, answered |-> FALSE, rooms |-> {}]}

\* getRooms.  All rooms, whoever is in them; limit and lastRecord are not read.
found(k) == {r \in exists : k = none \/ <<k, r>> \in matches}

\* RoomItems mounted for a room.
rowsOf(s, r) == IF s.isSearch THEN 0 ELSE s.rooms[r]

Init ==
  /\ exists = FirstRooms /\ participants \in SUBSET FirstRooms
  /\ matches \in SUBSET (Keywords \X Rooms)
  /\ state = newList /\ closure = newList /\ crashed = FALSE /\ typed = none
  /\ fetches = {[keyword |-> none, answered |-> FALSE, rooms |-> {}]}
  /\ creating = {}
  /\ asked = {} /\ joined = {} /\ exempt = {}
  /\ inputs = 0 /\ wanted = none /\ disturbed = FALSE

input == inputs < MaxInputs /\ inputs' = inputs + 1

-----------------------------------------------------------------------------
\* A render and its effects.
mutantOneFlag(rs) == IF asked \cup joined = {} THEN rs ELSE {}
\* joinRoom of the useChat instances of new rows: each has a roomConnectedSocket.
joinRoom(rs) == rs

\* A row's render reads from its room, and from there on with `?.'.
RoomItemThrows == state.undefinedFirst /\ ~state.isSearch

Refresh ==
  /\ ~crashed /\ state # closure
  /\ closure' = state
  /\ IF RoomItemThrows
     THEN crashed' = TRUE /\ UNCHANGED server
     ELSE LET emits == joinRoom({r \in Rooms : rowsOf(state, r) > rowsOf(closure, r)})
          IN /\ asked' = asked \cup emits
             /\ exempt' = exempt \ emits
             /\ UNCHANGED <<crashed, joined>>
  /\ fetches' = IF state.isSearch /\ (state.keyword # closure.keyword \/ ~closure.isSearch)
                THEN query(state.keyword) ELSE fetches
  /\ UNCHANGED <<database, state, typed, creating, inputs, search>>

-----------------------------------------------------------------------------
\* The server.
Answer(f) ==
  /\ f \in fetches /\ ~f.answered
  /\ fetches' = (fetches \ {f}) \cup {[f EXCEPT !.answered = TRUE, !.rooms = found(f.keyword)]}
  /\ UNCHANGED <<database, react, creating, server, inputs, search>>

\* JoinRoomGateway.joinRoom; who is no participant, or whose lookup fails, is refused.
JoinRoom(r) ==
  /\ r \in asked
  /\ asked' = asked \ {r}
  /\ \/ r \in participants /\ joined' = joined \cup {r} /\ UNCHANGED exempt
     \/ exempt' = exempt \cup {r} /\ UNCHANGED joined
  /\ UNCHANGED <<database, react, fetches, creating, inputs, search>>

\* The connection drops: the socket comes back with a new id, and what was not sent yet
\* is sent then.
Reconnect ==
  /\ input /\ asked \cup joined # {}
  /\ joined' = {}
  /\ asked' \in SUBSET asked
  /\ exempt' = exempt \cup joined \cup (asked \ asked')
  /\ UNCHANGED <<database, react, fetches, creating, search>>

\* Others create a room and invite the user.
Created(r) ==
  /\ input /\ r \notin exists
  /\ exists' = exists \cup {r}
  /\ UNCHANGED <<participants, matches, react, fetches, creating, server, search>>

Invited(r) ==
  /\ input /\ r \in exists \ participants
  /\ participants' = participants \cup {r}
  /\ UNCHANGED <<exists, matches, react, fetches, creating, server, search>>

-----------------------------------------------------------------------------
\* Answers come to the tab.
appended(rs) == [r \in Rooms |-> closure.rooms[r] + IF r \in rs THEN 1 ELSE 0]

mutantLateToo(f) == closure.isSearch
\* Whether RoomSearch observes the key.
isObserved(f) == closure.isSearch /\ f.keyword = closure.keyword

\* onSuccess of both, with the rooms and params of their closures.
RoomsArrive(f) ==
  /\ f \in fetches /\ f.answered
  /\ fetches' = fetches \ {f}
  /\ LET listed == IF f.keyword # none THEN state
                   ELSE [state EXCEPT !.rooms = appended(f.rooms),
                                      !.undefinedFirst = closure.undefinedFirst]
     IN /\ state' = IF crashed THEN state
                     ELSE IF isObserved(f) /\ state.isSearch
                     THEN [listed EXCEPT !.results = f.rooms, !.keyword = closure.keyword]
                     ELSE listed
        /\ disturbed' = IF isObserved(f) /\ state.isSearch THEN closure.keyword # wanted
                                                          ELSE disturbed
  /\ UNCHANGED <<database, closure, crashed, typed, creating, server, inputs, wanted>>

Fails(f) ==
  /\ f \in fetches
  /\ fetches' = fetches \ {f}
  /\ disturbed' = (disturbed \/ f.keyword \in {wanted, closure.keyword})
  /\ UNCHANGED <<database, react, creating, server, inputs, wanted>>

\* handleOkNewRoomModal, as it was when the request was sent: the response is the room,
\* and its `data' undefined.  (That the room exists is a Created like those of others.)
RoomCreated(rooms) ==
  /\ rooms \in creating /\ creating' = {}
  /\ state' = IF crashed THEN state
              ELSE [state EXCEPT !.rooms = rooms, !.undefinedFirst = TRUE,
                                 !.isOpenCreateRoom = FALSE]
  /\ UNCHANGED <<database, closure, crashed, typed, fetches, server, inputs, search>>

CreateFails ==
  /\ creating # {} /\ creating' = {}
  /\ UNCHANGED <<database, react, fetches, server, inputs, search>>

-----------------------------------------------------------------------------
\* The user.
shown == ~crashed /\ input

\* The end of the rows, or of the results, comes into view; there is always more.
Scroll ==
  /\ shown
  /\ fetches' = query(IF closure.isSearch THEN closure.keyword ELSE none)
  /\ UNCHANGED <<database, react, creating, server, search>>

OpenSearch ==
  /\ shown /\ ~closure.isSearch /\ ~closure.isOpenCreateRoom
  /\ state' = [state EXCEPT !.isSearch = TRUE, !.keyword = none, !.results = {}]
  /\ wanted' = none /\ disturbed' = FALSE
  /\ UNCHANGED <<database, closure, crashed, typed, fetches, creating, server>>

\* The arrow back, or a room that is chosen.
CloseSearch ==
  /\ shown /\ closure.isSearch /\ ~closure.isOpenCreateRoom
  /\ state' = [state EXCEPT !.isSearch = FALSE]
  /\ typed' = none
  /\ UNCHANGED <<database, closure, crashed, fetches, creating, server, search>>

\* onHandleSearch.
HandleSearch(k) ==
  /\ shown /\ closure.isSearch /\ state.isSearch /\ ~closure.isOpenCreateRoom
  /\ typed' = k
  /\ UNCHANGED <<database, state, closure, crashed, fetches, creating, server, search>>

DebouncedSearch ==
  /\ typed # none /\ typed' = none
  /\ state' = IF crashed THEN state ELSE [state EXCEPT !.keyword = typed]
  /\ wanted' = typed
  /\ UNCHANGED <<database, closure, crashed, fetches, creating, server, inputs, disturbed>>

\* handleNewRoomClick closes the search; the modal covers the list.
HandleNewRoomClick ==
  /\ shown /\ ~closure.isOpenCreateRoom
  /\ state' = [state EXCEPT !.isOpenCreateRoom = TRUE, !.isSearch = FALSE]
  /\ typed' = none
  /\ UNCHANGED <<database, closure, crashed, fetches, creating, server, search>>

\* The modal's buttons.
CreateRoom ==
  /\ shown /\ closure.isOpenCreateRoom /\ creating = {}
  /\ creating' = {closure.rooms}
  /\ UNCHANGED <<database, react, fetches, server, search>>

CancelModal ==
  /\ shown /\ closure.isOpenCreateRoom
  /\ state' = [state EXCEPT !.isOpenCreateRoom = FALSE]
  /\ UNCHANGED <<database, closure, crashed, typed, fetches, creating, server, search>>

\* The page is loaded again, with a new socket.
Load ==
  /\ input
  /\ state' = newList /\ closure' = newList /\ crashed' = FALSE /\ typed' = none
  /\ fetches' = {[keyword |-> none, answered |-> FALSE, rooms |-> {}]}
  /\ creating' = {}
  /\ asked' = {} /\ joined' = {} /\ exempt' = {}
  /\ wanted' = none /\ disturbed' = FALSE
  /\ UNCHANGED database

Next ==
  \/ Refresh \/ Reconnect \/ CreateFails
  \/ \E rooms \in creating : RoomCreated(rooms)
  \/ \E f \in fetches : Answer(f) \/ RoomsArrive(f) \/ Fails(f)
  \/ \E r \in Rooms : JoinRoom(r) \/ Created(r) \/ Invited(r)
  \/ \E k \in Keywords : HandleSearch(k)
  \/ Scroll \/ OpenSearch \/ CloseSearch \/ DebouncedSearch
  \/ HandleNewRoomClick \/ CreateRoom \/ CancelModal \/ Load

Spec == Init /\ [][Next]_listVars

-----------------------------------------------------------------------------
TypeOK ==
  /\ exists \subseteq Rooms /\ participants \subseteq exists
  /\ matches \subseteq Keywords \X Rooms
  /\ {state, closure} \subseteq List /\ crashed \in BOOLEAN
  /\ typed \in Keywords \cup {none}
  /\ fetches \subseteq Fetch /\ creating \subseteq [Rooms -> Nat]
  /\ {asked, joined, exempt} \subseteq SUBSET Rooms
  /\ inputs \in 0..MaxInputs
  /\ wanted \in Keywords \cup {none} /\ disturbed \in BOOLEAN

quiet == fetches = {} /\ asked = {} /\ typed = none /\ state = closure /\ ~crashed

\* When nothing is under way, the tab's socket has joined every room that has a row, so
\* that its messages come: rows that come and go with the search, twice or for new rooms,
\* leave none out.  Unless the server refused the join, or the socket came back with a
\* new id, after the row asked: rows do not ask again until they are mounted again.
RowsAreJoined ==
  quiet => \A r \in Rooms : rowsOf(state, r) > 0 => r \in joined \cup exempt

\* When nothing is under way, the search shows the rooms that match the keyword typed
\* last, of those from the start all: answers for older keywords, and those for the list
\* under the same key, do not stay.  Unless that keyword's request failed, or an answer
\* that came just before the keyword was taken over has set it back.
SearchIsOfKeyword ==
  quiet /\ state.isSearch /\ ~disturbed =>
    /\ state.results \subseteq found(wanted)
    /\ FirstRooms \cap found(wanted) \subseteq state.results

-----------------------------------------------------------------------------
(* What makes the invariants above inductive, for BrowserProofs. *)

\* The rows of the last render have asked for their rooms, whatever became of it.
RowsHaveAsked ==
  ~crashed => \A r \in Rooms : rowsOf(closure, r) > 0 => r \in asked \cup joined \cup exempt

\* Rooms of the right names: none else, and of those from the start all.
areOf(rs, k) == rs \subseteq found(k) /\ FirstRooms \cap found(k) \subseteq rs

AnswersAreOfKeyword ==
  FirstRooms \subseteq exists /\ \A f \in fetches : f.answered => areOf(f.rooms, f.keyword)

\* The setters have been given the keyword typed last,
KeywordIsWanted == ~crashed /\ ~disturbed => state.keyword = wanted

\* and what the last render searched for is shown or asked for.
SearchIsAnswered ==
  ~crashed /\ ~disturbed /\ closure.isSearch /\ state.isSearch =>
    \/ \E f \in fetches : f.keyword = closure.keyword
    \/ areOf(state.results, closure.keyword)

IInv == /\ TypeOK
        /\ RowsHaveAsked
        /\ AnswersAreOfKeyword
        /\ KeywordIsWanted
        /\ SearchIsAnswered
=============================================================================
