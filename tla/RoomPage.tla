------------------------------ MODULE RoomPage ------------------------------
(***************************************************************************)
(* The page of a room in one tab of the frontend: MessageContent with the  *)
(* useChat instance it reads lastMessage from, and SidebarMenu.            *)
(*                                                                         *)
(* React state is kept three times.  `state' is what the setters have been *)
(* given, `committed' what the last render saw and the handlers of the     *)
(* user's clicks close over, and `closure' what the passive effects saw    *)
(* last: they run some time after the render, and only they give the       *)
(* queries new keys and new onSuccess handlers.                            *)
(*                                                                         *)
(* Queries are those of react-query: a fetch in flight is shared by        *)
(* everybody who asks for the same key, goes on when the page is left, and *)
(* comes to the onSuccess of whoever observes the key when it ends.  The   *)
(* key of the messages names the room; those of the room's detail and of   *)
(* the sidebar's search do not.                                            *)
(*                                                                         *)
(* A message is the position it was stored at.  A 401 reloads the page and *)
(* is left out, and so is what only scrolls.                               *)
(***************************************************************************)
EXTENDS Naturals, Sequences, FiniteSets, SequencesExt

CONSTANTS Rooms, undefined,
          Limit,         \* messages a page of the query has (20 in the code)
          Past,          \* messages stored before the tab is opened
          MaxInputs      \* bound on clicks of the user and messages stored since

ASSUME BoundsAssumption ==
  /\ Limit \in Nat \ {0} /\ Past \in Nat /\ MaxInputs \in Nat
  /\ undefined \notin Rooms

VARIABLES room,       \* the page's roomId
          visit,      \* how many pages have been opened
          state, committed, closure,
          sidebar,    \* state of SidebarMenu
          fetches,    \* queries in flight
          timers,     \* the 300 ms timers of the message query's onSuccess
          changes,    \* updateRoomName and updateRoomAvatar requests in flight
          stored,     \* stored[m]: the room of message m
          events,     \* messages whose SEND_MESSAGE_EVENT has not come to the tab
          inputs,
          disturbed,  \* history: something came late, was lost or was overwritten
          crossed     \* history: a fetch for another room was in flight at the start

page == <<room, visit>>
react == <<state, committed, closure, sidebar>>
server == <<stored, events>>
history == <<disturbed, crossed>>
vars == <<page, react, fetches, timers, changes, server, inputs, history>>

Message == 1..(Past + MaxInputs)
none == 0    \* '' and null in place of a message

PageState ==
  [officialMessages : Seq(Message),
   lastRecord : Message \cup {none}, isJumpToMessages : BOOLEAN,  \* params
   searchMsgId : BOOLEAN,          \* whether it is set
   isOpen : BOOLEAN,
   lastMessage : Message \cup {none},
   roomCurrentSelected : Rooms \cup {undefined}]

newPage == [officialMessages |-> <<>>, lastRecord |-> none, isJumpToMessages |-> FALSE,
            searchMsgId |-> FALSE, isOpen |-> FALSE, lastMessage |-> none,
            roomCurrentSelected |-> undefined]

\* Whether a keyword was typed, and the room whose messages are listed for it.  One
\* keyword is enough: two are two queries.
Sidebar == [keyword : BOOLEAN, results : Rooms \cup {undefined}]
newSidebar == [keyword |-> FALSE, results |-> undefined]

Fetch == [query : {"messages", "detail", "search"}, room : Rooms,
          lastRecord : Message \cup {none}, data : Seq(Message) \cup {undefined}]

mutantKey(f) == <<f.query, IF f.query = "messages" THEN f.lastRecord ELSE none>>
queryKey(f) == IF f.query = "messages" THEN <<f.query, f.room, f.lastRecord>> ELSE <<f.query>>

query(q, r, last) == [query |-> q, room |-> r, lastRecord |-> last, data |-> undefined]
messagesQuery(r, s) == query("messages", r, s.lastRecord)
mutantOfShown(r) == query("detail", state.roomCurrentSelected, none)
detailQuery(r) == query("detail", r, none)

\* query.fetch: a fetch in flight for the key is shared.
withFetch(fs, f) == IF \E g \in fs : queryKey(g) = queryKey(f) THEN fs ELSE fs \cup {f}

\* The members of a finite set of numbers, from the least to the greatest.
inOrder(S) == [k \in 1..Cardinality(S) |-> CHOOSE m \in S : Cardinality({n \in S : n <= m}) = k]

\* lodash: the first of equal elements stays.
firsts(seq) == {i \in DOMAIN seq : \A j \in 1..(i - 1) : seq[j] # seq[i]}
uniqBy(seq) == LET kept == inOrder(firsts(seq)) IN [k \in DOMAIN kept |-> seq[kept[k]]]

\* Messages of r, and newest first.
messagesOf(r) == {m \in 1..Len(stored) : stored[m] = r}
newestFirst(r) == Reverse(inOrder(messagesOf(r)))

Init ==
  /\ room \in Rooms /\ visit = 1
  /\ state = newPage /\ committed = newPage /\ closure = newPage
  /\ sidebar = newSidebar
  /\ fetches = {messagesQuery(room, newPage), detailQuery(room)}
  /\ timers = {} /\ changes = {}
  /\ stored \in [1..Past -> Rooms] /\ events = {}
  /\ inputs = 0
  /\ disturbed = FALSE /\ crossed = FALSE

-----------------------------------------------------------------------------
\* React.  A render waits for the effects of the one before; one that closes the
\* drawer unmounts SidebarMenu.
Render ==
  /\ committed = closure /\ state # committed
  /\ committed' = state
  /\ sidebar' = IF state.isOpen THEN sidebar ELSE newSidebar
  /\ UNCHANGED <<page, state, closure, fetches, timers, changes, server, inputs, history>>

\* useQuery gets its new options and, with a new key, fetches (nothing is ever fresh);
\* the effect on lastMessage puts it in front.
Effects ==
  /\ committed # closure
  /\ closure' = committed
  /\ state' = IF /\ committed.lastMessage \notin {closure.lastMessage, none}
                 /\ stored[committed.lastMessage] = room
              THEN [state EXCEPT !.officialMessages = uniqBy(<<committed.lastMessage>> \o @)]
              ELSE state
  /\ fetches' = IF committed.lastRecord # closure.lastRecord
                THEN withFetch(fetches, messagesQuery(room, committed)) ELSE fetches
  /\ UNCHANGED <<page, committed, sidebar, timers, changes, server, inputs, history>>

-----------------------------------------------------------------------------
input == inputs < MaxInputs /\ inputs' = inputs + 1

\* The server and the network.
Store(r) ==
  /\ input
  /\ stored' = Append(stored, r)
  /\ events' = events \cup {Len(stored')}
  /\ UNCHANGED <<page, react, fetches, timers, changes, history>>

\* findAll.  The frontend sends lastRecord, which the server does not read, and no cursor.
findAll(r) == LET all == newestFirst(r) IN SubSeq(all, 1, IF Len(all) < Limit THEN Len(all) ELSE Limit)

Answer(f) ==
  /\ f \in fetches /\ f.query = "messages" /\ f.data = undefined
  /\ fetches' = (fetches \ {f}) \cup {[f EXCEPT !.data = findAll(f.room)]}
  /\ UNCHANGED <<page, react, timers, changes, server, inputs, history>>

\* Retries are off; without a response there is no onSuccess.
Fails(f) ==
  /\ f \in fetches
  /\ fetches' = fetches \ {f}
  /\ disturbed' = TRUE
  /\ UNCHANGED <<page, react, timers, changes, server, inputs, crossed>>

mutantDataFirst(s, data) ==
  IF s.isJumpToMessages THEN data ELSE uniqBy(data \o s.officialMessages)

resultData(s, data) ==
  IF s.isJumpToMessages THEN data ELSE uniqBy(s.officialMessages \o data)

\* What a jump takes away is newer than its data, or another answer was to be appended to it.
overtakes(f) ==
  \/ \E m \in Range(closure.officialMessages) : \A n \in Range(f.data) : n < m
  \/ \E g \in fetches \ {f} : g.query = "messages" /\ g.room = room /\ g.data # undefined

\* onSuccess of the message query sets what its closure makes of the data: messages the
\* closure has not seen are gone.
MessagesArrive(f) ==
  /\ f \in fetches /\ f.query = "messages" /\ f.data # undefined
  /\ IF queryKey(f) = queryKey(messagesQuery(room, closure))
     THEN /\ state' = [state EXCEPT !.officialMessages = resultData(closure, f.data)]
          /\ timers' = IF closure.searchMsgId THEN timers \cup {<<visit, closure.lastRecord>>}
                                              ELSE timers
          /\ disturbed' = (\/ disturbed
                           \/ state.officialMessages # closure.officialMessages
                           \/ closure.isJumpToMessages /\ overtakes(f))
     ELSE UNCHANGED <<state, timers, disturbed>>
  /\ fetches' = fetches \ {f}
  /\ UNCHANGED <<page, committed, closure, sidebar, changes, server, inputs, crossed>>

mutantBoth(fs) == withFetch(withFetch(fs, messagesQuery(room, closure)), detailQuery(room))

\* !isOpen && refetchRawMessages()
refetched(fs) == IF closure.isOpen THEN fs ELSE withFetch(fs, messagesQuery(room, closure))

DetailArrives(f) ==
  /\ f \in fetches /\ f.query = "detail"
  /\ state' = [state EXCEPT !.roomCurrentSelected = f.room]
  /\ fetches' = refetched(fetches \ {f})
  /\ UNCHANGED <<page, committed, closure, sidebar, timers, changes, server, inputs, history>>

SearchArrives(f) ==
  /\ f \in fetches /\ f.query = "search"
  /\ sidebar' = IF sidebar.keyword THEN [sidebar EXCEPT !.results = f.room] ELSE sidebar
  /\ fetches' = fetches \ {f}
  /\ UNCHANGED <<page, state, committed, closure, timers, changes, server, inputs, history>>

\* The search is over: params as they were when the data came, without the jump.
Timeout(t) ==
  /\ t \in timers
  /\ timers' = timers \ {t}
  /\ state' = IF t[1] = visit
              THEN [state EXCEPT !.searchMsgId = FALSE, !.lastRecord = t[2],
                                 !.isJumpToMessages = FALSE]
              ELSE state
  /\ UNCHANGED <<page, committed, closure, sidebar, fetches, changes, server, inputs, history>>

\* The response of a change of the room; a page that is gone is not set.
Changed(c) ==
  /\ c \in changes
  /\ changes' = changes \ {c}
  /\ state' = IF c[1] = visit THEN [state EXCEPT !.roomCurrentSelected = c[2]] ELSE state
  /\ UNCHANGED <<page, committed, closure, sidebar, fetches, timers, server, inputs, history>>

ChangeFails(c) ==
  /\ c \in changes
  /\ changes' = changes \ {c}
  /\ UNCHANGED <<page, react, fetches, timers, server, inputs, history>>

\* handleSendMessageEvent: one slot for the messages of all rooms.  An event that is lost,
\* because the socket was not connected or in no room, is one that never comes.
HandleSendMessageEvent(m) ==
  /\ m \in events
  /\ events' = events \ {m}
  /\ state' = [state EXCEPT !.lastMessage = m]
  /\ disturbed' = (\/ disturbed
                   \/ state.lastMessage # closure.lastMessage
                   \/ \E n \in 1..Len(stored) : /\ n # m /\ stored[n] = stored[m]
                                               /\ (n < m) = (n \in events))
  /\ UNCHANGED <<page, committed, closure, sidebar, fetches, timers, changes, stored, inputs, crossed>>

-----------------------------------------------------------------------------
\* The user.
\* The list is scrolled to its end; there is always more (`lastRecord' of an array).
OnGetMoreMsg ==
  LET shown == committed.officialMessages IN
  /\ input /\ shown # <<>>
  /\ state' = [state EXCEPT !.lastRecord = shown[IF Len(shown) > 1 THEN Len(shown) - 1 ELSE 1],
                            !.isJumpToMessages = committed.isJumpToMessages]
  /\ UNCHANGED <<page, committed, closure, sidebar, fetches, timers, changes, server, history>>

\* The drawer covers the button, so it is not there twice.
OpenRoomDetail ==
  /\ input /\ ~committed.isOpen
  /\ state' = [state EXCEPT !.isOpen = ~@]
  /\ fetches' = withFetch(fetches, detailQuery(room))
  /\ UNCHANGED <<page, committed, closure, sidebar, timers, changes, server, history>>

CloseRoomDetail ==
  /\ input /\ committed.isOpen
  /\ state' = [state EXCEPT !.isOpen = FALSE]
  /\ UNCHANGED <<page, committed, closure, sidebar, fetches, timers, changes, server, history>>

\* handleSearchMessages, and the render and effects of SidebarMenu after it.
HandleSearchMessages ==
  /\ input /\ committed.isOpen /\ committed.roomCurrentSelected # undefined
  /\ sidebar' = [sidebar EXCEPT !.keyword = TRUE]
  /\ fetches' = withFetch(fetches, query("search", committed.roomCurrentSelected, none))
  /\ UNCHANGED <<page, state, committed, closure, timers, changes, server, history>>

\* A message that is not on the page becomes lastRecord of a query whose data replaces
\* what is shown.
OnRedirectSearch(m) ==
  /\ input /\ committed.isOpen
  /\ stored[m] = sidebar.results
  /\ state' = IF Contains(committed.officialMessages, m)
              THEN [state EXCEPT !.searchMsgId = TRUE, !.isOpen = FALSE]
              ELSE [state EXCEPT !.searchMsgId = TRUE, !.isOpen = FALSE,
                                 !.lastRecord = m, !.isJumpToMessages = TRUE]
  /\ UNCHANGED <<page, committed, closure, sidebar, fetches, timers, changes, server, history>>

\* UpdateRoom.onSubmit and UploadAvatar.handleChangeFile: the room is the one shown.
ChangeRoom ==
  /\ input /\ committed.isOpen /\ committed.roomCurrentSelected # undefined
  /\ changes' = changes \cup {<<visit, committed.roomCurrentSelected>>}
  /\ UNCHANGED <<page, react, fetches, timers, server, history>>

mutantKeepDetail(r) == [newPage EXCEPT !.roomCurrentSelected = committed.roomCurrentSelected]
mounted(r) == newPage

\* readMessageUnread, onRoomChoose: another page is mounted in place of this one.  Its
\* effects run before anything else comes.
OpenPage(r) ==
  /\ input /\ r # room
  /\ room' = r /\ visit' = visit + 1
  /\ state' = mounted(r) /\ committed' = mounted(r) /\ closure' = mounted(r)
  /\ sidebar' = newSidebar
  /\ fetches' = withFetch(withFetch(fetches, messagesQuery(r, newPage)), detailQuery(r))
  /\ disturbed' = (\E f \in fetches : f.query = "messages" /\ f.room = r)
  /\ crossed' = (\E f \in fetches : f.query \in {"detail", "search"} /\ f.room # r)
  /\ UNCHANGED <<timers, changes, server>>

Next ==
  \/ Render \/ Effects
  \/ \E r \in Rooms : Store(r) \/ OpenPage(r)
  \/ \E f \in fetches : \/ Answer(f) \/ Fails(f)
                        \/ MessagesArrive(f) \/ DetailArrives(f) \/ SearchArrives(f)
  \/ \E t \in timers : Timeout(t)
  \/ \E c \in changes : Changed(c) \/ ChangeFails(c)
  \/ \E m \in events : HandleSendMessageEvent(m)
  \/ OnGetMoreMsg \/ OpenRoomDetail \/ CloseRoomDetail \/ HandleSearchMessages \/ ChangeRoom
  \/ \E m \in 1..Len(stored) : OnRedirectSearch(m)

Spec == Init /\ [][Next]_vars

\* React renders and runs effects, timers fire, and a request ends with an answer or a
\* failure.  Users and messages are not fair.
Fairness == /\ WF_vars(Render) /\ WF_vars(Effects)
            /\ WF_vars(\E f \in fetches : \/ Answer(f) \/ Fails(f) \/ MessagesArrive(f)
                                          \/ DetailArrives(f) \/ SearchArrives(f))
            /\ WF_vars(\E t \in timers : Timeout(t))
            /\ WF_vars(\E c \in changes : Changed(c) \/ ChangeFails(c))

FairSpec == Spec /\ Fairness

-----------------------------------------------------------------------------
TypeOK ==
  /\ room \in Rooms /\ visit \in 1..(MaxInputs + 1)
  /\ {state, committed, closure} \subseteq PageState
  /\ sidebar \in Sidebar
  /\ fetches \subseteq Fetch
  /\ timers \subseteq (1..(MaxInputs + 1)) \X (Message \cup {none})
  /\ changes \subseteq (1..(MaxInputs + 1)) \X Rooms
  /\ stored \in Seq(Rooms) /\ Len(stored) <= Past + MaxInputs
  /\ events \subseteq 1..Len(stored)
  /\ inputs \in 0..MaxInputs
  /\ {disturbed, crossed} \subseteq BOOLEAN

\* However pages, events and answers of queries mix, the list shows each message once
\* and only messages of the page's room.  (React needs the ids, its keys, to differ.)
ShownOnce ==
  \A s \in {state, committed} :
    /\ IsInjective(s.officialMessages)
    /\ \A m \in Range(s.officialMessages) : stored[m] = room

quiet == fetches = {} /\ timers = {} /\ changes = {} /\ state = committed /\ committed = closure

\* When nothing is under way any more, the page shows its room's detail and the room's
\* newest messages, newest first and without a gap: the answers of overlapping queries,
\* which are appended, and the events, which go in front, fit together.  Unless an
\* event is still to come, overtook another or met one that was not yet in the list, an
\* answer came to a closure that was behind, a jump took away newer messages or met
\* another answer (overtakes), or a request failed.
QuietPageIsNewest ==
  quiet /\ ~disturbed /\ ~crossed /\ (\A m \in events : stored[m] # room) =>
    /\ state.roomCurrentSelected = room
    /\ IsPrefix(state.officialMessages, newestFirst(room))
    /\ IsPrefix(findAll(room), state.officialMessages)

\* The detail and the search results shown, and the room that changes go to, are of
\* the page's room, unless a fetch under a key without room was in flight when the page
\* was opened.
DetailIsOfRoom ==
  crossed \/ /\ {state.roomCurrentSelected, sidebar.results} \subseteq {room, undefined}
             /\ \A c \in changes : c[1] = visit => c[2] = room

\* Users stop, and then the page comes to rest: the queries, which fetch each other
\* again, and the effects and timers, which set what they depend on, do not go on for ever.
PageSettles == <>[]quiet

-----------------------------------------------------------------------------
(* What makes the invariants above inductive, for RoomPageProofs. *)

\* Pages and messages are counted as inputs.
InputsAreCounted == visit <= inputs + 1 /\ Len(stored) <= Past + inputs

onlyOnce(seq, r) ==
  IsInjective(seq) /\ \A n \in DOMAIN seq : seq[n] \in 1..Len(stored) /\ stored[seq[n]] = r

\* What the page was given or answered, and what handlers and effects still see of it.
pageFits(s) == onlyOnce(s.officialMessages, room) /\ s.lastMessage \in 0..Len(stored)
dataFits(f) == f.query = "messages" /\ f.data # undefined => onlyOnce(f.data, f.room)

ListsFit ==
  /\ pageFits(state) /\ pageFits(committed) /\ pageFits(closure)
  /\ \A f \in fetches : dataFits(f)

\* Whatever may be shown or fetched next is of the page's room.
OwnRoomOnly ==
  /\ \A c \in changes : c[1] <= visit
  /\ crossed \/ /\ \A s \in {state, committed, closure} : s.roomCurrentSelected \in {room, undefined}
                /\ sidebar.results \in {room, undefined}
                /\ \A c \in changes : c[1] = visit => c[2] = room
                /\ \A f \in fetches : f.query \in {"detail", "search"} => f.room = room

\* Messages of the room whose event is still to come or to be put in front, and the others.
arriving == IF state.lastMessage # closure.lastMessage THEN {state.lastMessage} ELSE {}
pending == messagesOf(room) \cap (events \cup arriving)
told == messagesOf(room) \ pending

\* What seq has of S is the newest of it, newest first and without a gap.
newestOf(seq, S) ==
  \A i \in DOMAIN seq : seq[i] \in S =>
    /\ \A j \in DOMAIN seq : i < j /\ seq[j] \in S => seq[i] > seq[j]
    /\ \A m \in S : m > seq[i] => m \in Range(seq)

\* What findAll gave for the room when k messages were stored.
answeredAt(data, k) ==
  /\ Range(data) \subseteq 1..k /\ newestOf(data, messagesOf(room) \cap 1..k)
  /\ Len(data) = Limit \/ messagesOf(room) \cap 1..k \subseteq Range(data)

\* One event is put in front at a time, the first of those still to come.
EventsAreInOrder ==
  /\ {state.lastMessage, committed.lastMessage, closure.lastMessage} \cap events = {}
  /\ ~disturbed =>
       /\ committed.lastMessage \in {closure.lastMessage, state.lastMessage}
       /\ \A m \in arriving \cap messagesOf(room) :
            \A n \in messagesOf(room) \ {m} : n > m <=> n \in events

pendingAreNewest == \A m \in pending, n \in messagesOf(room) : n > m => n \in pending

\* The list has the newest of the messages that were told.
toldAreNewest == newestOf(state.officialMessages, told)

\* An answer under way joins on to the list.
joinsOn(f) ==
  f.query = "messages" /\ f.room = room /\ f.data # undefined =>
    \E k \in 0..Len(stored) : /\ answeredAt(f.data, k)
                              /\ \A m \in told : m > k => m \in Range(state.officialMessages)

\* There are enough messages, or the query of the page is under way.
isFull ==
  LET known == Range(state.officialMessages) \cup pending IN
  \/ messagesOf(room) \subseteq known
  \/ Cardinality(known) >= Limit
  \/ \E f \in fetches : queryKey(f) = queryKey(messagesQuery(room, closure))

ListIsNewest ==
  ~disturbed /\ pendingAreNewest => toldAreNewest /\ isFull /\ \A f \in fetches : joinsOn(f)

DetailIsAskedFor ==
  ~disturbed /\ ~crossed =>
    state.roomCurrentSelected = room \/ \E f \in fetches : f.query = "detail"

IInv == /\ TypeOK /\ InputsAreCounted /\ ListsFit /\ OwnRoomOnly
        /\ EventsAreInOrder /\ ListIsNewest /\ DetailIsAskedFor
=============================================================================
