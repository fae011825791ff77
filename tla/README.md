# TLA+ models of chat-videocall-app

TLA+ modules, TLC configurations and TLAPS proofs for the NestJS backend and the
Next.js frontend: the socket server and its relay, rooms and accounts, and what a
browser keeps and shows of them.

## The system

| part | state | operations | interacts with |
|---|---|---|---|
| Socket registry, `SocketStateService` | five Maps: sockets of a user, sockets of a room, open sockets, last room of a socket, call state of a room | `addSocket`, `addUserJoinRoom`, `removeSocket`, `getAllSocketForRoom`, `getRoomState`, `setRoomState` | called by the adapter, the gateways and the relay |
| Socket adapter and guard | `socket.auth` | connect (after the token verifies), disconnect | registry |
| Redis relay, `RedisPropagatorInterceptor`, `RedisPropagatorService`, `RedisService` | one subscription per channel | publish what a handler returns; consume and emit to the room's sockets | Redis, registry, socket.io |
| Join-room gateway | none | `joinRoom` | participants, registry, relay |
| Chat gateway, `MessageService` | messages collection | `sendMessage`; typing, removal, reading, action; `findAll` | participants, relay |
| Video-call gateway, Jitsi token | room state of the registry | `startCall`, `joinCall`, `leaveCall`, `rejectCall` | registry, relay |
| Rooms and participants, `RoomService`, `ParticipantService` | rooms and participants collections, cache | create, invite, update, avatar, delete | event emitter, cache |
| Users and login, `RegisterController`, `AuthController`, their guards | users collection | register, login, logout, profile | database |
| Browser session, login page, `AuthProvider`, axios client, `SocketService` | two cookies; per tab `currentUser` and a socket | log in and out, a refused request, reload | all HTTP requests |
| Room page, `MessageContent`, `SidebarMenu` | message list, query parameters, detail of the room, search results, timers | open, scroll, search, jump, change the room, receive | HTTP, `useChat` |
| Call windows, `useChat`, `MessageContent` | windows, `joinedMeeting`, `roomTalkingInJitsi`, a timer | click, accept, refuse, hang up, time out, START_CALL_EVENT | socket |
| List of rooms, `NavigationRoom`, `RoomItem`, `RoomSearch` | rows, search, debounce; a flag per row | fetch, join, search, create a room | HTTP, socket |
| Views, `MessageItem`, `SidebarMenu/*`, `callings/*`, avatars | none of their own | render | what the page keeps |
| Modals, `CreateRoom`, `UpdateRoom` | fields, and state behind them | open, type, choose, cancel, submit | HTTP, list and page |
| Composer, `ChatRoom`, `UploadWrap`, `useTyping` | draft, files, countdown | type, send, attach | socket |
| Files, logger, middleware, layout | - | - | not modelled, see below |

What is hard about it: several processes with their own registry relay to each
other over a channel that forgets; handlers wait for the database while their
socket, their process or the room changes; requests overlap, and inserts are not
waited for. In the browser, React state is set by events and answers in any order,
handlers and queries close over the state of some earlier render, queries share what
they fetch under keys that do not name all it depends on, and cookies are shared by tabs
that each keep a user and a socket of their own. `PROJECT.json` lists the hazards line by
line.

## Modules

| module | models | composed of |
|---|---|---|
| `SocketRegistry` | the methods of `SocketStateService` as operators from a registry to a registry | - |
| `SocketState` | one process: connect, join, disconnect | `SocketRegistry` |
| `RoomMembership` | abstract: which open socket is in which room | implemented by `SocketState` |
| `ChatServer` | several processes, Redis, `joinRoom`, `sendMessage`, the notices, restarts | `SocketRegistry`, one registry per process |
| `RoomBroadcast` | abstract: who joined is handed each event once per join, in one order | implemented by `ChatServer` |
| `Rooms` | the requests of `RoomController` on database and cache | - |
| `Registration` | `POST /register` | - |
| `Session` | cookies, tabs and HTTP requests of one browser, and the guards that answer | - |
| `RoomPage` | the page of a room: messages, detail, search | - |
| `VideoCall` | call windows of the tabs and the call handlers of a server | - |
| `RoomList` | the list of rooms, its rows' joins, the search | - |
| `RoomViews` | what the views of a room's page read of the answers | - |
| `RoomForms` | the two modals | - |
| `Composer` | draft, files, typing | - |
| `MCSocketState`, `MCChatServer`, `MCRooms`, `MCRoomPage` | symmetry, scope, or a first room in its place, for TLC | one each |
| `MCTab` | `VideoCall`, `RoomViews`, `RoomForms`, `Composer` | those |
| `MCBrowser` | `Session`, `RoomList`, `Registration` | those |
| `SocketRegistryProofs` | lemmas on what the registry's methods do to its arrays | `SocketRegistry` |
| `SocketStateProofs`, `ChatServerProofs` | theorems about one process and about all of them | the module, `SocketRegistryProofs` |
| `RoomsProofs`, `SessionProofs`, `RoomPageProofs` | theorems about one module each | that module |
| `BrowserProofs` | theorems about `Registration`, `RoomList` and the composition | `MCBrowser`, `SessionProofs` |
| `TabProofs` | theorems about `VideoCall`, `RoomViews`, `RoomForms`, `Composer` and the composition | `MCTab` |

`MCTab` and `MCBrowser` put modules side by side that share no state: a variable `part`
says which of them a behaviour takes the steps of. It saves runs and adds no claim:
`PartsAreImplemented`, proved for both, says that each of their behaviours is one of every
part, so that what is proved of a part holds there too.

### SocketRegistry, SocketState, RoomMembership

The fields of the record `reg` are the Maps of the class. A room's array is kept
as the multiplicity of each `<<socketId, userId>>`; the order of the array decides
only the order of emits to different sockets. Missing keys are `undefined`, and
kept apart from an empty array where the code does (`getAllSocketForRoom`).
`Connect` and `Disconnect` run the adapter's listener three times, as Nest binds
it for each of the three gateways on the same server. `joined` is a history variable.

A socket may join as any user: the handler takes `userId` from the payload, and
a client that logs out keeps its socket.

### ChatServer

`Consume` is `consumeSendEvent`; an undefined array makes the process `failing`, and
then `Exit` ends it (rxjs reports the error of a subscription without an error
handler from a timer, and nothing catches it). `Start` is a new process with an empty
registry. `log` is everything published, in Redis' order; `cursor[i]` is how far
process `i` is; `Resubscribe` and `Start` skip what was published meanwhile, and
`missed` remembers it. `inbox[s]` holds what was emitted to a socket.
`sendMessage` is four actions, at its awaits: `SendMessage` (room looked up and
checked, insert issued), `Created` (the database inserts), `MessageSent` (result
published and echoed), `SendFails`. `MessageSent` needs the sender's socket to be open:
Nest ends the handlers of a socket that disconnects. `joinRoom` has one await, before
anything changes, and reads participants, which only grow, so it is one action.

The other packets are `Notices`: `Notice` starts the lookup of each method that is
subscribed to the packet, two for `startTyping`, and `Noticed` or `NoticeFails` ends one.
They change nothing in the database: `indexMessageRead` and `deletedAt` are not in the
schema of a message. Packets overlap, also those of one socket: Nest does not wait for the
handlers of one before it calls those of the next. `Packets` names those that are in
handlers, so that its size bounds how many are at a time.

`RoomBroadcast` has the same sockets, events and receipts and no registry: `joined` alone
says who is in a room, `Deliver` hands an event to every member of a process as often as it
joined, `Skip` is every way of missing what was published. Waiting for the database, the
participants and the end and start of processes do not show, except that sockets close.

### Rooms

A request walks through the awaits of its method (`stepsOf`). A step is a database
operation, or what the method does when it continues. Two checks of the code stop
nothing and are left out of the guards: the query for a room with the same participants
filters on a virtual, and the check for users in the room compares ids with something that
is no id. `Crash` empties the cache, which is in the process. `disturbed` is a history
variable. `userIds` is a set: an id that occurs twice in one
request is not modelled. The expiry of the cache is left out.

### Registration

The controller asks for the name, asks for the address, hashes and inserts; requests
interleave between. The unique indexes of the schema are taken to be built. `Fails` is a
database that does not answer, with the insert done or not. Passwords are abstract.

### Session

A token is its user. `tab[t]` keeps `me`, `AuthProvider`'s state, and the user of the
socket, which `SocketService` opens when the code of `/home` is loaded and never again.
`HandleLogout` is `AccountDropdown`: it deletes the cookies, sends the logout, does not
wait, and opens the login page without loading it. Every logout is refused, since
`LocalAuthGuard` wants a username and a password; the refusal loads the page, and only that
makes the tab forget its user and socket. The rooms request stands for all requests of the
pages under `/home`. `mixed` is a history variable: somebody else logged in while a tab had
not been loaded since the logout, or a logout came during a login. `MCBrowser` stops
there, since the properties claim nothing after it.

### RoomPage

React state is kept three times: `state`, what the setters were given; `committed`, what
the last render saw and the user's handlers close over; `closure`, what the effects saw, who
give queries their keys and callbacks. `Render` and `Effects` carry one to the next.
`fetches` are react-query's, shared by key and alive after the page is left; the answer is
computed by `findAll` in one step and comes in another. Messages are numbered in the order
they are stored. History variables say which guarantees are off: `crossed`, a fetch under a
key that does not name the room was in flight when the page was opened, so that the next
page may show the room before; `disturbed`, an event is overtaken or lost in the one slot
of `lastMessage`, an answer comes to a closure that is behind, a jump takes away messages
newer than its own or meets another answer that will be appended (`overtakes`), or a
request fails. Refetching on focus or reconnect, scrolling and highlighting
are left out, and so is a 401, which loads the page.

### VideoCall

`ui[c]` is the state of `useChat` and `MessageContent` in a tab as it is set, and
`committed[c]` as it was rendered last: that is what the user sees and clicks, and what the
effect `monitoring call` reads. `HandleStartCallEvent` and `Timeout` only set state.
`Render` commits it, and if a call had arrived (`arrived`) its effect becomes due
(`monitoring`); `Effect` runs it and opens a window by whose call was rendered, whatever is
set by now. Events, timers and clicks may come between any two of them. React renders the
updates of a click at once and then runs the effect that is due (`clicked`); what events
have set waits for its own render, so a click changes `ui` and `committed` alike. A click
with nothing to render leaves the effect due. The windows are
modal, so the phone is clickable only when none is open (`windowOpen`). A timer keeps the
`timerId` that its closure saw.

`late` is a history variable: a call ended while its effect was due, or a call was accepted
that had ended since the render. Such a tab rings or waits for nothing, which the properties
except until its user ends a call with no effect due; that nothing else brings a tab into
that state is what they say.

`StartCall` and `Refuse` are the handlers of
`VideoCallGateway`: the room state has no token in any reachable state, since the
methods that store one have no caller, so `joinCall`, `leaveCall` and `rejectCall` are
refused whatever the call. A tab shows one room throughout and its socket stays connected.
The user who starts a call is the one logged in on the tab. Requests are a set: a
request equal to one still under way is the same element. For a refused request that
makes no difference, and for `startCall` it merges two clicks of one tab.

### RoomList

`rooms` says how often the array of `NavigationRoom` has each room (refetched rooms are
appended again). A row is a mounted `RoomItem` with its own `useChat`, asks to join once,
and takes the room for joined. `getRooms` returns everybody's rooms, so joins of rooms the
user is not in are refused; `exempt` remembers those, and rooms lost when the socket came
back with a new id, until their row is mounted again. A room that was created comes without
`data`, which puts `undefined` in front of the rows and makes the next render throw
(`RoomItemThrows`). Opening the search fetches under the key of the list. Render and effects
are one step here. The `actionTriggered` of the search's scrolling is left out.

### RoomViews

The room has three shapes: `detail`, `document` (the answer to an update, without
participants) and, after an upload, one without avatar. An operator named for a view is the
set of what the view reads from without a guard; the page is `crashed` when `undefined` is
among them, since there is no error boundary. Every step ends in a render. Messages are
their types, which are `Text` and `Link` only: `buildMessageRequest` gives no other, and no
message has a `messageRepy`, so `ReplyMessage` is never shown. A call window may come and
go at any time, which is more than `VideoCall` lets it.

### RoomForms

Each modal keeps its fields in antd's store, which is what the user sees, and in React
state, which is what is sent. `nameLeft` and `membersLeft` are history variables: since the
name was typed the form was closed, or since the members were chosen it succeeded. A request
of a form that was unmounted is not `isOwn`, and its answer resets nothing. A name made of
members is `unknown`, since users come without a `name`.

### Composer

`useTyping` with its effect, which starts the interval anew after each change; its countdown
goes on below zero, where the model keeps it at `-Below`. The upload route does not
exist in the running server (`FileModule` is not imported), so uploads only fail. `fileList`
is what `UploadWrap` shows and is set back to `ChatRoom`'s files by each render.

## Runs

| run | question | bounds |
|---|---|---|
| `socket_state` | is an open socket listed where it joined, once; is nobody else removed; does the registry implement `RoomMembership` | 3 sockets (two that share a room and one to watch), 2 users (a socket twice in a room), 2 rooms (one left behind) |
| `stale_entries` (violated) | does a socket that disconnected leave every array | 2 sockets, 2 users, 2 rooms |
| `chat_relay` | who receives what, how often and in which order; do the processes implement `RoomBroadcast` | 2 processes, 2 sockets, 2 users, 2 rooms, 1 message, `startTyping` in 2 packets at a time, 3 events, within `Scope` |
| `chat_delivery` | does a message reach the members | 2 processes, 2 sockets, 2 events (a join and a message) |
| `no_room_array` (violated) | does every process have an array for the room of an event | 2 processes, 1 socket |
| `rooms` | lost updates, inserted participants, cache | 1 room, 3 requests, 3 users (which make a group), 2 names, the first avatar and a new one |
| `room_invites` (violated) | is a user who is in the room refused | 1 room, 2 requests, 3 users |
| `room_page` | is each message shown once and in its room; is a quiet page up to date; does it become quiet | 2 rooms, pages of 1 message, 2 messages before, 3 clicks or new messages |
| `tab` | do windows, call and timer agree, does waiting end; do views throw; do modals send what they show; does typing end | calls: 2 tabs (of one user or two, on one room or two), 2 clicks that start a call; views: 2 answers under way; modals: 1 name, 1 member, one modal per behaviour; composer: 1 file |
| `accepting` (violated) | does accepting a call send `joinCall` | 2 tabs, 2 clicks |
| `one_call` (violated) | is a second call refused in a room with a meeting | 2 tabs, 2 clicks |
| `browser` | do logins and logouts leave a trace; are rows joined, is the search right; are accounts unique | session: 2 tabs, 2 users, 5 clicks; list: 2 rooms (one created), 2 keywords that each find one, 4 clicks; 3 registrations for 2 names and 2 addresses |

`MaxEvents`, `MaxCalls`, `MaxInputs` (called `MaxClicks` for the list) and `Below` are the
bounds in the modules, `MaxAnswers` and `Scope` those in `MC` modules; the rest are finite
sets. They are enough for the cases the properties are about: a third member, a second
room, a second join, an event published while another is not consumed, a call during a
call, an answer that crosses another page, a tab left open beside a logout. `Scope`
explores three parts of the states of `ChatServer`: several processes that relay the
messages of one user in one room, of which one misses events; one process without failures
that tells users and rooms apart; one process and the packets of one socket, which
overlap. In `tab`, requests that are only ever refused (`joinCall`, `rejectCall`) are
refused before anything else happens: `Refuse` changes nothing but `requests`, of which no
other action reads these, so that only states are left out in which such a request still
waits. `IInv` of `VideoCall` was also checked with 3 clicks and one room, by itself.
`Limit` is 1, so that a second page exists after two messages. The list was also checked
with 5 clicks, by itself.

Runs with a liveness property use no symmetry. Deadlock is not checked: a
system whose sockets are all closed, or whose bound is used up, stops.

## Fairness

`ChatServer!Fairness`: a running event loop consumes what it was sent; the database
answers an insert and the handler continues; a process whose subscription failed reaches the
timer that ends it. Clients, disconnects, restarts and Redis failures are not fair.
`VideoCall!Fairness`: a timeout that is set fires, and React renders what is set and runs
the effects that are due. `RoomPage!Fairness`: React renders and
runs effects, timers fire, requests end with an answer or a failure. `Session!Fairness`:
every request ends, answered or not. `Composer!Fairness`: React runs the effect and the
browser the interval. Users and messages are never fair. Where `MCTab` sets
`Composer` beside others, its fairness holds for the behaviours that take its steps;
`Session` and `VideoCall` have nothing under way where others take the steps.

## What the violated runs show

- `stale_entries`: `removeSocket` cleans only the room joined last. The client joins
  every room of its user on one socket, so dead entries stay in all other rooms.
- `no_room_array`: an event of a room that has no array on a process ends that process.
  One room and two processes are enough.
- `accepting`: `handleStartCallEvent` sets `joinedMeeting` when the tab rings, and
  `joinCall` then returns early.
- `one_call`: `startCall` tests a token that is never stored.
- `room_invites`: the check for users who are in the room compares ids with something
  that is no id, and no index refuses the second document.

## Seen while modelling

What the modules have because the code does it, without a run that claims the contrary.

Server:
- the check for a room with the same participants (`room.service.ts:182`) filters on a
  virtual and never matches; `updateRoom` (`:270`) adds users to rooms
  `inviteUserIntoRoom` refuses; `delete` (`:323`) sets a field that the schema does not
  have, so `Delete` changes nothing; a message's removal likewise, and it is announced
  under the name of the upload event;
- `findAll` of the messages does not read the `lastRecord` its callers send, so that every
  page is the first, and `getRooms` reads neither that nor `limit`;
- `uploadFile` is always refused; the files' routes do not exist.

Session and list:
- after a logout that is not answered, or a login before the answer, a tab speaks through
  the socket of the user before; a late 401 deletes a token that was issued since;
- the list grows by all rooms with every refetch, and the page breaks after each created room.

Calls:
- a timeout, or a button pressed, between the render of a call and its effect ends the call
  and the effect opens its window after that. A window that rings so has nothing to refuse:
  `onCancelIncomingCall` skips its closing branch (`MessageContent/index.tsx:242`) and the
  window stays. Accepting it sets `isOpenMeeting` without a meeting to show, and the phone,
  which is clickable then, sets a timer in it;
- a call that arrives while the phone is clicked leaves the window that rings and the one
  that waits open together, if its effect has run and is not rendered yet.

Typing:
- the method commented "stop typing" is subscribed to `startTyping`
  (`chat.gateway.ts:108-112`), so that one packet is broadcast as a beginning and an end, in
  the order its two lookups return; `stopTyping`, which the client emits
  (`useChat.ts:96-104`), has no handler. `ChatServer` has all these orders; there is no
  property of them, since nothing makes any of them right.

Room page, views and modals:
- a link makes the page unusable for everybody in the room: `MessageText` reads
  `content[0].url` of a string;
- with the list of members open, every update of the room, "Add members" too, breaks the
  page, since its answer has no participants; an upload leaves the avatar away until the
  detail comes again;
- after a cancel or a success `UpdateRoom` shows a name and sends none, which is refused,
  or with members renames the room to "Unknown"; it sends the members of the last update again;
- `isMe` of a message is never true (`userId` comes populated) and nobody is told to be
  typing (`ChatRoom`'s instance of `useChat` has no room); a key whose release is lost keeps
  `isTyping` set;
- antd's `Upload`, used without `customRequest`, calls `onChange` for every state of
  the upload, so that a file is sent several times.

## Proofs

Every invariant and action property of the passing runs, and both refinements, is a theorem
for all values of the constants; `PROJECT.json` lists the theorems. Each rests on an
inductive invariant `IInv` at the end of the module, which TLC was given first. It is
proved part by part, with the lemmas about the data before the steps that use them.

| module | assumed of the constants | what `IInv` adds to the properties |
|---|---|---|
| `SocketState` | `undefined` is neither a room nor an array | `RoomStateIsListed`, `ListedWereJoined`, `NewSocketsJoinedNothing`, `OpenJoinersHaveRoom` |
| `ChatServer` | the same; `Users` is finite; `MaxEvents` is a number; messages are not named as handlers | `ConnectedAreHome`, `RegistriesFit`, `ReceiptsArePast`, `MissedArePast`, `SendsEndOnce` |
| `Rooms` | `Requests` is finite; `null` is no name, avatar, room or request | `ArgumentsFit`, `HeldRoomsExist`, `RoomsAreMadeOnce`, `InsertedOnce`, `AloneIsCurrent` |
| `Registration` | - | `PendingStoredNothing` |
| `Session` | `nobody` is no user; `MaxInputs` is a number | `LoginsAreOfPerson`, `LoggedOutIsClean` |
| `RoomList` | the first rooms are rooms; `none` is no keyword; `MaxInputs` is a number | `RowsHaveAsked`, `AnswersAreOfKeyword`, `KeywordIsWanted`, `SearchIsAnswered` |
| `RoomPage` | `Limit` is at least 1; `Past`, `MaxInputs` are numbers; `undefined` is no room | `InputsAreCounted`, `ListsFit`, `OwnRoomOnly`, `EventsAreInOrder`, `ListIsNewest`, `DetailIsAskedFor` |
| `VideoCall` | `null` is no call; `MaxCalls` is a number | `CallsArrive`, `WindowsHaveCalls`, `TimersHaveWindows` |
| `RoomViews` | `undefined` is neither the value nor a shape of the room | `RoomIsThere` |
| `RoomForms` | `noName` and `unknown` are no names, nor each other | `FieldsAreState` |
| `Composer` | `Below` is at least 1 | - (types only) |

Why the properties do not hold by induction alone:

- `SocketState`. That an open socket is removed from nobody else's array needs that the
  room `socketRoomState` names lists the socket, and that a disconnected socket leaves
  nothing needs who joined what. The lemmas on the registry's methods are shared.
- `ChatServer`. `RegistriesFit` is what `SocketState` shows of one process, kept while
  others end and start: the array of a room lists an open socket of the process exactly as
  the users it joined as. `copies`, a count of array elements, is therefore a number of
  users (`CopiesAreUsers`), and with `ReceiptsArePast` (nobody has an event of the channel
  that its process is not past) order and number of copies follow. `ConsumeReachesMembers`
  needs `MissedArePast`: a process that subscribes afresh misses the event it goes past.
  That a message is published once needs the state of its handler.
  `Refinement` maps each step to a step of `RoomBroadcast` or to none: `Consume` is
  `Deliver` by the equality of copies and joins, and `Start` and `Resubscribe` are `Skip`.
- `Rooms`. A request continues with what it read. `HeldRoomsExist` says that it read a
  room; `InsertedOnce` counts participants that are stored and inserts not yet done
  together, against the requests that have issued theirs; `AloneIsCurrent` says when
  document, cache and database agree, which makes a save lose no update and the cache
  follow. `NoLostUpdate` is an action property from the same invariant.
- `Session`. Cookies, tabs and requests are of the one person who logged in last, and
  after a logout there is nothing of anybody: only so does the next login start clean.
- `RoomList`. The keyword in the setters is the one typed last, the results on the screen
  belong to the keyword of the last render or the query for it is under way, and every
  answer has the rooms of its own keyword.
- `RoomPage`. `OwnRoomOnly` adds what may be shown next to what is shown: changes under way
  and fetches. `QuietPageIsNewest` is the deepest one. Its invariant compares the list not
  with the messages that are stored but with those the page has been `told` of, since an
  event may be on its way; every answer under way was right for some number of messages and
  `joinsOn` the list, without a gap; and the list `isFull` or its query is under way. The
  lemmas before it are on the list functions: what `uniqBy` keeps of a list with another
  one behind (`Behind`) or a message in front (`NewestInFront`), what `findAll` returns
  (`FindAll`), and that a list without gaps is a prefix (`NewestIsPrefix`).
- `VideoCall`. A timer can be cleared because it runs alone and only behind a window that
  waits or rings, as set and as rendered, since a click sees the one and a timeout changes
  the other. `CallsArrive` says which call an effect that is due will ask about and
  `WindowsHaveCalls` what a click on a window meets: a meeting that is set was rendered, and
  one that is rendered and no longer set is over or overtaken by another call. `IInv` is a
  conjunction over the tabs (`InvariantOfTabs`), so that a step is a lemma about one record.
- `RoomViews`, `RoomForms`. What is shown behind a guard is there as long as the guard's
  condition lasts; and the store of the fields and React's state agree until one is left.

The proofs changed two models. The first attempt at `ListIsNewest` failed for a jump that
replaces the list while an older answer for the same room is under way: that answer is
appended behind the new list and leaves a gap, as TLC then confirmed with one room and
eight inputs, more than the run explores. `disturbed` therefore takes note of it
(`overtakes`), and the strengthened invariant was checked with one room and eight inputs for
pages of one message and with six for pages of two. In `RoomList`, two alternatives of `RoomsArrive`
had guards that overlap in states that are not reachable, which the proof would not accept.

Only model-checked: the liveness properties (`MembersGetMessages`, `PageSettles`,
`WaitingEnds`, `TypingEnds`, `LogoutForgets`), since fairness, and `ENABLED` in it, are out of
the prover's reach.

## Plan

1. Stronger lemmas where an invariant says less than the code does: the final list of
   rooms after a reconnect.
2. An abstract specification of the room page, a window on the stored messages, which
   `RoomPage` would implement between two disturbances.

## Not modelled

Files (`FileModule` is not imported: its routes, listeners and jobs do not exist), the
logger, configuration, initializers (their calls are commented out) and middleware (bound to
a placeholder route), `docker-jitsi-meet` (third party) and the frame that shows it, layout,
icons, and services of the frontend that send one request. The typing list of `useChat` is
never told anything, and its handlers for leaving, rejecting and joining hear nothing, since
the server refuses what would set them off. `ReplyMessage`, and the reply a composer would
name, have nothing that sets them.
Methods without a caller: `updateRoomState`, `updateRoomUserJoin`,
`updateRoomUserLeave`, `resetRoomUserLeave`, `getAllSocketForRoomExcludingUsername`,
`emitToAll`, `emitToAuthenticated`, `RoomService.getById`, `closeSocket`, `logOutSuccess`.
