--------------------------- MODULE SocketRegistry ---------------------------
(***************************************************************************)
(* The in-memory registry one server process keeps about its sockets:      *)
(* class SocketStateService, backend/src/core/socket-state.  The five Maps *)
(* of the class are the fields of one record, and each public method that  *)
(* has a caller is an operator from a registry to a registry, so that      *)
(* SocketState (one process) and ChatServer (several) share them.          *)
(*                                                                         *)
(* The array a room maps to is kept as the number of times each pair       *)
(* <<socketId, userId>> occurs in it.  Its order only decides the order of *)
(* emits to different sockets, which none of them can see, and username is *)
(* '' in every element.                                                    *)
(***************************************************************************)
EXTENDS Naturals

CONSTANTS Sockets,    \* socket ids; socket.io never reuses one
          Users,      \* user ids
          Rooms,      \* room ids
          undefined   \* what Map.get returns for a key the map does not have

Entry == Sockets \X Users              \* one element of a room's array
RoomList == [Entry -> Nat]             \* such an array
emptyList == [e \in Entry |-> 0]

ASSUME UndefinedAssumption == undefined \notin Rooms /\ undefined \notin RoomList

Registry ==
  [socketsByRoomId : [Rooms -> RoomList \cup {undefined}],
   socketsByUserId : [Users -> [Sockets -> Nat]],  \* always read with `|| []`
   socketState     : SUBSET Sockets,               \* its keys; the value is the socket
   socketRoomState : [Sockets -> Rooms \cup {undefined}],
   roomStatesById  : SUBSET Rooms]                 \* its keys; see VideoCall for a state

newRegistry ==
  [socketsByRoomId |-> [r \in Rooms |-> undefined],
   socketsByUserId |-> [u \in Users |-> [s \in Sockets |-> 0]],
   socketState     |-> {},
   socketRoomState |-> [s \in Sockets |-> undefined],
   roomStatesById  |-> {}]

-----------------------------------------------------------------------------
\* this.socketsByRoomId.get(roomId) || []
roomSockets(reg, r) ==
  IF reg.socketsByRoomId[r] = undefined THEN emptyList ELSE reg.socketsByRoomId[r]

\* The socket occurs in the room's array, as that user.
listedAs(reg, s, u, r) == roomSockets(reg, r)[<<s, u>>] > 0
listed(reg, s, r) == \E u \in Users : listedAs(reg, s, u, r)

\* array.length > 1
longerThanOne(list) ==
  \E e \in Entry : \/ list[e] > 1
                   \/ \E f \in Entry \ {e} : list[e] > 0 /\ list[f] > 0

-----------------------------------------------------------------------------
(* The methods.  Each group starts with the slips the properties are to catch. *)

mutantNeverExists(reg, u, s) == FALSE

\* addSocket finds the id in its user's array.
existingSocket(reg, u, s) == reg.socketsByUserId[u][s] > 0

\* Connect socket: appended to its user's array unless it is there.
addSocket(reg, u, s) ==
  IF existingSocket(reg, u, s) THEN reg
  ELSE [reg EXCEPT !.socketsByUserId[u][s] = @ + 1]

mutantIgnoreRecord(reg, s, u, r) == FALSE
mutantSameSocket(reg, s, u, r) == listed(reg, s, r)

\* addUserJoinRoom finds the socket in the room as the same user.
existingUsernameRecord(reg, s, u, r) == listedAs(reg, s, u, r)

mutantOnlyNew(reg, s, u, r) == [emptyList EXCEPT ![<<s, u>>] = @ + 1]

\* [...roomUsernameSockets, { username: '', socketId: socket.id, userId }]
appended(reg, s, u, r) == [roomSockets(reg, r) EXCEPT ![<<s, u>>] = @ + 1]

mutantWrongKey(reg, r) == [reg EXCEPT !.roomStatesById = @ \cup {roomSockets(reg, r)}]

\* Called when getRoomState finds none; a state once made is never replaced.
setRoomState(reg, r) == [reg EXCEPT !.roomStatesById = @ \cup {r}]

\* A second join of the same socket as the same user returns false early:
\* socketRoomState keeps naming the room joined before it.
addUserJoinRoom(reg, r, u, s) ==
  IF existingUsernameRecord(reg, s, u, r) THEN reg
  ELSE setRoomState([reg EXCEPT !.socketsByRoomId[r] = appended(reg, s, u, r),
                                !.socketState        = @ \cup {s},
                                !.socketRoomState[s] = r], r)

mutantDropRoom(reg, s, r) == undefined
mutantNotStored(reg, s, r) ==
  IF longerThanOne(roomSockets(reg, r)) THEN roomSockets(reg, r) ELSE undefined
mutantKeepLast(reg, s, r) ==
  IF longerThanOne(roomSockets(reg, r))
  THEN [e \in Entry |-> IF e[1] = s THEN 0 ELSE roomSockets(reg, r)[e]]
  ELSE roomSockets(reg, r)

\* What removeSocket leaves of a room's array.  An array of one element is dropped
\* with its key, whoever that element belongs to.
withoutSocket(reg, s, r) ==
  IF longerThanOne(roomSockets(reg, r))
  THEN [e \in Entry |-> IF e[1] = s THEN 0 ELSE roomSockets(reg, r)[e]]
  ELSE undefined

\* Only the room socketRoomState names is cleaned.
removeSocket(reg, s) ==
  [reg EXCEPT
     !.socketsByRoomId = [r \in Rooms |-> IF r = reg.socketRoomState[s]
                                          THEN withoutSocket(reg, s, r)
                                          ELSE @[r]],
     !.socketState        = @ \ {s},
     !.socketRoomState[s] = undefined]

\* getAllSocketForRoom hands out what the map holds, undefined included.
getAllSocketForRoom(reg, r) == reg.socketsByRoomId[r]
=============================================================================
