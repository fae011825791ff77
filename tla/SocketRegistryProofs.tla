------------------------ MODULE SocketRegistryProofs ------------------------
(***************************************************************************)
(* What the operators of SocketRegistry return, for any sets of sockets,   *)
(* users and rooms: for SocketStateProofs and ChatServerProofs.            *)
(***************************************************************************)
EXTENDS SocketRegistry, TLAPS

LEMMA RoomSocketsType ==
  ASSUME NEW g \in Registry, NEW r \in Rooms
  PROVE  roomSockets(g, r) \in RoomList
BY DEF Registry, roomSockets, RoomList, emptyList

LEMMA NewRegistry ==
  /\ newRegistry \in Registry
  /\ \A r \in Rooms : roomSockets(newRegistry, r) = emptyList
BY DEF newRegistry, Registry, roomSockets

\* addSocket touches socketsByUserId only, and never counts beyond one.
LEMMA AddSocket ==
  ASSUME NEW g \in Registry, NEW u \in Users, NEW s \in Sockets
  PROVE  LET h == addSocket(g, u, s) IN
         /\ h \in Registry
         /\ h.socketsByRoomId = g.socketsByRoomId
         /\ h.socketState = g.socketState
         /\ h.socketRoomState = g.socketRoomState
         /\ h.roomStatesById = g.roomStatesById
         /\ \A v \in Users, t \in Sockets :
              g.socketsByUserId[v][t] <= 1 => h.socketsByUserId[v][t] <= 1
<1>1. CASE g.socketsByUserId[u][s] > 0
  BY <1>1 DEF addSocket, existingSocket
<1>2. CASE ~(g.socketsByUserId[u][s] > 0)
  <2>1. addSocket(g, u, s) = [g EXCEPT !.socketsByUserId[u][s] = @ + 1]
    BY <1>2 DEF addSocket, existingSocket
  <2>2. g.socketsByUserId[u][s] = 0
    BY <1>2 DEF Registry
  <2>3. g.socketsByUserId \in [Users -> [Sockets -> Nat]]
    BY DEF Registry
  <2> DEFINE byUser == [g.socketsByUserId EXCEPT ![u][s] = @ + 1]
  <2>4. byUser \in [Users -> [Sockets -> Nat]]
    BY <2>3
  <2>5. ASSUME NEW v \in Users, NEW t \in Sockets, g.socketsByUserId[v][t] <= 1
        PROVE  byUser[v][t] <= 1
    BY <2>2, <2>3, <2>5
  <2>6. addSocket(g, u, s) = [g EXCEPT !.socketsByUserId = byUser]
    BY <2>1 DEF Registry
  <2>. HIDE DEF byUser
  <2>. QED
    BY <2>4, <2>5, <2>6 DEF Registry
<1>. QED
  BY <1>1, <1>2

\* A join the guard lets through counts the new pair once and changes no other
\* pair; the guard makes a repeated join the identity.
LEMMA AddUserJoinRoom ==
  ASSUME NEW g \in Registry, NEW r \in Rooms, NEW u \in Users, NEW s \in Sockets
  PROVE  LET h == addUserJoinRoom(g, r, u, s) IN
         /\ h \in Registry
         /\ h.socketsByUserId = g.socketsByUserId
         /\ \A q \in Rooms, v \in Users, t \in Sockets :
              roomSockets(h, q)[<<t, v>>] =
                IF q = r /\ v = u /\ t = s /\ ~listedAs(g, s, u, r)
                THEN 1 ELSE roomSockets(g, q)[<<t, v>>]
         /\ \A q \in Rooms : h.socketsByRoomId[q] # undefined
                             => g.socketsByRoomId[q] # undefined \/ q \in h.roomStatesById
         /\ g.roomStatesById \subseteq h.roomStatesById
         /\ listedAs(g, s, u, r) => h = g
         /\ ~listedAs(g, s, u, r) =>
              /\ h.socketState = g.socketState \cup {s}
              /\ h.socketRoomState = [g.socketRoomState EXCEPT ![s] = r]
<1> DEFINE h == addUserJoinRoom(g, r, u, s)
           l == [roomSockets(g, r) EXCEPT ![<<s, u>>] = @ + 1]
<1>1. CASE listedAs(g, s, u, r)
  BY <1>1 DEF addUserJoinRoom, existingUsernameRecord
<1>2. CASE ~listedAs(g, s, u, r)
  <2>1. roomSockets(g, r) \in RoomList /\ <<s, u>> \in Entry
    BY RoomSocketsType DEF Entry
  <2>2. roomSockets(g, r)[<<s, u>>] = 0
    BY <1>2, <2>1 DEF listedAs, RoomList
  <2>3. l \in RoomList /\ l[<<s, u>>] = 1
    BY <2>1, <2>2 DEF RoomList
  <2>4. /\ h.socketsByRoomId = [g.socketsByRoomId EXCEPT ![r] = l]
        /\ h.socketsByUserId = g.socketsByUserId
        /\ h.socketState = g.socketState \cup {s}
        /\ h.socketRoomState = [g.socketRoomState EXCEPT ![s] = r]
        /\ h.roomStatesById = g.roomStatesById \cup {r}
        /\ h \in Registry
    BY <1>2, <2>3
    DEF addUserJoinRoom, existingUsernameRecord, appended, setRoomState, Registry
  <2>5. ASSUME NEW q \in Rooms, q # r
        PROVE  roomSockets(h, q) = roomSockets(g, q)
    BY <2>4, <2>5 DEF roomSockets, Registry
  <2>6. roomSockets(h, r) = l
    <3>1. h.socketsByRoomId[r] = l
      BY <2>4 DEF Registry
    <3>2. l # undefined
      BY <2>3, UndefinedAssumption
    <3>. QED
      BY <3>1, <3>2 DEF roomSockets
  <2>7. ASSUME NEW q \in Rooms, NEW v \in Users, NEW t \in Sockets
        PROVE  roomSockets(h, q)[<<t, v>>] =
                 IF q = r /\ v = u /\ t = s THEN 1 ELSE roomSockets(g, q)[<<t, v>>]
    <3>1. CASE q = r
      BY <3>1, <2>1, <2>3, <2>6 DEF RoomList, Entry
    <3>2. CASE q # r
      BY <3>2, <2>5
    <3>. QED
      BY <3>1, <3>2
  <2>. QED
    BY <1>2, <2>4, <2>7 DEF Registry
<1>. QED
  BY <1>1, <1>2

\* Provided the room socketRoomState names lists the socket, removal takes away
\* that socket's pairs in that room, all of them and no others.
LEMMA RemoveSocket ==
  ASSUME NEW g \in Registry, NEW s \in Sockets,
         \A r \in Rooms, e \in Entry : roomSockets(g, r)[e] <= 1,
         \A r \in Rooms : g.socketRoomState[s] = r => listed(g, s, r)
  PROVE  LET h == removeSocket(g, s) IN
         /\ h \in Registry
         /\ h.socketsByUserId = g.socketsByUserId
         /\ h.roomStatesById = g.roomStatesById
         /\ h.socketState = g.socketState \ {s}
         /\ h.socketRoomState = [g.socketRoomState EXCEPT ![s] = undefined]
         /\ \A q \in Rooms, v \in Users, t \in Sockets :
              roomSockets(h, q)[<<t, v>>] =
                IF t = s /\ q = g.socketRoomState[s]
                THEN 0 ELSE roomSockets(g, q)[<<t, v>>]
         /\ \A q \in Rooms : h.socketsByRoomId[q] # undefined
                             => g.socketsByRoomId[q] # undefined
<1> DEFINE h == removeSocket(g, s)
           rest(r) == [e \in Entry |-> IF e[1] = s THEN 0 ELSE roomSockets(g, r)[e]]
<1>1. \A r \in Rooms : roomSockets(g, r) \in RoomList
  BY RoomSocketsType
<1>2. \A r \in Rooms : rest(r) \in RoomList
  BY <1>1 DEF RoomList
<1>3. \A r \in Rooms : withoutSocket(g, s, r) \in {rest(r), undefined}
  BY DEF withoutSocket
<1>4. /\ h.socketsByRoomId = [r \in Rooms |-> IF r = g.socketRoomState[s]
                                              THEN withoutSocket(g, s, r)
                                              ELSE g.socketsByRoomId[r]]
      /\ h.socketsByUserId = g.socketsByUserId
      /\ h.socketState = g.socketState \ {s}
      /\ h.socketRoomState = [g.socketRoomState EXCEPT ![s] = undefined]
      /\ h.roomStatesById = g.roomStatesById
      /\ h \in Registry
  <2> DEFINE byRoom == [r \in Rooms |-> IF r = g.socketRoomState[s]
                                        THEN withoutSocket(g, s, r)
                                        ELSE g.socketsByRoomId[r]]
             ofSocket == [g.socketRoomState EXCEPT ![s] = undefined]
  <2>1. byRoom \in [Rooms -> RoomList \cup {undefined}]
    BY <1>2, <1>3 DEF Registry
  <2>2. ofSocket \in [Sockets -> Rooms \cup {undefined}]
    BY DEF Registry
  <2>3. h = [g EXCEPT !.socketsByRoomId = byRoom,
                      !.socketState = g.socketState \ {s},
                      !.socketRoomState = ofSocket]
    BY DEF removeSocket, Registry
  <2>4. /\ h.socketsByRoomId = byRoom
        /\ h.socketsByUserId = g.socketsByUserId
        /\ h.socketState = g.socketState \ {s}
        /\ h.socketRoomState = ofSocket
        /\ h.roomStatesById = g.roomStatesById
    <3>. HIDE DEF byRoom, ofSocket, h
    <3>. QED
      BY <2>3 DEF Registry
  <2>5. h \in Registry
    <3>. HIDE DEF byRoom, ofSocket, h
    <3>. QED
      BY <2>1, <2>2, <2>3 DEF Registry
  <2>. QED
    BY <2>4, <2>5
<1>5. ASSUME NEW q \in Rooms, NEW v \in Users, NEW t \in Sockets
      PROVE  roomSockets(h, q)[<<t, v>>] =
               IF t = s /\ q = g.socketRoomState[s]
               THEN 0 ELSE roomSockets(g, q)[<<t, v>>]
  <2>0. <<t, v>> \in Entry /\ <<t, v>>[1] = t
    BY DEF Entry
  <2>1. CASE q # g.socketRoomState[s]
    BY <2>1, <1>4 DEF roomSockets
  <2>2. CASE q = g.socketRoomState[s] /\ longerThanOne(roomSockets(g, q))
    <3>1. h.socketsByRoomId[q] = rest(q) /\ rest(q) # undefined
      BY <2>2, <1>2, <1>4, UndefinedAssumption DEF withoutSocket
    <3>. QED
      BY <2>0, <2>2, <3>1 DEF roomSockets
  <2>3. CASE q = g.socketRoomState[s] /\ ~longerThanOne(roomSockets(g, q))
    <3>1. PICK u \in Users : roomSockets(g, q)[<<s, u>>] > 0
      BY <2>3 DEF listed, listedAs
    <3>2. \A e \in Entry \ {<<s, u>>} : roomSockets(g, q)[e] = 0
      <4>1. ASSUME NEW e \in Entry \ {<<s, u>>}
            PROVE  ~(roomSockets(g, q)[e] > 0)
        BY <2>3, <3>1 DEF longerThanOne, Entry
      <4>. QED
        BY <4>1, <1>1 DEF RoomList
    <3>3. h.socketsByRoomId[q] = undefined
      BY <2>3, <1>4 DEF withoutSocket
    <3>4. roomSockets(h, q)[<<t, v>>] = 0
      BY <2>0, <3>3 DEF roomSockets, emptyList
    <3>. QED
      BY <2>0, <2>3, <3>2, <3>4
  <2>. QED
    BY <2>1, <2>2, <2>3
<1>6. ASSUME NEW q \in Rooms, h.socketsByRoomId[q] # undefined
      PROVE  g.socketsByRoomId[q] # undefined
  <2>1. CASE q # g.socketRoomState[s]
    BY <2>1, <1>4, <1>6
  <2>2. CASE q = g.socketRoomState[s]
    <3>1. PICK u \in Users : roomSockets(g, q)[<<s, u>>] > 0
      BY <2>2 DEF listed, listedAs
    <3>2. emptyList[<<s, u>>] = 0
      BY DEF emptyList, Entry
    <3>. QED
      BY <3>1, <3>2 DEF roomSockets
  <2>. QED
    BY <2>1, <2>2
<1>. QED
  BY <1>4, <1>5, <1>6

\* Removing a socket that has no room changes nothing the arrays show.
LEMMA RemoveAgain ==
  ASSUME NEW g \in Registry, NEW s \in Sockets,
         \A r \in Rooms, e \in Entry : roomSockets(g, r)[e] <= 1,
         g.socketRoomState[s] = undefined, s \notin g.socketState
  PROVE  LET h == removeSocket(g, s) IN
         /\ h \in Registry
         /\ h.socketsByUserId = g.socketsByUserId
         /\ h.roomStatesById = g.roomStatesById
         /\ h.socketState = g.socketState
         /\ h.socketRoomState = g.socketRoomState
         /\ \A q \in Rooms, v \in Users, t \in Sockets :
              roomSockets(h, q)[<<t, v>>] = roomSockets(g, q)[<<t, v>>]
         /\ \A q \in Rooms : h.socketsByRoomId[q] # undefined
                             => g.socketsByRoomId[q] # undefined
<1>1. \A r \in Rooms : g.socketRoomState[s] # r
  BY UndefinedAssumption
<1>2. [g.socketRoomState EXCEPT ![s] = undefined] = g.socketRoomState
  BY DEF Registry
<1>3. g.socketState \ {s} = g.socketState
  OBVIOUS
<1> DEFINE h == removeSocket(g, s)
<1>4. /\ h \in Registry
      /\ h.socketsByUserId = g.socketsByUserId
      /\ h.roomStatesById = g.roomStatesById
      /\ h.socketState = g.socketState \ {s}
      /\ h.socketRoomState = [g.socketRoomState EXCEPT ![s] = undefined]
      /\ \A q \in Rooms, v \in Users, t \in Sockets :
           roomSockets(h, q)[<<t, v>>] =
             IF t = s /\ q = g.socketRoomState[s]
             THEN 0 ELSE roomSockets(g, q)[<<t, v>>]
      /\ \A q \in Rooms : h.socketsByRoomId[q] # undefined
                          => g.socketsByRoomId[q] # undefined
  BY <1>1, RemoveSocket
<1>. HIDE DEF h
<1>5. ASSUME NEW q \in Rooms, NEW v \in Users, NEW t \in Sockets
      PROVE  roomSockets(h, q)[<<t, v>>] = roomSockets(g, q)[<<t, v>>]
  <2>1. ~(t = s /\ q = g.socketRoomState[s])
    BY <1>1
  <2>2. roomSockets(h, q)[<<t, v>>] =
          IF t = s /\ q = g.socketRoomState[s]
          THEN 0 ELSE roomSockets(g, q)[<<t, v>>]
    BY <1>4
  <2>. QED
    BY <2>1, <2>2
<1>. QED
  BY <1>2, <1>3, <1>4, <1>5 DEF h
=============================================================================
