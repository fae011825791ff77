-------------------------- MODULE SocketStateProofs -------------------------
(***************************************************************************)
(* SocketState for any sets of sockets, users and rooms: its types, its    *)
(* safety invariants, and that it implements RoomMembership.               *)
(***************************************************************************)
EXTENDS SocketState, SocketRegistryProofs

-----------------------------------------------------------------------------
(* What the steps do to the registry: the listeners run three times, but the *)
(* second and third run change nothing.                                      *)

LEMMA ConnectStep ==
  ASSUME TypeOK, NEW s \in Sockets, NEW u \in Users, Connect(s, u)
  PROVE  /\ reg' \in Registry
         /\ reg'.socketsByRoomId = reg.socketsByRoomId
         /\ reg'.socketState = reg.socketState
         /\ reg'.socketRoomState = reg.socketRoomState
         /\ reg'.roomStatesById = reg.roomStatesById
         /\ \A v \in Users, t \in Sockets :
              reg.socketsByUserId[v][t] <= 1 => reg'.socketsByUserId[v][t] <= 1
<1> DEFINE one == addSocket(reg, u, s)
           two == addSocket(one, u, s)
<1>1. reg \in Registry
  BY DEF TypeOK
<1>2. one \in Registry
  BY <1>1, AddSocket
<1>3. two \in Registry
  BY <1>2, AddSocket
<1>4. reg' = addSocket(two, u, s)
  BY DEF Connect
<1>5. /\ one.socketsByRoomId = reg.socketsByRoomId
      /\ one.socketState = reg.socketState
      /\ one.socketRoomState = reg.socketRoomState
      /\ one.roomStatesById = reg.roomStatesById
      /\ \A v \in Users, t \in Sockets :
           reg.socketsByUserId[v][t] <= 1 => one.socketsByUserId[v][t] <= 1
  BY <1>1, AddSocket
<1>6. /\ two.socketsByRoomId = one.socketsByRoomId
      /\ two.socketState = one.socketState
      /\ two.socketRoomState = one.socketRoomState
      /\ two.roomStatesById = one.roomStatesById
      /\ \A v \in Users, t \in Sockets :
           one.socketsByUserId[v][t] <= 1 => two.socketsByUserId[v][t] <= 1
  BY <1>2, AddSocket
<1>7. /\ reg' \in Registry
      /\ reg'.socketsByRoomId = two.socketsByRoomId
      /\ reg'.socketState = two.socketState
      /\ reg'.socketRoomState = two.socketRoomState
      /\ reg'.roomStatesById = two.roomStatesById
      /\ \A v \in Users, t \in Sockets :
           two.socketsByUserId[v][t] <= 1 => reg'.socketsByUserId[v][t] <= 1
  BY <1>3, <1>4, AddSocket
<1>. HIDE DEF one, two
<1>. QED
  BY <1>5, <1>6, <1>7

LEMMA JoinStep ==
  ASSUME TypeOK, NEW s \in Sockets, NEW u \in Users, NEW r \in Rooms, JoinRoom(s, u, r)
  PROVE  /\ reg' \in Registry
         /\ reg'.socketsByUserId = reg.socketsByUserId
         /\ \A q \in Rooms, v \in Users, t \in Sockets :
              roomSockets(reg', q)[<<t, v>>] =
                IF q = r /\ v = u /\ t = s /\ ~listedAs(reg, s, u, r)
                THEN 1 ELSE roomSockets(reg, q)[<<t, v>>]
         /\ \A q \in Rooms : reg'.socketsByRoomId[q] # undefined
                             => reg.socketsByRoomId[q] # undefined \/ q \in reg'.roomStatesById
         /\ reg.roomStatesById \subseteq reg'.roomStatesById
         /\ listedAs(reg, s, u, r) => reg' = reg
         /\ ~listedAs(reg, s, u, r) =>
              /\ reg'.socketState = reg.socketState \cup {s}
              /\ reg'.socketRoomState = [reg.socketRoomState EXCEPT ![s] = r]
<1>1. reg \in Registry /\ reg' = addUserJoinRoom(reg, r, u, s)
  BY DEF JoinRoom, TypeOK
<1>. QED
  BY <1>1, AddUserJoinRoom

LEMMA DisconnectStep ==
  ASSUME IInv, NEW s \in Sockets, Disconnect(s)
  PROVE  /\ reg' \in Registry
         /\ reg'.socketsByUserId = reg.socketsByUserId
         /\ reg'.roomStatesById = reg.roomStatesById
         /\ reg'.socketState = reg.socketState \ {s}
         /\ reg'.socketRoomState = [reg.socketRoomState EXCEPT ![s] = undefined]
         /\ \A q \in Rooms, v \in Users, t \in Sockets :
              roomSockets(reg', q)[<<t, v>>] =
                IF t = s /\ q = reg.socketRoomState[s]
                THEN 0 ELSE roomSockets(reg, q)[<<t, v>>]
         /\ \A q \in Rooms : reg'.socketsByRoomId[q] # undefined
                             => reg.socketsByRoomId[q] # undefined
<1> DEFINE one == removeSocket(reg, s)
           two == removeSocket(one, s)
           Once(g, h) == \A q \in Rooms, v \in Users, t \in Sockets :
                           roomSockets(h, q)[<<t, v>>] =
                             IF t = s /\ q = reg.socketRoomState[s]
                             THEN 0 ELSE roomSockets(g, q)[<<t, v>>]
<1>1. /\ reg \in Registry
      /\ \A r \in Rooms, e \in Entry : roomSockets(reg, r)[e] <= 1
      /\ \A r \in Rooms : reg.socketRoomState[s] = r => listed(reg, s, r)
  BY DEF IInv, TypeOK, NoDuplicates, RoomStateIsListed
<1>2. /\ one \in Registry
      /\ one.socketsByUserId = reg.socketsByUserId
      /\ one.roomStatesById = reg.roomStatesById
      /\ one.socketState = reg.socketState \ {s}
      /\ one.socketRoomState = [reg.socketRoomState EXCEPT ![s] = undefined]
      /\ Once(reg, one)
      /\ \A q \in Rooms : one.socketsByRoomId[q] # undefined
                          => reg.socketsByRoomId[q] # undefined
  BY <1>1, RemoveSocket
<1>3. one.socketRoomState[s] = undefined /\ s \notin one.socketState
  BY <1>1, <1>2 DEF Registry
<1>4. \A r \in Rooms, e \in Entry : roomSockets(one, r)[e] <= 1
  BY <1>1, <1>2 DEF Entry
<1>5. /\ two \in Registry
      /\ two.socketsByUserId = one.socketsByUserId
      /\ two.roomStatesById = one.roomStatesById
      /\ two.socketState = one.socketState
      /\ two.socketRoomState = one.socketRoomState
      /\ \A q \in Rooms, v \in Users, t \in Sockets :
           roomSockets(two, q)[<<t, v>>] = roomSockets(one, q)[<<t, v>>]
      /\ \A q \in Rooms : two.socketsByRoomId[q] # undefined
                          => one.socketsByRoomId[q] # undefined
  BY <1>2, <1>3, <1>4, RemoveAgain
<1>6. two.socketRoomState[s] = undefined /\ s \notin two.socketState
  BY <1>3, <1>5
<1>7. \A r \in Rooms, e \in Entry : roomSockets(two, r)[e] <= 1
  BY <1>4, <1>5 DEF Entry
<1>8. reg' = removeSocket(two, s)
  BY DEF Disconnect
<1>9. /\ reg' \in Registry
      /\ reg'.socketsByUserId = two.socketsByUserId
      /\ reg'.roomStatesById = two.roomStatesById
      /\ reg'.socketState = two.socketState
      /\ reg'.socketRoomState = two.socketRoomState
      /\ \A q \in Rooms, v \in Users, t \in Sockets :
           roomSockets(reg', q)[<<t, v>>] = roomSockets(two, q)[<<t, v>>]
      /\ \A q \in Rooms : reg'.socketsByRoomId[q] # undefined
                          => two.socketsByRoomId[q] # undefined
  BY <1>5, <1>6, <1>7, <1>8, RemoveAgain
<1>. HIDE DEF one, two
<1>. QED
  BY <1>2, <1>5, <1>9

-----------------------------------------------------------------------------
(* Who is listed after a step. *)

LEMMA ConnectListing ==
  ASSUME TypeOK, NEW s \in Sockets, NEW u \in Users, Connect(s, u)
  PROVE  \A t \in Sockets, v \in Users, r \in Rooms :
           listedAs(reg', t, v, r) <=> listedAs(reg, t, v, r)
BY ConnectStep DEF listedAs, roomSockets

LEMMA JoinListing ==
  ASSUME TypeOK, NEW s \in Sockets, NEW u \in Users, NEW r \in Rooms, JoinRoom(s, u, r)
  PROVE  \A t \in Sockets, v \in Users, q \in Rooms :
           listedAs(reg', t, v, q) <=> listedAs(reg, t, v, q) \/ <<t, v, q>> = <<s, u, r>>
<1>1. \A q \in Rooms, v \in Users, t \in Sockets :
        roomSockets(reg', q)[<<t, v>>] =
          IF q = r /\ v = u /\ t = s /\ ~listedAs(reg, s, u, r)
          THEN 1 ELSE roomSockets(reg, q)[<<t, v>>]
  BY JoinStep
<1>. QED
  BY <1>1 DEF listedAs

LEMMA DisconnectListing ==
  ASSUME IInv, NEW s \in Sockets, Disconnect(s)
  PROVE  \A t \in Sockets, v \in Users, q \in Rooms :
           listedAs(reg', t, v, q)
           <=> listedAs(reg, t, v, q) /\ ~(t = s /\ q = reg.socketRoomState[s])
<1>1. \A q \in Rooms, v \in Users, t \in Sockets :
        roomSockets(reg', q)[<<t, v>>] =
          IF t = s /\ q = reg.socketRoomState[s]
          THEN 0 ELSE roomSockets(reg, q)[<<t, v>>]
  BY DisconnectStep
<1>. QED
  BY <1>1 DEF listedAs

-----------------------------------------------------------------------------
(* The invariant. *)

LEMMA InitInvariant == Init => IInv
<1> SUFFICES ASSUME Init PROVE IInv
  OBVIOUS
<1>1. TypeOK
  BY NewRegistry DEF Init, TypeOK
<1>2. \A s \in Sockets, u \in Users, r \in Rooms : ~listedAs(reg, s, u, r)
  BY NewRegistry DEF Init, listedAs, emptyList, Entry
<1>3. NoDuplicates
  <2>1. \A r \in Rooms, e \in Entry : roomSockets(reg, r)[e] = 0
    BY NewRegistry DEF Init, emptyList
  <2>2. \A u \in Users, s \in Sockets : reg.socketsByUserId[u][s] = 0
    BY DEF Init, newRegistry
  <2>. QED
    BY <2>1, <2>2 DEF NoDuplicates
<1>4. /\ OpenSocketsListedAsJoined
      /\ ListedWereJoined
      /\ NewSocketsJoinedNothing
      /\ OpenJoinersHaveRoom
      /\ OneRoomSocketsLeaveNoEntry
  BY <1>2 DEF Init, OpenSocketsListedAsJoined, ListedWereJoined, listed,
              NewSocketsJoinedNothing, OpenJoinersHaveRoom, OneRoomSocketsLeaveNoEntry
<1>5. RoomStateIsListed /\ ListedRoomsHaveState
  BY UndefinedAssumption
  DEF Init, RoomStateIsListed, ListedRoomsHaveState, newRegistry
<1>. QED
  BY <1>1, <1>3, <1>4, <1>5 DEF IInv

LEMMA ConnectInvariant ==
  ASSUME IInv, NEW s \in Sockets, NEW u \in Users, Connect(s, u)
  PROVE  IInv'
<1>1. TypeOK
  BY DEF IInv
<1>2. /\ reg' \in Registry
      /\ reg'.socketsByRoomId = reg.socketsByRoomId
      /\ reg'.socketState = reg.socketState
      /\ reg'.socketRoomState = reg.socketRoomState
      /\ reg'.roomStatesById = reg.roomStatesById
      /\ \A v \in Users, t \in Sockets :
           reg.socketsByUserId[v][t] <= 1 => reg'.socketsByUserId[v][t] <= 1
  BY <1>1, ConnectStep
<1>3. /\ conn[s] = "new"
      /\ conn' = [conn EXCEPT ![s] = "open"]
      /\ joined' = joined
  BY DEF Connect
<1>4. \A r \in Rooms : roomSockets(reg', r) = roomSockets(reg, r)
  BY <1>2 DEF roomSockets
<1>5. \A t \in Sockets, v \in Users, r \in Rooms :
        listedAs(reg', t, v, r) <=> listedAs(reg, t, v, r)
  BY <1>1, ConnectListing
<1>6. \A t \in Sockets, r \in Rooms : listed(reg', t, r) <=> listed(reg, t, r)
  BY <1>5 DEF listed
<1>7. \A v \in Users, r \in Rooms : <<s, v, r>> \notin joined /\ ~listedAs(reg, s, v, r)
  BY <1>3 DEF IInv, NewSocketsJoinedNothing, ListedWereJoined
<1>8. TypeOK'
  BY <1>1, <1>2, <1>3 DEF TypeOK
<1>9. NoDuplicates'
  BY <1>2, <1>4 DEF IInv, NoDuplicates
<1>10. OpenSocketsListedAsJoined'
  BY <1>1, <1>3, <1>5, <1>7 DEF IInv, OpenSocketsListedAsJoined, TypeOK
<1>11. RoomStateIsListed'
  BY <1>2, <1>6 DEF IInv, RoomStateIsListed
<1>12. OneRoomSocketsLeaveNoEntry'
  BY <1>1, <1>3, <1>6 DEF IInv, OneRoomSocketsLeaveNoEntry, TypeOK
<1>13. ListedRoomsHaveState'
  BY <1>2 DEF IInv, ListedRoomsHaveState
<1>14. ListedWereJoined'
  BY <1>3, <1>5 DEF IInv, ListedWereJoined
<1>15. NewSocketsJoinedNothing'
  BY <1>1, <1>3 DEF IInv, NewSocketsJoinedNothing, TypeOK
<1>16. OpenJoinersHaveRoom'
  BY <1>1, <1>2, <1>3, <1>7 DEF IInv, OpenJoinersHaveRoom, TypeOK
<1>. QED
  BY <1>8, <1>9, <1>10, <1>11, <1>12, <1>13, <1>14, <1>15, <1>16 DEF IInv

LEMMA JoinRoomInvariant ==
  ASSUME IInv, NEW s \in Sockets, NEW u \in Users, NEW r \in Rooms, JoinRoom(s, u, r)
  PROVE  IInv'
<1>1. TypeOK /\ reg \in Registry
  BY DEF IInv, TypeOK
<1>2. /\ conn[s] = "open"
      /\ conn' = conn
      /\ joined' = joined \cup {<<s, u, r>>}
  BY DEF JoinRoom
<1>3. /\ reg' \in Registry
      /\ reg'.socketsByUserId = reg.socketsByUserId
      /\ \A q \in Rooms, v \in Users, t \in Sockets :
           roomSockets(reg', q)[<<t, v>>] =
             IF q = r /\ v = u /\ t = s /\ ~listedAs(reg, s, u, r)
             THEN 1 ELSE roomSockets(reg, q)[<<t, v>>]
      /\ \A q \in Rooms : reg'.socketsByRoomId[q] # undefined
                          => reg.socketsByRoomId[q] # undefined \/ q \in reg'.roomStatesById
      /\ reg.roomStatesById \subseteq reg'.roomStatesById
      /\ listedAs(reg, s, u, r) => reg' = reg
      /\ ~listedAs(reg, s, u, r) =>
           /\ reg'.socketState = reg.socketState \cup {s}
           /\ reg'.socketRoomState = [reg.socketRoomState EXCEPT ![s] = r]
  BY <1>1, JoinStep
<1>4. \A t \in Sockets, v \in Users, q \in Rooms :
        listedAs(reg', t, v, q) <=> listedAs(reg, t, v, q) \/ <<t, v, q>> = <<s, u, r>>
  BY <1>1, JoinListing
<1>5. \A t \in Sockets, q \in Rooms :
        listed(reg', t, q) <=> listed(reg, t, q) \/ (t = s /\ q = r)
  BY <1>4 DEF listed
<1>6. TypeOK'
  BY <1>1, <1>2, <1>3 DEF TypeOK, Membership
<1>7. NoDuplicates'
  <2>1. \A q \in Rooms, e \in Entry : roomSockets(reg', q)[e] <= 1
    BY <1>3 DEF IInv, NoDuplicates, Entry
  <2>. QED
    BY <2>1, <1>3 DEF IInv, NoDuplicates
<1>8. OpenSocketsListedAsJoined'
  BY <1>2, <1>4 DEF IInv, OpenSocketsListedAsJoined
<1>9. RoomStateIsListed'
  <2>1. CASE listedAs(reg, s, u, r)
    BY <2>1, <1>3 DEF IInv, RoomStateIsListed
  <2>2. CASE ~listedAs(reg, s, u, r)
    BY <2>2, <1>1, <1>3, <1>5, UndefinedAssumption
    DEF IInv, RoomStateIsListed, Registry
  <2>. QED
    BY <2>1, <2>2
<1>10. OneRoomSocketsLeaveNoEntry'
  BY <1>2, <1>5 DEF IInv, OneRoomSocketsLeaveNoEntry
<1>11. ListedRoomsHaveState'
  BY <1>3 DEF IInv, ListedRoomsHaveState
<1>12. ListedWereJoined'
  BY <1>2, <1>4 DEF IInv, ListedWereJoined
<1>13. NewSocketsJoinedNothing'
  BY <1>2 DEF IInv, NewSocketsJoinedNothing
<1>14. OpenJoinersHaveRoom'
  <2>1. CASE listedAs(reg, s, u, r)
    BY <2>1, <1>2, <1>3 DEF IInv, OpenJoinersHaveRoom, ListedWereJoined
  <2>2. CASE ~listedAs(reg, s, u, r)
    BY <2>2, <1>1, <1>2, <1>3, UndefinedAssumption
    DEF IInv, OpenJoinersHaveRoom, Registry
  <2>. QED
    BY <2>1, <2>2
<1>. QED
  BY <1>6, <1>7, <1>8, <1>9, <1>10, <1>11, <1>12, <1>13, <1>14 DEF IInv

LEMMA DisconnectInvariant ==
  ASSUME IInv, NEW s \in Sockets, Disconnect(s)
  PROVE  IInv'
<1>1. TypeOK /\ reg \in Registry
  BY DEF IInv, TypeOK
<1>2. /\ conn[s] = "open"
      /\ conn' = [conn EXCEPT ![s] = "closed"]
      /\ joined' = joined
  BY DEF Disconnect
<1>3. /\ reg' \in Registry
      /\ reg'.socketsByUserId = reg.socketsByUserId
      /\ reg'.roomStatesById = reg.roomStatesById
      /\ reg'.socketState = reg.socketState \ {s}
      /\ reg'.socketRoomState = [reg.socketRoomState EXCEPT ![s] = undefined]
      /\ \A q \in Rooms, v \in Users, t \in Sockets :
           roomSockets(reg', q)[<<t, v>>] =
             IF t = s /\ q = reg.socketRoomState[s]
             THEN 0 ELSE roomSockets(reg, q)[<<t, v>>]
      /\ \A q \in Rooms : reg'.socketsByRoomId[q] # undefined
                          => reg.socketsByRoomId[q] # undefined
  BY DisconnectStep
<1>4. \A t \in Sockets, v \in Users, q \in Rooms :
        listedAs(reg', t, v, q)
        <=> listedAs(reg, t, v, q) /\ ~(t = s /\ q = reg.socketRoomState[s])
  BY DisconnectListing
<1>5. \A t \in Sockets, q \in Rooms :
        listed(reg', t, q) <=> listed(reg, t, q) /\ ~(t = s /\ q = reg.socketRoomState[s])
  BY <1>4 DEF listed
<1>6. conn' \in [Sockets -> {"new", "open", "closed"}]
  BY <1>1, <1>2 DEF TypeOK
<1>7. \A t \in Sockets : conn'[t] = IF t = s THEN "closed" ELSE conn[t]
  BY <1>1, <1>2 DEF TypeOK
<1>8. TypeOK'
  BY <1>1, <1>2, <1>3, <1>6 DEF TypeOK
<1>9. NoDuplicates'
  <2>1. \A q \in Rooms, e \in Entry : roomSockets(reg', q)[e] <= 1
    BY <1>3 DEF IInv, NoDuplicates, Entry
  <2>. QED
    BY <2>1, <1>3 DEF IInv, NoDuplicates
<1>10. OpenSocketsListedAsJoined'
  BY <1>2, <1>4, <1>7 DEF IInv, OpenSocketsListedAsJoined
<1>11. RoomStateIsListed'
  BY <1>1, <1>3, <1>5, UndefinedAssumption DEF IInv, RoomStateIsListed, Registry
<1>12. OneRoomSocketsLeaveNoEntry'
  <2> SUFFICES ASSUME NEW t \in Sockets, conn'[t] = "closed",
                      \A m, n \in joined : m[1] = t /\ n[1] = t => m[3] = n[3],
                      NEW q \in Rooms, listed(reg', t, q)
               PROVE  FALSE
    BY <1>2 DEF OneRoomSocketsLeaveNoEntry
  <2>1. CASE t # s
    BY <2>1, <1>5, <1>7 DEF IInv, OneRoomSocketsLeaveNoEntry
  <2>2. CASE t = s
    <3>1. listed(reg, s, q) /\ q # reg.socketRoomState[s]
      BY <2>2, <1>5
    <3>2. PICK v \in Users : <<s, v, q>> \in joined
      BY <3>1 DEF IInv, ListedWereJoined, listed
    <3>3. reg.socketRoomState[s] # undefined
      BY <3>2, <1>2 DEF IInv, OpenJoinersHaveRoom
    <3>4. reg.socketRoomState[s] \in Rooms
      BY <3>3, <1>1 DEF Registry
    <3>5. listed(reg, s, reg.socketRoomState[s])
      BY <3>4 DEF IInv, RoomStateIsListed
    <3>6. PICK w \in Users : <<s, w, reg.socketRoomState[s]>> \in joined
      BY <3>4, <3>5 DEF IInv, ListedWereJoined, listed
    <3>. QED
      BY <2>2, <3>1, <3>2, <3>6
  <2>. QED
    BY <2>1, <2>2
<1>13. ListedRoomsHaveState'
  BY <1>3 DEF IInv, ListedRoomsHaveState
<1>14. ListedWereJoined'
  BY <1>2, <1>4 DEF IInv, ListedWereJoined
<1>15. NewSocketsJoinedNothing'
  BY <1>2, <1>7 DEF IInv, NewSocketsJoinedNothing
<1>16. OpenJoinersHaveRoom'
  BY <1>1, <1>2, <1>3, <1>7 DEF IInv, OpenJoinersHaveRoom, Registry
<1>. QED
  BY <1>8, <1>9, <1>10, <1>11, <1>12, <1>13, <1>14, <1>15, <1>16 DEF IInv

LEMMA StutterInvariant == IInv /\ UNCHANGED vars => IInv'
BY DEF vars, IInv, TypeOK, NoDuplicates, OpenSocketsListedAsJoined, RoomStateIsListed,
       OneRoomSocketsLeaveNoEntry, ListedRoomsHaveState, ListedWereJoined,
       NewSocketsJoinedNothing, OpenJoinersHaveRoom

\* IInv holds in every state: Connect leaves the arrays alone, JoinRoom adds what
\* joined records, and Disconnect takes away what OpenSocketsListedAsJoined no
\* longer speaks of.
THEOREM Invariance == Spec => []IInv
<1>1. IInv /\ [Next]_vars => IInv'
  <2> SUFFICES ASSUME IInv, [Next]_vars PROVE IInv'
    OBVIOUS
  <2>1. ASSUME NEW s \in Sockets, NEW u \in Users, Connect(s, u) PROVE IInv'
    BY <2>1, ConnectInvariant
  <2>2. ASSUME NEW s \in Sockets, NEW u \in Users, NEW r \in Rooms, JoinRoom(s, u, r)
        PROVE  IInv'
    BY <2>2, JoinRoomInvariant
  <2>3. ASSUME NEW s \in Sockets, Disconnect(s) PROVE IInv'
    BY <2>3, DisconnectInvariant
  <2>4. CASE UNCHANGED vars
    BY <2>4, StutterInvariant
  <2>. QED
    BY <2>1, <2>2, <2>3, <2>4 DEF Next
<1>. QED
  BY <1>1, InitInvariant, PTL DEF Spec

\* The registry keeps its types.
THEOREM TypeCorrect == Spec => []TypeOK
<1>1. IInv => TypeOK
  BY DEF IInv
<1>. QED
  BY <1>1, Invariance, PTL

\* No socket is listed twice in a room as the same user, nor twice with its user, so none gets
\* a broadcast twice for one join.
THEOREM EntriesAreUnique == Spec => []NoDuplicates
<1>1. IInv => NoDuplicates
  BY DEF IInv
<1>. QED
  BY <1>1, Invariance, PTL

\* A broadcast reaches the members of its room among the open sockets and nobody else.
THEOREM BroadcastTargets == Spec => []OpenSocketsListedAsJoined
<1>1. IInv => OpenSocketsListedAsJoined
  BY DEF IInv
<1>. QED
  BY <1>1, Invariance, PTL

\* The length test of removeSocket is safe: an array of one element that it drops is the
\* disconnecting socket's own.
THEOREM DropsOwnArray == Spec => []RoomStateIsListed
<1>1. IInv => RoomStateIsListed
  BY DEF IInv
<1>. QED
  BY <1>1, Invariance, PTL

\* A socket that joined one room leaves no entry behind.
THEOREM CleanUp == Spec => []OneRoomSocketsLeaveNoEntry
<1>1. IInv => OneRoomSocketsLeaveNoEntry
  BY DEF IInv
<1>. QED
  BY <1>1, Invariance, PTL

\* The call handlers find a state for every room somebody is listed in.
THEOREM RoomStates == Spec => []ListedRoomsHaveState
<1>1. IInv => ListedRoomsHaveState
  BY DEF IInv
<1>. QED
  BY <1>1, Invariance, PTL

\* No step takes an entry away from a socket other than the one it closes.
THEOREM OwnRemoval == Spec => RemovalIsOwn
<1> DEFINE Own == \A s \in Sockets, u \in Users, r \in Rooms :
                    listedAs(reg, s, u, r) /\ ~listedAs(reg', s, u, r)
                    => conn[s] = "open" /\ conn'[s] = "closed"
<1>1. IInv /\ [Next]_vars => [Own]_vars
  <2> SUFFICES ASSUME IInv, Next PROVE Own
    OBVIOUS
  <2>1. TypeOK
    BY DEF IInv
  <2>2. ASSUME NEW s \in Sockets, NEW u \in Users, Connect(s, u) PROVE Own
    BY <2>1, <2>2, ConnectListing
  <2>3. ASSUME NEW s \in Sockets, NEW u \in Users, NEW r \in Rooms, JoinRoom(s, u, r)
        PROVE  Own
    BY <2>1, <2>3, JoinListing
  <2>4. ASSUME NEW s \in Sockets, Disconnect(s) PROVE Own
    <3>1. conn[s] = "open" /\ conn'[s] = "closed"
      BY <2>1, <2>4 DEF Disconnect, TypeOK
    <3>. QED
      BY <2>4, <3>1, DisconnectListing
  <2>. QED
    BY <2>2, <2>3, <2>4 DEF Next
<1>. QED
  BY <1>1, Invariance, PTL DEF Spec, RemovalIsOwn

-----------------------------------------------------------------------------
(* The refinement. *)

LEMMA MembersAre ==
  ASSUME NEW s \in Sockets, NEW u \in Users, NEW r \in Rooms
  PROVE  <<s, u, r>> \in Members <=> conn[s] = "open" /\ listedAs(reg, s, u, r)
BY DEF Members, Membership

\* The same of the next state.
LEMMA MembersAreNext ==
  ASSUME NEW s \in Sockets, NEW u \in Users, NEW r \in Rooms
  PROVE  <<s, u, r>> \in Members' <=> conn'[s] = "open" /\ listedAs(reg', s, u, r)
BY DEF Members, Membership

LEMMA ConnectRefines ==
  ASSUME IInv, NEW s \in Sockets, NEW u \in Users, Connect(s, u)
  PROVE  Abstract!Open(s)
<1>1. TypeOK
  BY DEF IInv
<1>2. conn[s] = "new" /\ conn' = [conn EXCEPT ![s] = "open"]
  BY DEF Connect
<1>3. \A t \in Sockets : conn'[t] = IF t = s THEN "open" ELSE conn[t]
  BY <1>1, <1>2 DEF TypeOK
<1>4. \A v \in Users, r \in Rooms : ~listedAs(reg, s, v, r)
  BY <1>2 DEF IInv, NewSocketsJoinedNothing, ListedWereJoined
<1>5. ASSUME NEW t \in Sockets, NEW v \in Users, NEW r \in Rooms
      PROVE  <<t, v, r>> \in Members' <=> <<t, v, r>> \in Members
  BY <1>1, <1>3, <1>4, ConnectListing, MembersAre, MembersAreNext
<1>6. Members \subseteq Membership /\ Members' \subseteq Membership
  BY DEF Members
<1>7. Members' = Members
  BY <1>5, <1>6 DEF Membership
<1>. QED
  BY <1>2, <1>7 DEF Abstract!Open

LEMMA JoinRefines ==
  ASSUME IInv, NEW s \in Sockets, NEW u \in Users, NEW r \in Rooms, JoinRoom(s, u, r)
  PROVE  Abstract!Enter(s, u, r)
<1>1. TypeOK
  BY DEF IInv
<1>2. conn[s] = "open" /\ conn' = conn
  BY DEF JoinRoom
<1>3. ASSUME NEW t \in Sockets, NEW v \in Users, NEW q \in Rooms
      PROVE  <<t, v, q>> \in Members' <=> <<t, v, q>> \in Members \cup {<<s, u, r>>}
  BY <1>1, <1>2, JoinListing, MembersAre, MembersAreNext
<1>4. Members \subseteq Membership /\ Members' \subseteq Membership
  BY DEF Members
<1>5. Members' = Members \cup {<<s, u, r>>}
  BY <1>3, <1>4 DEF Membership
<1>. QED
  BY <1>2, <1>5 DEF Abstract!Enter

LEMMA DisconnectRefines ==
  ASSUME IInv, NEW s \in Sockets, Disconnect(s)
  PROVE  Abstract!Close(s)
<1>1. TypeOK
  BY DEF IInv
<1>2. conn[s] = "open" /\ conn' = [conn EXCEPT ![s] = "closed"]
  BY DEF Disconnect
<1>3. \A t \in Sockets : conn'[t] = IF t = s THEN "closed" ELSE conn[t]
  BY <1>1, <1>2 DEF TypeOK
<1>4. ASSUME NEW t \in Sockets, NEW v \in Users, NEW q \in Rooms
      PROVE  <<t, v, q>> \in Members' <=> <<t, v, q>> \in Members /\ t # s
  BY <1>3, DisconnectListing, MembersAre, MembersAreNext
<1>5. Members \subseteq Membership /\ Members' \subseteq Membership
  BY DEF Members
<1>6. Members' = {m \in Members : m[1] # s}
  BY <1>4, <1>5 DEF Membership
<1>. QED
  BY <1>2, <1>6 DEF Abstract!Close

\* What the open sockets see of the registry is RoomMembership: stale entries,
\* repeated joins and the key that removal drops never show.
THEOREM Refinement == Spec => ImplementsRoomMembership
<1>1. Init => Abstract!Init
  <2> SUFFICES ASSUME Init PROVE Abstract!Init
    OBVIOUS
  <2>1. \A s \in Sockets : conn[s] # "open"
    BY DEF Init
  <2>2. Members = {}
    BY <2>1 DEF Members, Membership
  <2>. QED
    BY <2>2 DEF Init, Abstract!Init
<1>2. IInv /\ [Next]_vars => [Abstract!Next]_<<conn, Members>>
  <2> SUFFICES ASSUME IInv, [Next]_vars PROVE [Abstract!Next]_<<conn, Members>>
    OBVIOUS
  <2>1. ASSUME NEW s \in Sockets, NEW u \in Users, Connect(s, u) PROVE Abstract!Next
    BY <2>1, ConnectRefines DEF Abstract!Next
  <2>2. ASSUME NEW s \in Sockets, NEW u \in Users, NEW r \in Rooms, JoinRoom(s, u, r)
        PROVE  Abstract!Next
    BY <2>2, JoinRefines DEF Abstract!Next
  <2>3. ASSUME NEW s \in Sockets, Disconnect(s) PROVE Abstract!Next
    BY <2>3, DisconnectRefines DEF Abstract!Next
  <2>4. CASE UNCHANGED vars
    BY <2>4 DEF vars, Members
  <2>. QED
    BY <2>1, <2>2, <2>3, <2>4 DEF Next
<1>. QED
  BY <1>1, <1>2, Invariance, PTL DEF Spec, ImplementsRoomMembership, Abstract!Spec
=============================================================================
