----------------------------- MODULE SocketState ----------------------------
(***************************************************************************)
(* One server process: sockets connect, join rooms and disconnect, and the *)
(* registry is updated by SocketStateAdapter.bindClientConnect and by the  *)
(* joinRoom handler.  Every action is one run of the event loop; the       *)
(* asynchronous part of joinRoom (the room lookup before it) is in         *)
(* ChatServer.  Nest drops the handlers of a socket that disconnected, so  *)
(* no join follows a disconnect.                                           *)
(***************************************************************************)
EXTENDS SocketRegistry

VARIABLES conn,     \* conn[s]: "new", "open" or "closed" (ids are not reused)
          reg,      \* the SocketStateService of the process
          joined    \* history: the <<s, u, r>> for which a joinRoom handler ran

vars == <<conn, reg, joined>>

Membership == Sockets \X Users \X Rooms

Init == /\ conn = [s \in Sockets |-> "new"]
        /\ reg = newRegistry
        /\ joined = {}

\* The adapter's 'connection' listener.  Nest binds it once for each of the
\* three gateways that share the server, so it runs three times.
Connect(s, u) ==
  LET onConnection(state) == addSocket(state, u, s) IN
  /\ conn[s] = "new"
  /\ conn' = [conn EXCEPT ![s] = "open"]
  /\ reg' = onConnection(onConnection(onConnection(reg)))
  /\ UNCHANGED joined

\* The end of the joinRoom handler.  The user is the one the payload names,
\* which need not be the one the socket authenticated as.
JoinRoom(s, u, r) ==
  /\ conn[s] = "open"
  /\ reg' = addUserJoinRoom(reg, r, u, s)
  /\ joined' = joined \cup {<<s, u, r>>}
  /\ UNCHANGED conn

\* The adapter's 'disconnect' listener, once for each gateway as well.
Disconnect(s) ==
  LET onDisconnect(state) == removeSocket(state, s) IN
  /\ conn[s] = "open"
  /\ conn' = [conn EXCEPT ![s] = "closed"]
  /\ reg' = onDisconnect(onDisconnect(onDisconnect(reg)))
  /\ UNCHANGED joined

Next == \E s \in Sockets : \/ \E u \in Users : Connect(s, u)
                           \/ \E u \in Users, r \in Rooms : JoinRoom(s, u, r)
                           \/ Disconnect(s)

Spec == Init /\ [][Next]_vars

-----------------------------------------------------------------------------
TypeOK == /\ conn \in [Sockets -> {"new", "open", "closed"}]
          /\ reg \in Registry
          /\ joined \in SUBSET Membership

\* A socket is connected at most once per user and listed at most once per
\* room and user, although the adapter's listeners run once per gateway and a
\* client may send joinRoom again: otherwise it would get every broadcast of
\* the room twice.
NoDuplicates ==
  /\ \A u \in Users, s \in Sockets : reg.socketsByUserId[u][s] <= 1
  /\ \A r \in Rooms, e \in Entry : roomSockets(reg, r)[e] <= 1

\* While a socket is open, the arrays list it exactly in the rooms, and as the
\* users, it joined: whatever other sockets do, in particular the removal
\* of an array of length one, a member neither misses a broadcast nor gets one
\* of a room it did not join.
OpenSocketsListedAsJoined ==
  \A s \in Sockets, u \in Users, r \in Rooms :
    conn[s] = "open" => (listedAs(reg, s, u, r) <=> <<s, u, r>> \in joined)

\* The room socketRoomState names really lists the socket; so the array of
\* length one that removeSocket drops is the disconnecting socket's own.
RoomStateIsListed ==
  \A s \in Sockets : /\ s \in reg.socketState <=> reg.socketRoomState[s] # undefined
                     /\ \A r \in Rooms : reg.socketRoomState[s] = r => listed(reg, s, r)

\* A socket that joined one room only (under any number of users) leaves
\* nothing in the arrays when it disconnects.
OneRoomSocketsLeaveNoEntry ==
  \A s \in Sockets :
    /\ conn[s] = "closed"
    /\ \A m, n \in joined : m[1] = s /\ n[1] = s => m[3] = n[3]
    => \A r \in Rooms : ~listed(reg, s, r)

\* Whatever room an array exists for has a room state, which startCall and the
\* other call handlers read without a check.
ListedRoomsHaveState ==
  \A r \in Rooms : reg.socketsByRoomId[r] # undefined => r \in reg.roomStatesById

\* No step makes the arrays forget an entry of a socket other than the one that
\* disconnects in it.
RemovalIsOwn ==
  [][\A s \in Sockets, u \in Users, r \in Rooms :
       listedAs(reg, s, u, r) /\ ~listedAs(reg', s, u, r)
       => conn[s] = "open" /\ conn'[s] = "closed"]_vars

\* The comment of removeSocket says it serves "Disconnect or user leave room":
\* a socket that disconnected should be in no room's array.
DisconnectedSocketsAreUnlisted ==
  \A s \in Sockets, r \in Rooms : conn[s] = "closed" => ~listed(reg, s, r)

-----------------------------------------------------------------------------
(* What makes the invariants above inductive, for SocketStateProofs. *)

\* An entry outlives its socket, but never appears without a join.
ListedWereJoined ==
  \A s \in Sockets, u \in Users, r \in Rooms : listedAs(reg, s, u, r) => <<s, u, r>> \in joined

NewSocketsJoinedNothing ==
  \A s \in Sockets, u \in Users, r \in Rooms : conn[s] = "new" => <<s, u, r>> \notin joined

\* removeSocket will find a room to clean for every open socket that joined.
OpenJoinersHaveRoom ==
  \A s \in Sockets, u \in Users, r \in Rooms :
    conn[s] = "open" /\ <<s, u, r>> \in joined => reg.socketRoomState[s] # undefined

IInv == /\ TypeOK
        /\ NoDuplicates
        /\ OpenSocketsListedAsJoined
        /\ RoomStateIsListed
        /\ OneRoomSocketsLeaveNoEntry
        /\ ListedRoomsHaveState
        /\ ListedWereJoined
        /\ NewSocketsJoinedNothing
        /\ OpenJoinersHaveRoom

-----------------------------------------------------------------------------
\* What the registry promises, seen by the sockets: RoomMembership, with an
\* emit to a closed socket counting for nothing.
Members == {m \in Membership : conn[m[1]] = "open" /\ listedAs(reg, m[1], m[2], m[3])}
Abstract == INSTANCE RoomMembership WITH members <- Members
ImplementsRoomMembership == Abstract!Spec
=============================================================================
