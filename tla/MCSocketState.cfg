\* Three sockets: two that share a room and one that watches; two users, so that
\* a socket may be listed twice in a room; two rooms, so that one is left behind.
SPECIFICATION Spec
CONSTANTS Sockets = {s1, s2, s3}
          Users = {u1, u2}
          Rooms = {r1, r2}
          undefined = undefined
SYMMETRY Symmetry
INVARIANTS TypeOK NoDuplicates OpenSocketsListedAsJoined RoomStateIsListed
           OneRoomSocketsLeaveNoEntry
PROPERTIES RemovalIsOwn ImplementsRoomMembership
CHECK_DEADLOCK FALSE
