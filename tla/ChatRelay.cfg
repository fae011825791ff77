\* Two processes that relay to each other, two rooms and users to tell apart, or the
\* overlapping packets of a socket; see Scope.
SPECIFICATION Spec
CONSTANTS Sockets = {s1, s2}
          Users = {u1, u2}
          Rooms = {r1, r2}
          Instances = {i1, i2}
          Messages = {m1}
          Notices = {"startTyping"}
          Packets = {p1, p2}
          MaxEvents = 3
          undefined = undefined
SYMMETRY Symmetry
CONSTRAINT Scope
INVARIANTS TypeOK OnlyMembersReceive NoExtraCopies RedisOrder BroadcastIsStored
PROPERTIES ConsumeReachesMembers ImplementsRoomBroadcast
CHECK_DEADLOCK FALSE
