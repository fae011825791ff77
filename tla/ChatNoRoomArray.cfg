\* A room whose only member is on the other process.
SPECIFICATION Spec
CONSTANTS Sockets = {s1}
          Users = {u1}
          Rooms = {r1}
          Instances = {i1, i2}
          Messages = {}
          Notices = {}
          Packets = {p1}
          MaxEvents = 1
          undefined = undefined
SYMMETRY Symmetry
INVARIANT RoomArrayExists
CHECK_DEADLOCK FALSE
