SPECIFICATION Spec
CONSTANTS Requests = {p1, p2}
          Users = {u1, u2, u3}
          Rooms = {r1}
          Names = {n1}
          Avatars = {a1}
          newAvatar = newAvatar
          null = null
SYMMETRY Symmetry
INVARIANT NobodyIsInRoomTwice
CHECK_DEADLOCK FALSE
