SPECIFICATION Spec
CONSTANTS Sockets = {s1, s2}
          Users = {u1, u2}
          Rooms = {r1, r2}
          undefined = undefined
SYMMETRY Symmetry
INVARIANT DisconnectedSocketsAreUnlisted
CHECK_DEADLOCK FALSE
