SPECIFICATION Spec
CONSTANTS Clients = {c1, c2}
          Users = {u1, u2}
          Rooms = {r1}
          MaxCalls = 2
          null = null
PROPERTY OneCallPerRoom
CHECK_DEADLOCK FALSE
