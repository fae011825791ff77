\* Liveness, hence no symmetry: a join and a message, or two joins.
SPECIFICATION FairSpec
CONSTANTS Sockets = {s1, s2}
          Users = {u1}
          Rooms = {r1}
          Instances = {i1, i2}
          Messages = {m1}
          Notices = {}
          Packets = {p1}
          MaxEvents = 2
          undefined = undefined
PROPERTIES MembersGetMessages
CHECK_DEADLOCK FALSE
