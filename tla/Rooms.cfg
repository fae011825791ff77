\* Three users, which make a group, and two more requests that may name them again
\* and change the room's name or avatar.
SPECIFICATION Spec
CONSTANTS Requests = {p1, p2, p3}
          Users = {u1, u2, u3}
          Rooms = {r1}
          Names = {n1, n2}
          Avatars = {a1}
          newAvatar = newAvatar
          null = null
SYMMETRY Symmetry
INVARIANTS TypeOK CacheFollowsRoom InsertedAsAsked
PROPERTIES NoLostUpdate
CHECK_DEADLOCK FALSE
