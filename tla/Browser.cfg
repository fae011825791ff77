\* Two tabs and two users of one browser; three registrations for two names; a list
\* of one room and another that is created.
SPECIFICATION MCSpec
CONSTANTS Tabs = {t1, t2}
          Users = {alice, bob}
          nobody = nobody
          MaxInputs = 5
          Requests = {q1, q2, q3}
          Usernames = {n1, n2}
          Emails = {e1, e2}
          Rooms = {r1, r2}
          FirstRooms = {r1}
          Keywords = {k1, k2}
          none = none
          MaxClicks = 4
INVARIANTS MCTypeOK AccountsAreUnique TabIsOnePerson RowsAreJoined SearchIsOfKeyword
PROPERTIES LogoutForgets
CHECK_DEADLOCK FALSE
