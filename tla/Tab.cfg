\* Two tabs, of one user or two, on the same room or not, and two clicks: calls
\* that cross, the caller's second tab, a call during a meeting, and timers, renders and
\* effects between them.  And a room's views, its modals with one name and one member to
\* choose, and its composer with one file.
SPECIFICATION MCSpec
CONSTANTS Clients = {c1, c2}
          Users = {u1, u2}
          Rooms = {r1, r2}
          MaxCalls = 2
          null = null
          firstTab = c1
          firstUser = u1
          firstRoom = r1
          undefined = undefined
          value = value
          MaxAnswers = 2
          Names = {"Team"}
          Members = {carol}
          noName = ""
          unknown = "Unknown"
          Files = {f1}
          Below = 2
INVARIANTS MCTypeOK JoinedCallsAreShown IncomingCallsAreOthers TimersCanBeCleared NothingElseThrows
PROPERTIES WaitingEnds FormsSendWhatTheyShow TypingEnds
CHECK_DEADLOCK FALSE
