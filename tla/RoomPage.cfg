\* Two rooms to go between, and more messages than a query answers.
SPECIFICATION MCSpec
CONSTANTS Rooms = {r1, r2}
          undefined = undefined
          Limit = 1
          Past = 2
          MaxInputs = 3
INVARIANTS TypeOK ShownOnce QuietPageIsNewest DetailIsOfRoom
PROPERTIES PageSettles
CHECK_DEADLOCK FALSE
