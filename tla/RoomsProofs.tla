------------------------------ MODULE RoomsProofs ----------------------------
(***************************************************************************)
(* Rooms for any requests, users, rooms and names: its types, that what is *)
(* written is not lost, what is inserted, and what is cached.              *)
(***************************************************************************)
EXTENDS Rooms, FiniteSetTheorems, TLAPS

-----------------------------------------------------------------------------
(* The steps of the methods. *)

Operation == {"save", "inviteUserIntoRoom", "updateRoom", "updateAvatar"}

\* The awaits of each method, one by one.
LEMMA Steps ==
  ASSUME NEW op \in Operation
  PROVE  /\ op = "save" => stepsOf(op) = <<"save", "add">>
         /\ op = "inviteUserIntoRoom" => stepsOf(op) = <<"find", "add", "reread", "cache">>
         /\ op = "updateRoom" => stepsOf(op) = <<"find", "save", "add", "reread", "cache">>
         /\ op = "updateAvatar" => stepsOf(op) = <<"find", "save", "cache">>
         /\ Len(stepsOf(op)) \in 2..5
<1>1. CASE op = "save"  BY <1>1 DEF stepsOf
<1>2. CASE op = "inviteUserIntoRoom"  BY <1>2 DEF stepsOf
<1>3. CASE op = "updateRoom"  BY <1>3 DEF stepsOf
<1>4. CASE op = "updateAvatar"  BY <1>4 DEF stepsOf
<1>. QED
  BY <1>1, <1>2, <1>3, <1>4 DEF Operation

\* Which await is the i-th.
LEMMA Positions ==
  ASSUME NEW op \in Operation, NEW i \in 1..6, i <= Len(stepsOf(op))
  PROVE  LET s == stepsOf(op)[i] IN
         /\ s = "find" <=> i = 1 /\ op # "save"
         /\ s = "save" <=> \/ i = 1 /\ op = "save"
                           \/ i = 2 /\ op \in {"updateRoom", "updateAvatar"}
         /\ s = "add" <=> \/ i = 2 /\ op \in {"save", "inviteUserIntoRoom"}
                          \/ i = 3 /\ op = "updateRoom"
         /\ s = "reread" <=> \/ i = 3 /\ op = "inviteUserIntoRoom"
                             \/ i = 4 /\ op = "updateRoom"
         /\ s = "cache" <=> op # "save" /\ i = Len(stepsOf(op))
<1>1. CASE op = "save"
  <2>1. stepsOf(op) = <<"save", "add">>  BY <1>1, Steps
  <2>2. /\ Len(stepsOf(op)) = 2 /\ stepsOf(op)[1] = "save" /\ stepsOf(op)[2] = "add"
    BY <2>1
  <2>3. i = 1 \/ i = 2
    BY <2>2
  <2>. QED
    BY <1>1, <2>2, <2>3
<1>2. CASE op = "inviteUserIntoRoom"
  <2>1. stepsOf(op) = <<"find", "add", "reread", "cache">>  BY <1>2, Steps
  <2>2. /\ Len(stepsOf(op)) = 4 /\ stepsOf(op)[1] = "find" /\ stepsOf(op)[2] = "add"
        /\ stepsOf(op)[3] = "reread" /\ stepsOf(op)[4] = "cache"
    BY <2>1
  <2>3. i = 1 \/ i = 2 \/ i = 3 \/ i = 4
    BY <2>2
  <2>. QED
    BY <1>2, <2>2, <2>3
<1>3. CASE op = "updateRoom"
  <2>1. stepsOf(op) = <<"find", "save", "add", "reread", "cache">>  BY <1>3, Steps
  <2>2. /\ Len(stepsOf(op)) = 5 /\ stepsOf(op)[1] = "find" /\ stepsOf(op)[2] = "save"
        /\ stepsOf(op)[3] = "add" /\ stepsOf(op)[4] = "reread" /\ stepsOf(op)[5] = "cache"
    BY <2>1
  <2>3. i = 1 \/ i = 2 \/ i = 3 \/ i = 4 \/ i = 5
    BY <2>2
  <2>. QED
    BY <1>3, <2>2, <2>3
<1>4. CASE op = "updateAvatar"
  <2>1. stepsOf(op) = <<"find", "save", "cache">>  BY <1>4, Steps
  <2>2. /\ Len(stepsOf(op)) = 3 /\ stepsOf(op)[1] = "find" /\ stepsOf(op)[2] = "save"
        /\ stepsOf(op)[3] = "cache"
    BY <2>1
  <2>3. i = 1 \/ i = 2 \/ i = 3
    BY <2>2
  <2>. QED
    BY <1>4, <2>2, <2>3
<1>. QED
  BY <1>1, <1>2, <1>3, <1>4 DEF Operation

LEMMA Operations ==
  ASSUME NEW q \in Request
  PROVE  /\ q.op \in Operation
         /\ q.pc \in 1..6 /\ q.roomId \in Rooms
         /\ q.doc \in Room \cup {null} /\ q.userIds \in SUBSET Users
         /\ q.name \in Names \cup {null} /\ q.avatarUrl \in Avatars \cup {null}
BY DEF Request, Operation

\* Where a request is when it is at a step.
LEMMA At ==
  ASSUME TypeOK, NEW p \in Requests, inProgress(p)
  PROVE  /\ req[p] \in Request
         /\ req[p].pc \in 1..5 /\ req[p].pc <= Len(stepsOf(req[p].op))
         /\ at(p, "find") <=> req[p].pc = 1 /\ req[p].op # "save"
         /\ at(p, "save") <=> \/ req[p].pc = 1 /\ req[p].op = "save"
                              \/ req[p].pc = 2 /\ req[p].op \in {"updateRoom", "updateAvatar"}
         /\ at(p, "add") <=> \/ req[p].pc = 2 /\ req[p].op \in {"save", "inviteUserIntoRoom"}
                             \/ req[p].pc = 3 /\ req[p].op = "updateRoom"
         /\ at(p, "reread") <=> \/ req[p].pc = 3 /\ req[p].op = "inviteUserIntoRoom"
                                \/ req[p].pc = 4 /\ req[p].op = "updateRoom"
         /\ at(p, "cache") <=> req[p].op # "save" /\ req[p].pc = Len(stepsOf(req[p].op))
<1>1. req[p] \in Request /\ req[p].pc <= Len(stepsOf(req[p].op))
  BY DEF TypeOK, inProgress
<1>2. req[p].op \in Operation /\ req[p].pc \in 1..6
  BY <1>1, Operations
<1>3. Len(stepsOf(req[p].op)) \in 2..5
  BY <1>2, Steps
<1>4. \A s : at(p, s) <=> stepsOf(req[p].op)[req[p].pc] = s
  BY DEF at
<1>5. req[p].pc \in 1..5
  <2> DEFINE n == Len(stepsOf(req[p].op))
             i == req[p].pc
  <2>1. n \in 2..5 /\ i \in 1..6 /\ i <= n
    BY <1>1, <1>2, <1>3
  <2>. HIDE DEF n, i
  <2>2. i \in 1..5
    BY <2>1
  <2>. QED
    BY <2>2 DEF i
<1>6. ASSUME NEW o, NEW i, o = req[p].op, i = req[p].pc
      PROVE  LET s == stepsOf(o)[i] IN
             /\ s = "find" <=> i = 1 /\ o # "save"
             /\ s = "save" <=> \/ i = 1 /\ o = "save"
                               \/ i = 2 /\ o \in {"updateRoom", "updateAvatar"}
             /\ s = "add" <=> \/ i = 2 /\ o \in {"save", "inviteUserIntoRoom"}
                              \/ i = 3 /\ o = "updateRoom"
             /\ s = "reread" <=> \/ i = 3 /\ o = "inviteUserIntoRoom"
                                 \/ i = 4 /\ o = "updateRoom"
             /\ s = "cache" <=> o # "save" /\ i = Len(stepsOf(o))
  <2>1. o \in Operation /\ i \in 1..6 /\ i <= Len(stepsOf(o))
    BY <1>1, <1>2, <1>6
  <2>. QED
    BY <2>1, Positions
<1>. QED
  BY <1>1, <1>4, <1>5, <1>6

LEMMA LastIsLate ==
  ASSUME TypeOK, NEW p \in Requests, inProgress(p), at(p, "cache")
  PROVE  req[p].pc > 1
<1> DEFINE n == Len(stepsOf(req[p].op))
<1>1. n \in 2..5 /\ req[p].pc = n
  BY At, Operations, Steps
<1>. HIDE DEF n
<1>. QED
  BY <1>1

\* A request that goes on is the same request, one step further.
LEMMA Advance ==
  ASSUME TypeOK, NEW p \in Requests, inProgress(p), NEW d \in Room \cup {null}, advance(p, d)
  PROVE  /\ req' \in [Requests -> Request \cup {null}]
         /\ req'[p] \in Request /\ req'[p] # null
         /\ req'[p].op = req[p].op /\ req'[p].roomId = req[p].roomId
         /\ req'[p].userIds = req[p].userIds
         /\ req'[p].name = req[p].name /\ req'[p].avatarUrl = req[p].avatarUrl
         /\ req'[p].pc = req[p].pc + 1 /\ req'[p].doc = d
         /\ \A q \in Requests \ {p} : req'[q] = req[q]
<1> DEFINE n == req[p].pc + 1
           v == [req[p] EXCEPT !.pc = n, !.doc = d]
<1>1. req[p] \in Request /\ req[p].pc \in 1..5
  BY At
<1>2. req' = [req EXCEPT ![p] = v]
  BY <1>1 DEF advance, TypeOK
<1>3. n \in 1..6
  BY <1>1
<1>4. n = req[p].pc + 1
  OBVIOUS
<1>. HIDE DEF n
<1>5. /\ v \in Request /\ v.op = req[p].op /\ v.roomId = req[p].roomId
      /\ v.userIds = req[p].userIds
      /\ v.name = req[p].name /\ v.avatarUrl = req[p].avatarUrl
      /\ v.pc = n /\ v.doc = d
  BY <1>1, <1>3 DEF Request
<1>. HIDE DEF v
<1>. QED
  BY <1>2, <1>4, <1>5, RoomsAssumption DEF TypeOK

\* A request that is answered with an error is at its end.
LEMMA Ended ==
  ASSUME NEW q \in Request
  PROVE  /\ ended(q) \in Request
         /\ ended(q).op = q.op /\ ended(q).roomId = q.roomId /\ ended(q).userIds = q.userIds
         /\ ended(q).name = q.name /\ ended(q).avatarUrl = q.avatarUrl
         /\ ended(q).pc = Len(stepsOf(q.op)) + 1 /\ ended(q).pc > 1 /\ ended(q).doc = q.doc
<1> DEFINE m == Len(stepsOf(q.op))
           n == m + 1
<1>0. m \in 2..5
  BY Operations, Steps
<1>. HIDE DEF m
<1>1. n \in 1..6 /\ n > 1
  BY <1>0
<1>. HIDE DEF n
<1>2. ended(q) = [q EXCEPT !.pc = n]
  BY DEF ended, n, m
<1>3. /\ ended(q) \in Request /\ ended(q).pc = n
      /\ ended(q).op = q.op /\ ended(q).roomId = q.roomId /\ ended(q).userIds = q.userIds
      /\ ended(q).name = q.name /\ ended(q).avatarUrl = q.avatarUrl /\ ended(q).doc = q.doc
  BY <1>1, <1>2 DEF Request
<1>. QED
  BY <1>1, <1>3 DEF n, m

LEMMA Ends ==
  ASSUME TypeOK, NEW p \in Requests, inProgress(p), req' = [req EXCEPT ![p] = ended(@)]
  PROVE  /\ req' \in [Requests -> Request \cup {null}]
         /\ req'[p] = ended(req[p]) /\ req'[p] \in Request /\ req'[p] # null
         /\ ~ inProgress(p)'
         /\ \A q \in Requests \ {p} : req'[q] = req[q]
<1>1. req[p] \in Request
  BY DEF TypeOK, inProgress
<1>2. ended(req[p]) \in Request /\ ended(req[p]) # null
  BY <1>1, Ended, RoomsAssumption
<1>3. /\ req'[p] = ended(req[p])
      /\ \A q \in Requests \ {p} : req'[q] = req[q]
      /\ req' \in [Requests -> Request \cup {null}]
  BY <1>2 DEF TypeOK
<1>4. ~ inProgress(p)'
  <2> DEFINE m == Len(stepsOf(req[p].op))
  <2>1. m \in 2..5
    BY <1>1, Operations, Steps
  <2>2. req'[p].op = req[p].op /\ req'[p].pc = m + 1
    BY <1>1, <1>3, Ended
  <2>3. inProgress(p)' => m + 1 <= m
    BY <2>2 DEF inProgress
  <2>. HIDE DEF m
  <2>. QED
    BY <2>1, <2>3
<1>. QED
  BY <1>2, <1>3, <1>4

-----------------------------------------------------------------------------
(* What a save writes. *)

LEMMA Changed ==
  ASSUME NEW q \in Request, NEW d \in Room \cup {null},
         q.op \in {"save", "updateRoom", "updateAvatar"},
         q.op \in {"save", "updateRoom"} => q.name # null,
         q.op = "updateAvatar" => q.avatarUrl # null,
         q.op # "save" => d # null
  PROVE  /\ changed(q, d) \in Room
         /\ q.op = "updateRoom" => changed(q, d).avatarUrl = d.avatarUrl
         /\ q.op = "updateAvatar" => changed(q, d).name = d.name
<1>1. q.name \in Names \cup {null} /\ q.avatarUrl \in Avatars \cup {null}
  BY Operations
<1>2. CASE q.op = "save"
  <2> DEFINE g == Cardinality(q.userIds) > 2
  <2>1. g \in BOOLEAN /\ q.name \in Names
    BY <1>1, <1>2
  <2>2. changed(q, d) = [name |-> q.name, isGroup |-> g, avatarUrl |-> newAvatar]
    BY <1>2 DEF changed
  <2>. HIDE DEF g
  <2>. QED
    BY <1>2, <2>1, <2>2 DEF Room
<1>3. CASE q.op = "updateRoom"
  <2>1. d \in Room /\ q.name \in Names
    BY <1>1, <1>3
  <2>2. changed(q, d) = [d EXCEPT !.name = q.name]
    BY <1>3 DEF changed
  <2>. QED
    BY <1>3, <2>1, <2>2 DEF Room
<1>4. CASE q.op = "updateAvatar"
  <2>1. d \in Room /\ q.avatarUrl \in Avatars
    BY <1>1, <1>4
  <2>2. changed(q, d) = [d EXCEPT !.avatarUrl = q.avatarUrl]
    BY <1>4 DEF changed
  <2>. QED
    BY <1>4, <2>1, <2>2 DEF Room
<1>. QED
  BY <1>2, <1>3, <1>4

LEMMA Saves ==
  ASSUME IInv, NEW p \in Requests, Save(p)
  PROVE  LET q == req[p]
             d == changed(q, q.doc)
             w == changed(q, rooms[q.roomId])
         IN /\ inProgress(p) /\ q \in Request /\ q.roomId \in Rooms
            /\ d \in Room /\ advance(p, d)
            /\ rooms' = [rooms EXCEPT ![q.roomId] = w] /\ w \in Room
            /\ \/ q.op = "save" /\ q.pc = 1
               \/ /\ q.op \in {"updateRoom", "updateAvatar"} /\ q.pc = 2
                  /\ q.doc # null /\ rooms[q.roomId] # null
            /\ q.op = "updateRoom" => w.avatarUrl = rooms[q.roomId].avatarUrl
            /\ q.op = "updateAvatar" => w.name = rooms[q.roomId].name
<1> DEFINE q == req[p]
<1>1. inProgress(p) /\ q # null /\ at(p, "save")
  BY DEF Save, at, inProgress
<1>2. /\ q \in Request
      /\ \/ q.op = "save" /\ q.pc = 1
         \/ q.op \in {"updateRoom", "updateAvatar"} /\ q.pc = 2
  BY <1>1, At DEF IInv
<1>3. /\ q.roomId \in Rooms /\ q.doc \in Room \cup {null}
  BY <1>2, Operations
<1>4. q.op # "save" => q.doc # null /\ rooms[q.roomId] # null
  <2>1. q.op # "save" => q.pc > 1
    BY <1>2
  <2>. QED
    BY <1>1, <2>1 DEF IInv, HeldRoomsExist
<1>5. /\ q.op \in {"save", "updateRoom"} => q.name # null
      /\ q.op = "updateAvatar" => q.avatarUrl # null
  BY <1>1 DEF IInv, ArgumentsFit
<1>6. rooms[q.roomId] \in Room \cup {null} /\ q.op \in {"save", "updateRoom", "updateAvatar"}
  BY <1>2, <1>3 DEF IInv, TypeOK
<1>7. /\ rooms' = [rooms EXCEPT ![q.roomId] = changed(q, rooms[q.roomId])]
      /\ advance(p, changed(q, q.doc))
  BY <1>3 DEF Save, written, IInv, TypeOK
<1>. HIDE DEF q
<1>8. /\ changed(q, q.doc) \in Room
      /\ changed(q, rooms[q.roomId]) \in Room
      /\ q.op = "updateRoom" =>
           changed(q, rooms[q.roomId]).avatarUrl = rooms[q.roomId].avatarUrl
      /\ q.op = "updateAvatar" => changed(q, rooms[q.roomId]).name = rooms[q.roomId].name
  BY <1>2, <1>3, <1>4, <1>5, <1>6, Changed
<1>. QED
  BY <1>1, <1>2, <1>3, <1>4, <1>7, <1>8 DEF q

-----------------------------------------------------------------------------
(* What a step of the system may do to a request. *)

Evolved(x, y) ==
  x # null => /\ y # null
              /\ y.op = x.op /\ y.roomId = x.roomId /\ y.userIds = x.userIds
              /\ y.name = x.name /\ y.avatarUrl = x.avatarUrl
              /\ y.pc >= x.pc \/ y.pc = Len(stepsOf(x.op)) + 1
              /\ x.doc # null => y.doc # null

ArrivesNow(p) ==
  \E op \in Operation, r \in Rooms, us \in SUBSET Users, n \in Names \cup {null},
     a \in Avatars \cup {null} : Arrives(p, op, r, us, n, a)

\* A request keeps its arguments, goes on or ends, and goes on to hold a document.
LEMMA Evolves ==
  ASSUME IInv, Next
  PROVE  /\ req' \in [Requests -> Request \cup {null}]
         /\ \A q \in Requests : Evolved(req[q], req'[q])
         /\ \A q \in Requests : req[q] = null /\ req'[q] # null => ArrivesNow(q)
<1> USE DEF IInv
<1>. TypeOK /\ req \in [Requests -> Request \cup {null}]
  BY DEF TypeOK
<1>0. ASSUME NEW q \in Requests
      PROVE  Evolved(req[q], req[q])
  <2>1. req[q] # null => req[q] \in Request
    OBVIOUS
  <2>2. req[q] # null => req[q].pc \in 1..6
    BY <2>1, Operations
  <2>3. req[q] # null => req[q].pc >= req[q].pc
    BY <2>2
  <2>. QED
    BY <2>3 DEF Evolved
<1>1. ASSUME NEW p \in Requests, inProgress(p), NEW d \in Room \cup {null}, advance(p, d),
             req[p].doc # null => d # null
      PROVE  /\ req' \in [Requests -> Request \cup {null}]
             /\ \A q \in Requests : Evolved(req[q], req'[q])
             /\ \A q \in Requests : req[q] = null => req'[q] = null
  <2>1. /\ req' \in [Requests -> Request \cup {null}]
        /\ Evolved(req[p], req'[p])
        /\ \A q \in Requests \ {p} : req'[q] = req[q]
    <3>1. req[p].pc \in 1..5
      BY <1>1, At
    <3>2. req[p].pc + 1 >= req[p].pc
      BY <3>1
    <3>. QED
      BY <1>1, <3>2, Advance DEF Evolved
  <2>2. req[p] # null
    BY <1>1 DEF inProgress
  <2>. QED
    BY <1>0, <2>1, <2>2
<1>2. ASSUME NEW p \in Requests, inProgress(p), req' = [req EXCEPT ![p] = ended(@)]
      PROVE  /\ req' \in [Requests -> Request \cup {null}]
             /\ \A q \in Requests : Evolved(req[q], req'[q])
             /\ \A q \in Requests : req[q] = null => req'[q] = null
  <2>0. req[p] # null /\ req[p] \in Request /\ req[p].pc <= Len(stepsOf(req[p].op))
    BY <1>2 DEF inProgress
  <2>1. /\ req' \in [Requests -> Request \cup {null}]
        /\ req'[p] = ended(req[p]) /\ req'[p] # null
        /\ \A q \in Requests \ {p} : req'[q] = req[q]
    BY <1>2, Ends
  <2>2. Evolved(req[p], req'[p])
    BY <2>0, <2>1, Ended DEF Evolved
  <2>. QED
    BY <1>0, <2>0, <2>1, <2>2
<1>3. ASSUME UNCHANGED req
      PROVE  /\ req' \in [Requests -> Request \cup {null}]
             /\ \A q \in Requests : Evolved(req[q], req'[q])
             /\ \A q \in Requests : req[q] = null => req'[q] = null
  BY <1>0, <1>3
<1>4. ASSUME NEW p \in Requests,
             NEW op \in Operation, NEW r \in Rooms, NEW us \in SUBSET Users,
             NEW n \in Names \cup {null}, NEW a \in Avatars \cup {null}, Arrives(p, op, r, us, n, a)
      PROVE  /\ req' \in [Requests -> Request \cup {null}]
             /\ \A q \in Requests : Evolved(req[q], req'[q])
             /\ \A q \in Requests : req[q] = null /\ req'[q] # null => ArrivesNow(q)
  <2> DEFINE v == [op |-> op, roomId |-> r, userIds |-> us, name |-> n,
                   avatarUrl |-> a, pc |-> 1, doc |-> null]
  <2>1. v \in Request
    BY DEF Request, Operation
  <2>2. req[p] = null /\ req' = [req EXCEPT ![p] = v]
    BY <1>4 DEF Arrives
  <2>. HIDE DEF v
  <2>3. /\ req' \in [Requests -> Request \cup {null}]
        /\ req'[p] = v
        /\ \A q \in Requests \ {p} : req'[q] = req[q]
    BY <2>1, <2>2
  <2>4. Evolved(req[p], req'[p])
    BY <2>2 DEF Evolved
  <2>5. ArrivesNow(p)
    BY <1>4 DEF ArrivesNow
  <2>. QED
    BY <1>0, <2>3, <2>4, <2>5
<1>5. ASSUME NEW p \in Requests, Find(p)
      PROVE  /\ req' \in [Requests -> Request \cup {null}]
             /\ \A q \in Requests : Evolved(req[q], req'[q])
             /\ \A q \in Requests : req[q] = null => req'[q] = null
  <2>1. inProgress(p)
    BY <1>5 DEF Find, at
  <2>2. CASE mayGoOn(req[p]) /\ advance(p, rooms[req[p].roomId])
    <3>1. rooms[req[p].roomId] \in Room \cup {null} /\ rooms[req[p].roomId] # null
      BY <2>1, <2>2, At, Operations DEF mayGoOn, found, TypeOK
    <3>. QED
      BY <1>1, <2>1, <2>2, <3>1
  <2>3. CASE req' = [req EXCEPT ![p] = ended(@)]
    BY <1>2, <2>1, <2>3
  <2>. QED
    BY <1>5, <2>2, <2>3 DEF Find
<1>6. ASSUME NEW p \in Requests, Save(p)
      PROVE  /\ req' \in [Requests -> Request \cup {null}]
             /\ \A q \in Requests : Evolved(req[q], req'[q])
             /\ \A q \in Requests : req[q] = null => req'[q] = null
  <2>1. /\ inProgress(p) /\ changed(req[p], req[p].doc) \in Room
        /\ advance(p, changed(req[p], req[p].doc))
    BY <1>6, Saves
  <2>. QED
    BY <1>1, <2>1, RoomsAssumption
<1>7. ASSUME NEW p \in Requests, AddUsers(p) \/ SetCache(p)
      PROVE  /\ req' \in [Requests -> Request \cup {null}]
             /\ \A q \in Requests : Evolved(req[q], req'[q])
             /\ \A q \in Requests : req[q] = null => req'[q] = null
  <2>1. inProgress(p) /\ advance(p, req[p].doc)
    BY <1>7 DEF AddUsers, SetCache, at
  <2>2. req[p].doc \in Room \cup {null}
    BY <2>1, At, Operations
  <2>. QED
    BY <1>1, <2>1, <2>2
<1>8. ASSUME NEW p \in Requests, Reread(p)
      PROVE  /\ req' \in [Requests -> Request \cup {null}]
             /\ \A q \in Requests : Evolved(req[q], req'[q])
             /\ \A q \in Requests : req[q] = null => req'[q] = null
  <2>1. inProgress(p) /\ at(p, "reread") /\ advance(p, rooms[req[p].roomId])
    BY <1>8 DEF Reread, at
  <2>2. req[p].pc > 1 /\ req[p] \in Request
    BY <2>1, At
  <2>3. rooms[req[p].roomId] \in Room \cup {null} /\ rooms[req[p].roomId] # null
    BY <2>1, <2>2, Operations DEF HeldRoomsExist, TypeOK
  <2>. QED
    BY <1>1, <2>1, <2>3
<1>9. ASSUME NEW p \in Requests, Fails(p)
      PROVE  /\ req' \in [Requests -> Request \cup {null}]
             /\ \A q \in Requests : Evolved(req[q], req'[q])
             /\ \A q \in Requests : req[q] = null => req'[q] = null
  <2>1. inProgress(p)
    BY <1>9 DEF Fails, at
  <2>. QED
    BY <1>2, <1>9, <2>1 DEF Fails
<1>10. ASSUME Crash
       PROVE  /\ req' \in [Requests -> Request \cup {null}]
              /\ \A q \in Requests : Evolved(req[q], req'[q])
              /\ \A q \in Requests : req[q] = null => req'[q] = null
  <2>1. req' = [p \in Requests |-> IF req[p] = null THEN null ELSE ended(req[p])]
    BY <1>10 DEF Crash
  <2>2. ASSUME NEW q \in Requests, req[q] # null
        PROVE  /\ req'[q] = ended(req[q]) /\ ended(req[q]) \in Request
               /\ Evolved(req[q], req'[q])
    <3>1. req[q] \in Request /\ req'[q] = ended(req[q])
      BY <2>1, <2>2
    <3>2. req[q].pc \in 1..6
      BY <3>1, Operations
    <3>. QED
      BY <3>1, <3>2, Ended, RoomsAssumption DEF Evolved
  <2>3. \A q \in Requests : req[q] = null => req'[q] = null
    BY <2>1
  <2>. QED
    BY <2>1, <2>2, <2>3 DEF Evolved
<1>. QED
  BY <1>3, <1>4, <1>5, <1>6, <1>7, <1>8, <1>9, <1>10 DEF Next, Operation, InsertMany, Delete, vars

LEMMA Arrived ==
  ASSUME IInv, Next, NEW p \in Requests, req[p] = null, req'[p] # null
  PROVE  /\ req'[p].pc = 1 /\ req'[p].doc = null
         /\ req'[p].op \in {"save", "updateRoom"} => req'[p].name # null
         /\ req'[p].op = "updateAvatar" => req'[p].avatarUrl # null
         /\ req'[p].op = "save" =>
              \A q \in Requests : req[q] # null => req[q].roomId # req'[p].roomId
         /\ \A q \in Requests \ {p} : req'[q] = req[q]
         /\ \A q \in Requests : inProgress(q) /\ req[q].roomId = req'[p].roomId
                               => req'[p].roomId \in disturbed'
         /\ disturbed \subseteq disturbed'
         /\ UNCHANGED <<rooms, participants, inserts, cache>>
<1>1. PICK op \in Operation, r \in Rooms, us \in SUBSET Users, n \in Names \cup {null},
           a \in Avatars \cup {null} : Arrives(p, op, r, us, n, a)
  BY Evolves DEF ArrivesNow
<1> DEFINE v == [op |-> op, roomId |-> r, userIds |-> us, name |-> n,
                 avatarUrl |-> a, pc |-> 1, doc |-> null]
<1>2. req' = [req EXCEPT ![p] = v] /\ req \in [Requests -> Request \cup {null}]
  BY <1>1 DEF Arrives, IInv, TypeOK
<1>3. v.op = op /\ v.roomId = r /\ v.name = n /\ v.avatarUrl = a /\ v.pc = 1 /\ v.doc = null
  OBVIOUS
<1>. HIDE DEF v
<1>4. /\ req'[p] = v
      /\ \A q \in Requests \ {p} : req'[q] = req[q]
  BY <1>2
<1>. QED
  BY <1>1, <1>3, <1>4 DEF Arrives

\* A request changes in a step of its own, or when the process exits.
LEMMA Acts ==
  ASSUME IInv, Next, NEW p \in Requests, req[p] # null
  PROVE  \/ req'[p] = req[p]
         \/ Find(p) \/ Save(p) \/ AddUsers(p) \/ Reread(p) \/ SetCache(p) \/ Fails(p)
         \/ Crash
<1>. TypeOK /\ req \in [Requests -> Request \cup {null}]
  BY DEF IInv, TypeOK
<1>2. ASSUME NEW q \in Requests, inProgress(q),
             NEW d \in Room \cup {null}, advance(q, d), q # p
      PROVE  req'[p] = req[p]
  BY <1>2, Advance
<1>3. ASSUME NEW q \in Requests, inProgress(q), req' = [req EXCEPT ![q] = ended(@)], q # p
      PROVE  req'[p] = req[p]
  BY <1>3, Ends
<1>4. ASSUME NEW q \in Requests, Find(q), q # p
      PROVE  req'[p] = req[p]
  <2>1. inProgress(q)
    BY <1>4 DEF Find, at
  <2>2. rooms[req[q].roomId] \in Room \cup {null}
    BY <2>1, At, Operations DEF IInv, TypeOK
  <2>. QED
    BY <1>2, <1>3, <1>4, <2>1, <2>2 DEF Find
<1>5. ASSUME NEW q \in Requests, Save(q), q # p
      PROVE  req'[p] = req[p]
  <2>1. /\ inProgress(q) /\ changed(req[q], req[q].doc) \in Room
        /\ advance(q, changed(req[q], req[q].doc))
    BY <1>5, Saves
  <2>. QED
    BY <1>2, <1>5, <2>1
<1>6. ASSUME NEW q \in Requests, AddUsers(q) \/ SetCache(q) \/ Reread(q), q # p
      PROVE  req'[p] = req[p]
  <2>1. inProgress(q)
    BY <1>6 DEF AddUsers, SetCache, Reread, at
  <2>2. req[q].doc \in Room \cup {null} /\ rooms[req[q].roomId] \in Room \cup {null}
    BY <2>1, At, Operations DEF IInv, TypeOK
  <2>. QED
    BY <1>2, <1>6, <2>1, <2>2 DEF AddUsers, SetCache, Reread
<1>7. ASSUME NEW q \in Requests, Fails(q), q # p
      PROVE  req'[p] = req[p]
  BY <1>3, <1>7 DEF Fails, at
<1>8. ASSUME NEW q \in Requests, ArrivesNow(q)
      PROVE  req'[p] = req[p]
  <2>1. q # p /\ \E v : req' = [req EXCEPT ![q] = v]
    BY <1>8 DEF ArrivesNow, Arrives
  <2>. QED
    BY <2>1
<1>. QED
  BY <1>4, <1>5, <1>6, <1>7, <1>8 DEF Next, ArrivesNow, Operation, InsertMany, Delete, vars

\* A request that is in progress after a step went on, if it took a step.
LEMMA Moved ==
  ASSUME IInv, Next, NEW p \in Requests, req[p] # null, inProgress(p)'
  PROVE  /\ inProgress(p)
         /\ \/ req'[p] = req[p]
            \/ /\ Find(p) /\ advance(p, rooms[req[p].roomId])
               /\ rooms[req[p].roomId] # null
            \/ Save(p) \/ AddUsers(p) \/ Reread(p) \/ SetCache(p)
<1>. TypeOK /\ req \in [Requests -> Request \cup {null}]
  BY DEF IInv, TypeOK
<1>1. ASSUME req'[p] = req[p]
      PROVE  inProgress(p)
  BY <1>1 DEF inProgress
<1>2. ASSUME Find(p) \/ Fails(p)
      PROVE  /\ Find(p) /\ advance(p, rooms[req[p].roomId])
             /\ rooms[req[p].roomId] # null
  <2>1. inProgress(p)
    BY <1>2 DEF Find, Fails, at
  <2>2. ~ req' = [req EXCEPT ![p] = ended(@)]
    BY <2>1, Ends
  <2>. QED
    BY <1>2, <2>2 DEF Find, Fails, mayGoOn, found
<1>3. ~ Crash
  <2>1. SUFFICES ASSUME Crash
                 PROVE  FALSE
    OBVIOUS
  <2>2. req[p] \in Request /\ req'[p] = ended(req[p])
    BY <2>1 DEF Crash
  <2> DEFINE m == Len(stepsOf(req[p].op))
  <2>3. m \in 2..5
    BY <2>2, Operations, Steps
  <2>4. req'[p].op = req[p].op /\ req'[p].pc = m + 1
    BY <2>2, Ended
  <2>5. m + 1 <= m
    BY <2>4 DEF inProgress
  <2>. HIDE DEF m
  <2>. QED
    BY <2>3, <2>5
<1>4. \/ req'[p] = req[p]
      \/ /\ Find(p) /\ advance(p, rooms[req[p].roomId])
         /\ rooms[req[p].roomId] # null
      \/ Save(p) \/ AddUsers(p) \/ Reread(p) \/ SetCache(p)
  BY <1>2, <1>3, Acts
<1>. QED
  BY <1>1, <1>4 DEF Find, Save, AddUsers, Reread, SetCache, at

\* A request is not done when it has saved, or has read the room again.
LEMMA GoesOn ==
  ASSUME TypeOK, NEW p \in Requests, inProgress(p), NEW d \in Room \cup {null}, advance(p, d),
         \/ at(p, "save")
         \/ at(p, "add") /\ req[p].op # "save"
         \/ at(p, "reread")
  PROVE  inProgress(p)' /\ req'[p].pc > 1
<1> DEFINE n == Len(stepsOf(req[p].op))
           i == req[p].pc
<1>1. n \in 2..5 /\ i \in 1..5 /\ req[p].op \in Operation
  BY At, Operations, Steps
<1>2. /\ req[p].op = "save" => n = 2
      /\ req[p].op = "inviteUserIntoRoom" => n = 4
      /\ req[p].op = "updateRoom" => n = 5
      /\ req[p].op = "updateAvatar" => n = 3
  BY <1>1, Steps
<1>3. \/ req[p].op = "save" /\ i = 1
      \/ req[p].op \in {"updateRoom", "updateAvatar"} /\ i = 2
      \/ req[p].op = "inviteUserIntoRoom" /\ i \in {2, 3}
      \/ req[p].op = "updateRoom" /\ i \in {3, 4}
  BY At
<1>4. req'[p] # null /\ req'[p].op = req[p].op /\ req'[p].pc = i + 1
  BY Advance
<1>5. inProgress(p)' <=> i + 1 <= n
  BY <1>4 DEF inProgress
<1>. HIDE DEF n, i
<1>6. i + 1 <= n /\ i + 1 > 1
  BY <1>1, <1>2, <1>3
<1>. QED
  BY <1>4, <1>5, <1>6

\* Only a save changes a room, and none takes one away.
LEMMA RoomsStay ==
  ASSUME IInv, Next
  PROVE  /\ rooms' \in [Rooms -> Room \cup {null}]
         /\ \A r \in Rooms : rooms[r] # null => rooms'[r] # null
         /\ \A r \in Rooms : rooms'[r] # rooms[r] =>
              \E p \in Requests : Save(p) /\ req[p].roomId = r
<1>. rooms \in [Rooms -> Room \cup {null}]
  BY DEF IInv, TypeOK
<1>1. ASSUME NEW p \in Requests, Save(p)
      PROVE  /\ rooms' \in [Rooms -> Room \cup {null}]
             /\ \A r \in Rooms : rooms[r] # null => rooms'[r] # null
             /\ \A r \in Rooms : rooms'[r] # rooms[r] => req[p].roomId = r
  <2> DEFINE w == changed(req[p], rooms[req[p].roomId])
  <2>1. /\ req[p].roomId \in Rooms /\ w \in Room
        /\ rooms' = [rooms EXCEPT ![req[p].roomId] = w]
    BY <1>1, Saves
  <2>. HIDE DEF w
  <2>. QED
    BY <2>1, RoomsAssumption
<1>2. ASSUME ~ \E p \in Requests : Save(p)
      PROVE  rooms' = rooms
  BY <1>2 DEF Next, Arrives, Find, AddUsers, Reread, SetCache, Fails, InsertMany, Crash, Delete, vars
<1>. QED
  BY <1>1, <1>2

-----------------------------------------------------------------------------
(* The invariant is kept, part by part. *)

LEMMA TypesAreKept ==
  ASSUME IInv, Next
  PROVE  TypeOK'
<1>. TypeOK
  BY DEF IInv
<1>1. req' \in [Requests -> Request \cup {null}] /\ rooms' \in [Rooms -> Room \cup {null}]
  BY Evolves, RoomsStay
<1>2. inserts' \in SUBSET Requests
  BY DEF TypeOK, Next, Arrives, Find, Save, AddUsers, Reread, SetCache, Fails, InsertMany,
         remaining, Crash, Delete, vars
<1>3. disturbed' \in SUBSET Rooms
  <2>1. ASSUME NEW p \in Requests, Fails(p)
        PROVE  disturbed' \in SUBSET Rooms
    <3>1. inProgress(p)
      BY <2>1 DEF Fails, at
    <3>2. req[p].roomId \in Rooms
      BY <3>1, At, Operations
    <3>. QED
      BY <2>1, <3>2 DEF Fails, TypeOK
  <2>2. ASSUME ~ \E p \in Requests : Fails(p)
        PROVE  disturbed' \in SUBSET Rooms
    BY <2>2 DEF TypeOK, Next, Arrives, Find, Save, AddUsers, Reread, SetCache, InsertMany,
                Crash, Delete, vars
  <2>. QED
    BY <2>1, <2>2
<1>4. participants' \in [Users \X Rooms -> Nat]
  <2>1. ASSUME NEW p \in Requests, InsertMany(p)
        PROVE  participants' \in [Users \X Rooms -> Nat]
    <3>1. \A m \in Users \X Rooms : participants[m] \in Nat /\ participants[m] + 1 \in Nat
      BY DEF TypeOK
    <3>. QED
      BY <2>1, <3>1 DEF InsertMany
  <2>2. ASSUME ~ \E p \in Requests : InsertMany(p)
        PROVE  participants' = participants
    BY <2>2 DEF Next, Arrives, Find, Save, AddUsers, Reread, SetCache, Fails, Crash, Delete, vars
  <2>. QED
    BY <2>1, <2>2 DEF TypeOK
<1>5. cache' \in [Rooms -> Room \cup {null}]
  <2>1. ASSUME NEW p \in Requests, AddUsers(p) \/ SetCache(p)
        PROVE  cache' \in [Rooms -> Room \cup {null}]
    <3>1. inProgress(p)
      BY <2>1 DEF AddUsers, SetCache, at
    <3>2. req[p].doc \in Room \cup {null}
      BY <3>1, At, Operations
    <3>. QED
      BY <2>1, <3>2 DEF AddUsers, SetCache, TypeOK
  <2>2. ASSUME ~ \E p \in Requests : AddUsers(p) \/ SetCache(p)
        PROVE  cache' \in [Rooms -> Room \cup {null}]
    BY <2>2 DEF TypeOK, Next, Arrives, Find, Save, Reread, Fails, InsertMany, Crash, Delete, vars
  <2>. QED
    BY <2>1, <2>2
<1>. QED
  BY <1>1, <1>2, <1>3, <1>4, <1>5 DEF TypeOK

LEMMA ArgumentsStayFit ==
  ASSUME IInv, Next
  PROVE  ArgumentsFit'
<1> SUFFICES ASSUME NEW p \in Requests, req'[p] # null
             PROVE  /\ req'[p].op \in {"save", "updateRoom"} => req'[p].name # null
                    /\ req'[p].op = "updateAvatar" => req'[p].avatarUrl # null
  BY DEF ArgumentsFit
<1>1. CASE req[p] # null
  BY <1>1, Evolves DEF Evolved, IInv, ArgumentsFit
<1>2. CASE req[p] = null
  BY <1>2, Arrived
<1>. QED
  BY <1>1, <1>2

LEMMA HeldRoomsStay ==
  ASSUME IInv, Next
  PROVE  HeldRoomsExist'
<1> SUFFICES ASSUME NEW p \in Requests, inProgress(p)', req'[p].pc > 1
             PROVE  req'[p].doc # null /\ rooms'[req'[p].roomId] # null
  BY DEF HeldRoomsExist
<1>. TypeOK
  BY DEF IInv
<1>1. req'[p] # null
  BY DEF inProgress
<1>2. req[p] # null
  BY <1>1, Arrived
<1>3. /\ req'[p].roomId = req[p].roomId /\ req[p].roomId \in Rooms
      /\ req[p].doc # null => req'[p].doc # null
  BY <1>2, Evolves, Operations DEF Evolved, TypeOK
<1>4. rooms[req[p].roomId] # null => rooms'[req[p].roomId] # null
  BY <1>3, RoomsStay
<1>5. CASE req'[p] = req[p]
  <2>1. inProgress(p) /\ req[p].pc > 1
    BY <1>5 DEF inProgress
  <2>. QED
    BY <1>3, <1>4, <2>1 DEF IInv, HeldRoomsExist
<1>6. CASE Find(p) /\ advance(p, rooms[req[p].roomId]) /\ rooms[req[p].roomId] # null
  <2>1. inProgress(p) /\ rooms[req[p].roomId] \in Room \cup {null}
    BY <1>2, <1>3, Moved DEF TypeOK
  <2>2. req'[p].doc = rooms[req[p].roomId]
    BY <1>6, <2>1, Advance
  <2>. QED
    BY <1>3, <1>4, <1>6, <2>2
<1>7. CASE Save(p)
  <2> DEFINE w == changed(req[p], rooms[req[p].roomId])
             d == changed(req[p], req[p].doc)
  <2>1. /\ inProgress(p) /\ d \in Room /\ advance(p, d)
        /\ w \in Room /\ rooms' = [rooms EXCEPT ![req[p].roomId] = w]
    BY <1>7, Saves
  <2>. HIDE DEF w, d
  <2>2. req'[p].doc = d
    BY <2>1, Advance
  <2>3. rooms'[req[p].roomId] = w
    BY <1>3, <2>1 DEF TypeOK
  <2>. QED
    BY <1>3, <2>1, <2>2, <2>3, RoomsAssumption
<1>8. CASE AddUsers(p) \/ Reread(p) \/ SetCache(p)
  <2>1. inProgress(p) /\ (at(p, "add") \/ at(p, "reread") \/ at(p, "cache"))
    BY <1>8 DEF AddUsers, Reread, SetCache, at
  <2>2. req[p].pc > 1
    BY <2>1, At, LastIsLate
  <2>. QED
    BY <1>3, <1>4, <2>1, <2>2 DEF IInv, HeldRoomsExist
<1>. QED
  BY <1>2, <1>5, <1>6, <1>7, <1>8, Moved

LEMMA RoomsStayMadeOnce ==
  ASSUME IInv, Next
  PROVE  RoomsAreMadeOnce'
<1>. TypeOK
  BY DEF IInv
<1>1. ASSUME NEW r \in Rooms, rooms'[r] # null
      PROVE  \E p \in Requests : req'[p] # null /\ req'[p].roomId = r
  <2>1. \E p \in Requests : req[p] # null /\ req[p].roomId = r
    <3>1. CASE rooms[r] # null
      BY <3>1 DEF IInv, RoomsAreMadeOnce
    <3>2. CASE rooms[r] = null
      <4>1. PICK p \in Requests : Save(p) /\ req[p].roomId = r
        BY <1>1, <3>2, RoomsStay
      <4>2. req[p] # null
        BY <4>1 DEF Save, at, inProgress
      <4>. QED
        BY <4>1, <4>2
    <3>. QED
      BY <3>1, <3>2
  <2>. QED
    BY <2>1, Evolves DEF Evolved
<1>2. ASSUME NEW p \in Requests, req'[p] # null, req'[p].op = "save"
      PROVE  req'[p].pc = 1 => rooms'[req'[p].roomId] = null
  <2>1. CASE req[p] = null
    BY <1>2, <2>1, Arrived, Operations, Evolves DEF IInv, RoomsAreMadeOnce
  <2>2. CASE req[p] # null
    <3>1. SUFFICES ASSUME req'[p].pc = 1
                   PROVE  rooms'[req[p].roomId] = null
      BY <2>2, Evolves DEF Evolved
    <3>2. req[p] \in Request /\ req[p].op = "save" /\ req[p].pc \in 1..6 /\ req[p].roomId \in Rooms
      BY <1>2, <2>2, Evolves, Operations DEF Evolved, TypeOK
    <3>3. req[p].pc = 1
      <4>1. stepsOf(req[p].op) = <<"save", "add">>
        BY <3>2, Steps DEF Operation
      <4>2. Len(stepsOf(req[p].op)) + 1 = 3
        BY <4>1
      <4>. QED
        BY <2>2, <3>1, <3>2, <4>2, Evolves DEF Evolved
    <3>4. rooms[req[p].roomId] = null
      BY <2>2, <3>2, <3>3 DEF IInv, RoomsAreMadeOnce
    <3>5. ASSUME rooms'[req[p].roomId] # null
          PROVE  FALSE
      <4>1. PICK q \in Requests : Save(q) /\ req[q].roomId = req[p].roomId
        BY <3>2, <3>4, <3>5, RoomsStay
      <4>2. q # p
        <5>1. ASSUME q = p
              PROVE  req'[p].pc = 2
          BY <4>1, <5>1, <3>3, Saves, Advance
        <5>. QED
          BY <3>1, <5>1
      <4>3. req[q] # null /\ req[q].op = "save"
        BY <3>4, <4>1, Saves DEF inProgress
      <4>. QED
        BY <2>2, <3>2, <4>1, <4>2, <4>3 DEF IInv, RoomsAreMadeOnce
    <3>. QED
      BY <3>5
  <2>. QED
    BY <2>1, <2>2
<1>3. ASSUME NEW p \in Requests, req'[p] # null, req'[p].op = "save",
             NEW q \in Requests \ {p}, req'[q] # null, req'[q].op = "save"
      PROVE  req'[q].roomId # req'[p].roomId
  <2>1. CASE req[p] # null /\ req[q] # null
    BY <1>3, <2>1, Evolves DEF Evolved, IInv, RoomsAreMadeOnce
  <2>2. CASE req[p] = null
    BY <1>3, <2>2, Arrived
  <2>3. CASE req[q] = null
    BY <1>3, <2>3, Arrived
  <2>. QED
    BY <2>1, <2>2, <2>3
<1>. QED
  BY <1>1, <1>2, <1>3 DEF RoomsAreMadeOnce

\* What is added stays added.
LEMMA AddedStays ==
  ASSUME IInv, Next, NEW p \in Requests, hasAdded(p)
  PROVE  hasAdded(p)'
<1> DEFINE s == stepsOf(req[p].op)
           n == Len(s)
           i == req[p].pc
           j == req'[p].pc
<1>1. req[p] # null /\ req[p] \in Request /\ req[p].doc # null
  BY DEF hasAdded, IInv, TypeOK
<1>2. /\ req'[p] # null /\ req'[p].op = req[p].op /\ req'[p].doc # null /\ req'[p] \in Request
      /\ j >= i \/ j = n + 1
  BY <1>1, Evolves DEF Evolved
<1>3. i \in 1..6 /\ j \in 1..6 /\ n \in 2..5
  BY <1>1, <1>2, Operations, Steps
<1>4. \A k \in i .. n : s[k] # "add"
  BY DEF hasAdded
<1>5. hasAdded(p)' <=> \A k \in j .. n : s[k] # "add"
  BY <1>2 DEF hasAdded
<1>. HIDE DEF s, n, i, j
<1>6. \A k \in j .. n : k \in i .. n
  BY <1>2, <1>3
<1>. QED
  BY <1>4, <1>5, <1>6

\* A request that inserts its users had not inserted them, and does not do so again.
LEMMA AddsOnce ==
  ASSUME IInv, NEW p \in Requests, AddUsers(p)
  PROVE  ~ hasAdded(p) /\ hasAdded(p)'
<1>. TypeOK
  BY DEF IInv
<1> DEFINE o == req[p].op
           n == Len(stepsOf(o))
           i == req[p].pc
<1>1. /\ inProgress(p) /\ at(p, "add") /\ advance(p, req[p].doc)
  BY DEF AddUsers, at
<1>2. /\ req[p] \in Request /\ o \in Operation /\ i \in 1..5 /\ i <= n /\ n \in 2..5
      /\ \/ i = 2 /\ o \in {"save", "inviteUserIntoRoom"}
         \/ i = 3 /\ o = "updateRoom"
  BY <1>1, At, Operations, Steps
<1>3. req[p].doc # null /\ req[p].doc \in Room \cup {null}
  BY <1>1, <1>2, Operations DEF IInv, HeldRoomsExist
<1>4. stepsOf(o)[i] = "add"
  BY <1>1 DEF at
<1>5. /\ req'[p] # null /\ req'[p].op = o /\ req'[p].doc = req[p].doc
      /\ req'[p].pc = i + 1
  BY <1>1, <1>3, Advance
<1>6. /\ hasAdded(p) => \A k \in i .. n : stepsOf(o)[k] # "add"
      /\ hasAdded(p)' <=> \A k \in (i + 1) .. n : stepsOf(o)[k] # "add"
  BY <1>3, <1>5 DEF hasAdded
<1>. HIDE DEF o, n, i
<1>7. i \in i .. n
  BY <1>2
<1>8. ASSUME NEW k \in (i + 1) .. n
      PROVE  stepsOf(o)[k] # "add"
  <2>1. k \in 1..6 /\ k <= n /\ k >= i + 1
    BY <1>2
  <2>2. stepsOf(o)[k] = "add" <=> \/ k = 2 /\ o \in {"save", "inviteUserIntoRoom"}
                                  \/ k = 3 /\ o = "updateRoom"
    BY <1>2, <2>1, Positions DEF n
  <2>. QED
    BY <1>2, <2>1, <2>2
<1>. QED
  BY <1>4, <1>6, <1>7, <1>8

LEMMA InsertsStayOnce ==
  ASSUME IInv, Next
  PROVE  InsertedOnce'
<1>. TypeOK /\ inserts \in SUBSET Requests
  BY DEF IInv, TypeOK
<1>1. ASSUME NEW p \in inserts'
      PROVE  hasAdded(p)'
  <2>1. p \in inserts \/ (p \in Requests /\ AddUsers(p))
    BY <1>1 DEF Next, Arrives, Find, Save, AddUsers, Reread, SetCache, Fails, InsertMany,
                remaining, Crash, Delete, vars
  <2>2. CASE p \in inserts
    BY <2>2, AddedStays DEF IInv, InsertedOnce
  <2>. QED
    BY <2>1, <2>2, AddsOnce
<1>2. SUFFICES ASSUME NEW u \in Users, NEW r \in Rooms
               PROVE  participants'[<<u, r>>] + Cardinality({p \in inserts' : names(p, u, r)'})
                      <= Cardinality({p \in Requests : hasAdded(p)' /\ names(p, u, r)'})
  BY <1>1 DEF InsertedOnce
<1> DEFINE n == participants[<<u, r>>]
           I == {p \in inserts : names(p, u, r)}
           A == {p \in Requests : hasAdded(p) /\ names(p, u, r)}
           J == {p \in inserts' : names(p, u, r)'}
           B == {p \in Requests : hasAdded(p)' /\ names(p, u, r)'}
<1>3. /\ \A p \in inserts : hasAdded(p)
      /\ n + Cardinality(I) <= Cardinality(A) /\ n \in Nat
  BY DEF IInv, InsertedOnce, TypeOK
<1>4. ASSUME NEW p \in Requests, req[p] # null
      PROVE  names(p, u, r)' <=> names(p, u, r)
  BY <1>4, Evolves DEF Evolved, names
<1>5. ASSUME NEW p \in A
      PROVE  p \in B
  <2>1. p \in Requests /\ hasAdded(p) /\ names(p, u, r) /\ req[p] # null
    BY DEF hasAdded
  <2>. QED
    BY <2>1, <1>4, AddedStays
<1>6. /\ IsFiniteSet(I) /\ IsFiniteSet(A) /\ IsFiniteSet(B)
      /\ Cardinality(I) \in Nat /\ Cardinality(A) \in Nat /\ Cardinality(B) \in Nat
      /\ Cardinality(A) <= Cardinality(B)
  <2>1. IsFiniteSet(I) /\ IsFiniteSet(A) /\ IsFiniteSet(B)
    BY RoomsAssumption, FS_Subset
  <2>2. A \in SUBSET B
    BY <1>5
  <2>. HIDE DEF I, A, B
  <2>. QED
    BY <2>1, <2>2, FS_Subset, FS_CardinalityType
<1>7. \A p \in inserts : p \in Requests /\ req[p] # null
  BY <1>3 DEF hasAdded
<1>8. CASE \E p \in Requests : AddUsers(p)
  <2>1. PICK p \in Requests : AddUsers(p)
    BY <1>8
  <2>2. /\ inserts' = inserts \cup {p} /\ participants' = participants
        /\ req[p] # null /\ ~ hasAdded(p) /\ hasAdded(p)'
    BY <2>1, AddsOnce DEF AddUsers, at, inProgress
  <2>3. CASE ~ names(p, u, r)
    <3>1. J = I
      BY <1>4, <1>7, <2>2, <2>3
    <3>2. n + Cardinality(J) <= Cardinality(B)
      <4>. HIDE DEF I, J, A, B, n
      <4>. QED
        BY <1>3, <1>6, <3>1
    <3>. QED
      BY <2>2, <3>2
  <2>4. CASE names(p, u, r)
    <3>1. J = I \cup {p} /\ p \notin I
      BY <1>3, <1>4, <1>7, <2>2, <2>4
    <3>2. p \in B /\ p \notin A
      BY <1>4, <2>2, <2>4
    <3>3. A \cup {p} \in SUBSET B
      BY <1>5, <3>2
    <3>. HIDE DEF I, A, B
    <3>4. Cardinality(I \cup {p}) = Cardinality(I) + 1
      BY <1>6, <3>1, FS_AddElement
    <3>5. Cardinality(A \cup {p}) = Cardinality(A) + 1 /\ Cardinality(A \cup {p}) <= Cardinality(B)
      BY <1>6, <3>2, <3>3, FS_AddElement, FS_Subset
    <3>6. n + Cardinality(J) <= Cardinality(B)
      <4>. HIDE DEF J, n
      <4>. QED
        BY <1>3, <1>6, <3>1, <3>4, <3>5
    <3>. QED
      BY <2>2, <3>6 DEF J, B
  <2>. QED
    BY <2>3, <2>4
<1>9. CASE \E p \in Requests : InsertMany(p)
  <2>1. PICK p \in Requests : InsertMany(p)
    BY <1>9
  <2>2. p \in inserts /\ inserts' = inserts \ {p} /\ req' = req
    BY <2>1 DEF InsertMany, remaining
  <2>3. participants'[<<u, r>>] = IF names(p, u, r) THEN n + 1 ELSE n
    BY <2>1 DEF InsertMany, names
  <2>4. J = I \ {p}
    BY <1>4, <1>7, <2>2
  <2>5. names(p, u, r) <=> p \in I
    BY <2>2
  <2>6. Cardinality(J) = IF p \in I THEN Cardinality(I) - 1 ELSE Cardinality(I)
    <3>. HIDE DEF I, J
    <3>. QED
      BY <1>6, <2>4, FS_RemoveElement
  <2>7. participants'[<<u, r>>] + Cardinality(J) <= Cardinality(B)
    <3>. HIDE DEF I, J, A, B, n
    <3>. QED
      BY <1>3, <1>6, <2>3, <2>5, <2>6
  <2>. QED
    BY <2>7
<1>10. CASE inserts' \subseteq inserts /\ participants' = participants
  <2>1. J \in SUBSET I
    BY <1>4, <1>7, <1>10
  <2>2. Cardinality(J) \in Nat /\ Cardinality(J) <= Cardinality(I)
    <3>. HIDE DEF I, J
    <3>. QED
      BY <1>6, <2>1, FS_Subset, FS_CardinalityType
  <2>3. n + Cardinality(J) <= Cardinality(B)
    <3>. HIDE DEF I, J, A, B, n
    <3>. QED
      BY <1>3, <1>6, <2>2
  <2>. QED
    BY <1>10, <2>3
<1>. QED
  BY <1>8, <1>9, <1>10
     DEF Next, Arrives, Find, Save, Reread, SetCache, Fails, Crash, Delete, vars

LEMMA AloneStaysCurrent ==
  ASSUME IInv, Next
  PROVE  AloneIsCurrent'
<1>. TypeOK /\ rooms \in [Rooms -> Room \cup {null}] /\ req \in [Requests -> Request \cup {null}]
  BY DEF IInv, TypeOK
<1>0. disturbed \subseteq disturbed'
  BY DEF Next, Arrives, Find, Save, AddUsers, Reread, SetCache, Fails, InsertMany, Crash, Delete, vars
<1> SUFFICES ASSUME NEW r \in Rooms, r \notin disturbed'
             PROVE  /\ \A p \in Requests : inProgress(p)' /\ req'[p].roomId = r =>
                         /\ req'[p].pc > 1 => req'[p].doc = rooms'[r]
                         /\ \A q \in Requests \ {p} : inProgress(q)' => req'[q].roomId # r
                    /\ cache'[r] # null /\ cache'[r] # rooms'[r] =>
                         \E p \in Requests : inProgress(p)' /\ req'[p].roomId = r /\ req'[p].pc > 1
  BY DEF AloneIsCurrent
<1>1. ASSUME NEW p \in Requests, inProgress(p), req[p].roomId = r
      PROVE  /\ req[p].pc > 1 => req[p].doc = rooms[r]
             /\ \A q \in Requests \ {p} : inProgress(q) => req[q].roomId # r
  BY <1>0, <1>1 DEF IInv, AloneIsCurrent
<1>2. cache[r] # null /\ cache[r] # rooms[r] =>
        \E p \in Requests : inProgress(p) /\ req[p].roomId = r /\ req[p].pc > 1
  BY <1>0 DEF IInv, AloneIsCurrent
<1>3. ASSUME NEW p \in Requests, req[p] # null
      PROVE  req'[p].roomId = req[p].roomId /\ req'[p].op = req[p].op
  BY <1>3, Evolves DEF Evolved
<1>4. ASSUME NEW p \in Requests, inProgress(p)', req'[p].roomId = r,
             NEW q \in Requests \ {p}, inProgress(q)'
      PROVE  req'[q].roomId # r
  <2>1. req'[p] # null /\ req'[q] # null
    BY <1>4 DEF inProgress
  <2>2. CASE req[p] = null
    <3>1. req'[q] = req[q] /\ (inProgress(q) => req[q].roomId # r)
      BY <1>4, <2>1, <2>2, Arrived
    <3>. QED
      BY <1>4, <3>1 DEF inProgress
  <2>3. CASE req[q] = null
    <3>1. req'[p] = req[p] /\ (inProgress(p) /\ req[p].roomId = req'[q].roomId
                              => req'[q].roomId \in disturbed')
      BY <2>1, <2>3, Arrived
    <3>2. inProgress(p)
      BY <1>4, <3>1 DEF inProgress
    <3>. QED
      BY <1>4, <3>1, <3>2
  <2>4. CASE req[p] # null /\ req[q] # null
    <3>1. inProgress(p) /\ inProgress(q)
      BY <1>4, <2>4, Moved
    <3>. QED
      BY <1>1, <1>3, <1>4, <2>4, <3>1
  <2>. QED
    BY <2>2, <2>3, <2>4
<1>5. ASSUME NEW p \in Requests, Save(p), req[p].roomId = r
      PROVE  /\ req'[p].doc = rooms'[r]
             /\ inProgress(p)' /\ req'[p].pc > 1 /\ req'[p].roomId = r
  <2> DEFINE d == changed(req[p], req[p].doc)
             w == changed(req[p], rooms[r])
  <2>1. /\ inProgress(p) /\ d \in Room /\ advance(p, d)
        /\ rooms' = [rooms EXCEPT ![r] = w]
        /\ \/ req[p].op = "save"
           \/ req[p].pc = 2
    BY <1>5, Saves
  <2>2. d = w
    <3>1. CASE req[p].op = "save"
      BY <3>1 DEF changed
    <3>2. CASE req[p].pc = 2
      BY <1>1, <1>5, <2>1, <3>2
    <3>. QED
      BY <2>1, <3>1, <3>2
  <2>3. at(p, "save")
    BY <1>5 DEF Save
  <2>. HIDE DEF d, w
  <2>4. req'[p].doc = d /\ inProgress(p)' /\ req'[p].pc > 1 /\ req'[p].roomId = r
    BY <1>5, <2>1, <2>3, Advance, GoesOn
  <2>5. rooms'[r] = w
    BY <2>1
  <2>. QED
    BY <2>2, <2>4, <2>5
<1>6. ASSUME NEW p \in Requests, AddUsers(p) \/ SetCache(p), req[p].roomId = r
      PROVE  /\ inProgress(p) /\ req[p].doc = rooms[r] /\ rooms' = rooms
             /\ req'[p].doc = rooms'[r]
             /\ AddUsers(p) /\ req[p].op # "save" =>
                  inProgress(p)' /\ req'[p].pc > 1 /\ req'[p].roomId = r
  <2>1. /\ inProgress(p) /\ advance(p, req[p].doc) /\ rooms' = rooms
        /\ at(p, "add") \/ at(p, "cache")
        /\ AddUsers(p) => at(p, "add")
    BY <1>6 DEF AddUsers, SetCache, at
  <2>2. req[p].pc > 1 /\ req[p].doc \in Room \cup {null}
    BY <2>1, At, LastIsLate, Operations
  <2>3. req'[p].doc = req[p].doc
    BY <2>1, <2>2, Advance
  <2>. QED
    BY <1>1, <1>3, <1>6, <2>1, <2>2, <2>3, GoesOn DEF inProgress
<1>7. ASSUME NEW p \in Requests, Reread(p), req[p].roomId = r
      PROVE  /\ req'[p].doc = rooms'[r]
             /\ inProgress(p)' /\ req'[p].pc > 1 /\ req'[p].roomId = r
  <2>1. inProgress(p) /\ at(p, "reread") /\ advance(p, rooms[r]) /\ rooms' = rooms
    BY <1>7 DEF Reread, at
  <2>2. rooms[r] \in Room \cup {null}
    OBVIOUS
  <2>. QED
    BY <1>7, <2>1, <2>2, Advance, GoesOn
<1>8. ASSUME rooms'[r] # rooms[r]
      PROVE  \E p \in Requests : Save(p) /\ req[p].roomId = r
  BY <1>8, RoomsStay
<1>9. ASSUME NEW p \in Requests, inProgress(p)', req'[p].roomId = r, req'[p].pc > 1
      PROVE  req'[p].doc = rooms'[r]
  <2>1. req[p] # null
    <3>1. req'[p] # null
      BY <1>9 DEF inProgress
    <3>2. req[p] = null => req'[p].pc = 1
      BY <3>1, Arrived
    <3>. QED
      BY <1>9, <3>2
  <2>2. req[p].roomId = r /\ inProgress(p)
    BY <1>3, <1>9, <2>1, Moved
  <2>3. CASE Save(p)
    BY <1>5, <2>2, <2>3
  <2>4. CASE AddUsers(p) \/ SetCache(p)
    BY <1>6, <2>2, <2>4
  <2>5. CASE Reread(p)
    BY <1>7, <2>2, <2>5
  <2>6. CASE ~ Save(p)
    <3>1. rooms'[r] = rooms[r]
      <4>1. ASSUME NEW q \in Requests, Save(q), req[q].roomId = r
            PROVE  FALSE
        <5>1. inProgress(q)
          BY <4>1 DEF Save, at
        <5>. QED
          BY <1>1, <2>2, <2>6, <4>1, <5>1
      <4>. QED
        BY <1>8, <4>1
    <3>2. CASE req'[p] = req[p]
      BY <1>1, <1>9, <2>2, <3>1, <3>2
    <3>3. CASE Find(p) /\ advance(p, rooms[req[p].roomId])
      <4>1. rooms[r] \in Room \cup {null}
        OBVIOUS
      <4>. QED
        BY <2>2, <3>1, <3>3, <4>1, Advance
    <3>. QED
      BY <1>9, <2>1, <2>4, <2>5, <2>6, <3>2, <3>3, Moved
  <2>. QED
    BY <2>3, <2>6
<1>10. ASSUME cache'[r] # null, cache'[r] # rooms'[r]
       PROVE  \E p \in Requests : inProgress(p)' /\ req'[p].roomId = r /\ req'[p].pc > 1
  <2>1. CASE \E p \in Requests : Save(p) /\ req[p].roomId = r
    BY <1>5, <2>1
  <2>2. CASE ~ \E p \in Requests : Save(p) /\ req[p].roomId = r
    <3>1. rooms'[r] = rooms[r] /\ ~ Crash
      BY <1>8, <1>10, <2>2 DEF Crash
    <3>2. cache'[r] = cache[r]
      <4>1. ASSUME cache'[r] # cache[r]
            PROVE  \E p \in Requests : /\ AddUsers(p) \/ SetCache(p)
                                      /\ req[p].roomId = r /\ cache'[r] = req[p].doc
        BY <3>1, <4>1 DEF Next, Arrives, Find, Save, AddUsers, Reread, SetCache, Fails, InsertMany,
                          Delete, vars, IInv, TypeOK
      <4>. QED
        BY <1>6, <1>10, <3>1, <4>1
    <3>3. PICK p \in Requests : inProgress(p) /\ req[p].roomId = r /\ req[p].pc > 1
      BY <1>2, <1>10, <3>1, <3>2
    <3>4. req[p] # null
      BY <3>3 DEF inProgress
    <3>5. CASE req'[p] = req[p]
      BY <3>3, <3>5 DEF inProgress
    <3>6. CASE Find(p)
      <4>1. at(p, "find")
        BY <3>6 DEF Find
      <4>2. req[p].pc = 1
        BY <3>3, <4>1, At
      <4>. QED
        BY <3>3, <4>2
    <3>7. CASE AddUsers(p) /\ req[p].op # "save"
      BY <1>6, <3>3, <3>7
    <3>8. CASE SetCache(p) \/ (AddUsers(p) /\ req[p].op = "save")
      <4>1. cache'[r] = req[p].doc
        BY <3>3, <3>8 DEF SetCache, AddUsers, IInv, TypeOK
      <4>. QED
        BY <1>6, <1>10, <3>3, <3>8, <4>1
    <3>9. CASE Reread(p)
      BY <1>7, <3>3, <3>9
    <3>10. ~ Fails(p)
      BY <3>3 DEF Fails
    <3>. QED
      BY <2>2, <3>1, <3>3, <3>4, <3>5, <3>6, <3>7, <3>8, <3>9, <3>10, Acts
  <2>. QED
    BY <2>1, <2>2
<1>. QED
  BY <1>4, <1>9, <1>10

-----------------------------------------------------------------------------

\* The inductive invariant holds of every state.
THEOREM Invariance == Spec => []IInv
<1>1. Init => IInv
  <2> SUFFICES ASSUME Init
               PROVE  IInv
    OBVIOUS
  <2>1. TypeOK /\ \A p \in Requests : req[p] = null /\ ~ inProgress(p)
    BY DEF Init, TypeOK, inProgress
  <2>2. InsertedOnce
    <3> SUFFICES ASSUME NEW u \in Users, NEW r \in Rooms
                 PROVE  participants[<<u, r>>] + Cardinality({p \in inserts : names(p, u, r)})
                        <= Cardinality({p \in Requests : hasAdded(p) /\ names(p, u, r)})
      BY DEF Init, InsertedOnce
    <3>1. /\ {p \in inserts : names(p, u, r)} = {}
          /\ {p \in Requests : hasAdded(p) /\ names(p, u, r)} = {}
          /\ participants[<<u, r>>] = 0
      BY <2>1 DEF Init, hasAdded
    <3>. QED
      BY <3>1, FS_EmptySet
  <2>. QED
    BY <2>1, <2>2 DEF Init, IInv, ArgumentsFit, HeldRoomsExist, RoomsAreMadeOnce, AloneIsCurrent
<1>2. IInv /\ [Next]_vars => IInv'
  <2>1. IInv /\ Next => IInv'
    BY TypesAreKept, ArgumentsStayFit, HeldRoomsStay, RoomsStayMadeOnce, InsertsStayOnce,
       AloneStaysCurrent DEF IInv
  <2>2. IInv /\ UNCHANGED vars => IInv'
    <3> SUFFICES ASSUME IInv, UNCHANGED vars
                 PROVE  IInv'
      OBVIOUS
    <3>0. /\ rooms' = rooms /\ participants' = participants /\ req' = req
          /\ inserts' = inserts /\ cache' = cache /\ disturbed' = disturbed
      BY DEF vars
    <3>1. TypeOK'
      BY <3>0 DEF IInv, TypeOK
    <3>2. ArgumentsFit' /\ HeldRoomsExist' /\ RoomsAreMadeOnce'
      BY <3>0 DEF IInv, ArgumentsFit, HeldRoomsExist, RoomsAreMadeOnce, inProgress
    <3>3. InsertedOnce'
      BY <3>0 DEF IInv, InsertedOnce, hasAdded, names
    <3>4. AloneIsCurrent'
      BY <3>0 DEF IInv, AloneIsCurrent, inProgress
    <3>. QED
      BY <3>1, <3>2, <3>3, <3>4 DEF IInv
  <2>. QED
    BY <2>1, <2>2
<1>. QED
  BY <1>1, <1>2, PTL DEF Spec

\* The variables have their types: rooms and the cache hold documents with every field.
THEOREM TypeCorrect == Spec => []TypeOK
<1>1. IInv => TypeOK
  BY DEF IInv
<1>. QED
  BY <1>1, Invariance, PTL

\* Users are inserted once for each request that names them and got through its checks,
\* whatever the requests do and whenever the process exits.
THEOREM InsertedOncePerRequest == Spec => []InsertedAsAsked
<1>1. IInv => InsertedAsAsked
  <2> SUFFICES ASSUME IInv, NEW u \in Users, NEW r \in Rooms
               PROVE  participants[<<u, r>>]
                        + Cardinality({p \in inserts : req[p].roomId = r /\ u \in req[p].userIds})
                      <= Cardinality({p \in Requests : /\ req[p] # null /\ req[p].doc # null
                                                       /\ req[p].roomId = r /\ u \in req[p].userIds})
    BY DEF InsertedAsAsked
  <2> DEFINE n == participants[<<u, r>>]
             I == {p \in inserts : req[p].roomId = r /\ u \in req[p].userIds}
             A == {p \in Requests : hasAdded(p) /\ names(p, u, r)}
             D == {p \in Requests : /\ req[p] # null /\ req[p].doc # null
                                    /\ req[p].roomId = r /\ u \in req[p].userIds}
  <2>1. n + Cardinality(I) <= Cardinality(A) /\ n \in Nat /\ inserts \in SUBSET Requests
    BY DEF IInv, InsertedOnce, names, TypeOK
  <2>2. A \in SUBSET D /\ I \in SUBSET Requests /\ D \in SUBSET Requests
    BY <2>1 DEF hasAdded, names
  <2>3. n + Cardinality(I) <= Cardinality(D)
    <3>. HIDE DEF n, I, A, D
    <3>1. IsFiniteSet(I) /\ IsFiniteSet(D) /\ IsFiniteSet(A) /\ Cardinality(A) <= Cardinality(D)
      BY <2>2, RoomsAssumption, FS_Subset
    <3>2. Cardinality(I) \in Nat /\ Cardinality(A) \in Nat /\ Cardinality(D) \in Nat
      BY <3>1, FS_CardinalityType
    <3>. QED
      BY <2>1, <3>1, <3>2
  <2>. QED
    BY <2>3
<1>. QED
  BY <1>1, Invariance, PTL

\* What is cached of a room whose requests came one at a time and did not fail is what the
\* database has, when none of them is in progress.
THEOREM CacheIsCurrent == Spec => []CacheFollowsRoom
<1>1. IInv => CacheFollowsRoom
  BY DEF IInv, AloneIsCurrent, CacheFollowsRoom
<1>. QED
  BY <1>1, Invariance, PTL

\* A name or an avatar changes only when a request for just that saves: no request undoes
\* what another wrote, although it saves a document it read before.
THEOREM WritesAreKept == Spec => NoLostUpdate
<1>1. ASSUME IInv, [Next]_vars, NEW r \in Rooms, rooms[r] # null
      PROVE  /\ rooms'[r].name # rooms[r].name =>
                  \E p \in Requests : /\ at(p, "save") /\ req'[p].pc > req[p].pc
                                      /\ req[p].op = "updateRoom" /\ req[p].roomId = r
             /\ rooms'[r].avatarUrl # rooms[r].avatarUrl =>
                  \E p \in Requests : /\ at(p, "save") /\ req'[p].pc > req[p].pc
                                      /\ req[p].op = "updateAvatar" /\ req[p].roomId = r
  <2>1. CASE rooms'[r] = rooms[r]
    BY <2>1
  <2>2. CASE rooms'[r] # rooms[r]
    <3>0. TypeOK /\ Next
      BY <1>1, <2>2 DEF IInv, vars
    <3>1. PICK p \in Requests : Save(p) /\ req[p].roomId = r
      BY <1>1, <2>2, <3>0, RoomsStay
    <3> DEFINE w == changed(req[p], rooms[r])
               d == changed(req[p], req[p].doc)
    <3>2. /\ inProgress(p) /\ req[p] \in Request /\ d \in Room /\ advance(p, d)
          /\ rooms' = [rooms EXCEPT ![r] = w]
          /\ \/ req[p].op = "save" /\ req[p].pc = 1
             \/ req[p].op \in {"updateRoom", "updateAvatar"}
          /\ req[p].op = "updateRoom" => w.avatarUrl = rooms[r].avatarUrl
          /\ req[p].op = "updateAvatar" => w.name = rooms[r].name
      BY <1>1, <3>1, Saves
    <3>. HIDE DEF w, d
    <3>3. req[p].op # "save"
      BY <1>1, <3>1, <3>2 DEF IInv, RoomsAreMadeOnce, inProgress
    <3>4. rooms'[r] = w
      BY <3>0, <3>2 DEF TypeOK
    <3>5. req'[p].pc > req[p].pc
      <4>1. req'[p].pc = req[p].pc + 1 /\ req[p].pc \in 1..5
        BY <3>0, <3>2, Advance, At
      <4>. QED
        BY <4>1
    <3>6. at(p, "save")
      BY <3>1 DEF Save
    <3>. QED
      BY <3>1, <3>2, <3>3, <3>4, <3>5, <3>6
  <2>. QED
    BY <2>1, <2>2
<1>2. IInv /\ [Next]_vars =>
        [\A r \in Rooms : rooms[r] # null =>
          /\ rooms'[r].name # rooms[r].name =>
               \E p \in Requests : /\ at(p, "save") /\ req'[p].pc > req[p].pc
                                   /\ req[p].op = "updateRoom" /\ req[p].roomId = r
          /\ rooms'[r].avatarUrl # rooms[r].avatarUrl =>
               \E p \in Requests : /\ at(p, "save") /\ req'[p].pc > req[p].pc
                                   /\ req[p].op = "updateAvatar" /\ req[p].roomId = r]_vars
  BY <1>1
<1>. QED
  BY <1>2, Invariance, PTL DEF Spec, NoLostUpdate
=============================================================================
