--------------------------- MODULE ChatServerProofs --------------------------
(***************************************************************************)
(* ChatServer for any processes, sockets, users, rooms, messages and any   *)
(* number of events: its types, who gets what how often and in which       *)
(* order, what is stored, and that it implements RoomBroadcast.            *)
(***************************************************************************)
EXTENDS ChatServer, SocketRegistryProofs, FiniteSetTheorems

Content == {joinEvent} \cup Messages \cup UNION {handlersOf(k) : k \in Notices}

-----------------------------------------------------------------------------
(* How often a room's array lists a socket. *)

usersListing(i, s, r) == {u \in Users : listedAs(reg[i], s, u, r)}

LEMMA CopiesAreUsers ==
  ASSUME TypeOK, RegistriesFit, NEW i \in Instances, NEW s \in Sockets, NEW r \in Rooms
  PROVE  /\ copies(i, s, r) = Cardinality(usersListing(i, s, r))
         /\ copies(i, s, r) \in Nat
         /\ copies(i, s, r) > 0 <=> listed(reg[i], s, r)
<1> DEFINE count(u) == roomSockets(reg[i], r)[<<s, u>>]
           U == usersListing(i, s, r)
<1>1. \A u \in Users : count(u) \in Nat /\ count(u) <= 1
  <2>1. roomSockets(reg[i], r) \in RoomList
    BY RoomSocketsType DEF TypeOK
  <2>2. \A u \in Users : <<s, u>> \in Entry
    BY DEF Entry
  <2>. QED
    BY <2>1, <2>2 DEF RegistriesFit, RoomList
<1>2. \A u \in Users : (u \in U <=> count(u) > 0)
  BY DEF usersListing, listedAs
<1>3. ASSUME NEW u \in Users
      PROVE  {u} \X (1..count(u)) = IF u \in U THEN {<<u, 1>>} ELSE {}
  <2>1. count(u) = 0 \/ count(u) = 1
    BY <1>1
  <2>2. 1..0 = {} /\ 1..1 = {1}
    OBVIOUS
  <2>. HIDE DEF count, U
  <2>3. CASE count(u) = 0
    BY <1>2, <2>2, <2>3
  <2>4. CASE count(u) = 1
    <3>1. {u} \X (1..count(u)) = {u} \X {1} /\ u \in U
      BY <1>2, <2>2, <2>4
    <3>. QED
      BY <3>1
  <2>. QED
    BY <2>1, <2>3, <2>4
<1>4. copies(i, s, r) = Cardinality(UNION {{u} \X (1..count(u)) : u \in Users})
  BY DEF copies
<1>5. U \subseteq Users
  BY DEF usersListing
<1>. HIDE DEF count, U
<1>6. UNION {{u} \X (1..count(u)) : u \in Users} = U \X {1}
  <2> DEFINE pairs(u) == {u} \X (1..count(u))
  <2>1. \A u \in Users : pairs(u) = IF u \in U THEN {<<u, 1>>} ELSE {}
    BY <1>3
  <2>. HIDE DEF pairs
  <2>2. UNION {pairs(u) : u \in Users} = {<<u, 1>> : u \in U}
    BY <1>5, <2>1
  <2>3. {<<u, 1>> : u \in U} = U \X {1}
    OBVIOUS
  <2>. QED
    BY <2>2, <2>3 DEF pairs
<1>7. IsFiniteSet(U) /\ Cardinality(U) \in Nat
  BY <1>5, UsersAssumption, FS_Subset, FS_CardinalityType
<1>8. Cardinality(U \X {1}) = Cardinality(U) * 1
  <2>1. IsFiniteSet({1}) /\ Cardinality({1}) = 1
    BY FS_Singleton
  <2>. QED
    BY <1>7, <2>1, FS_Product
<1>9. copies(i, s, r) = Cardinality(U)
  BY <1>4, <1>6, <1>7, <1>8
<1>10. Cardinality(U) > 0 <=> U # {}
  BY <1>7, FS_EmptySet
<1>11. U # {} <=> listed(reg[i], s, r)
  BY DEF U, usersListing, listed
<1>. QED
  BY <1>7, <1>9, <1>10, <1>11 DEF U

-----------------------------------------------------------------------------
(* What is published and what is received. *)

LEMMA Types ==
  ASSUME TypeOK
  PROVE  /\ Len(log) \in Nat /\ Len(log) <= MaxEvents
         /\ \A k \in 1..Len(log) : log[k] \in Event
         /\ \A s \in Sockets : /\ inbox[s] \in Seq(Receipt)
                               /\ Len(inbox[s]) \in Nat
                               /\ DOMAIN inbox[s] = 1..Len(inbox[s])
                               /\ \A n \in 1..Len(inbox[s]) : inbox[s][n] \in Receipt
BY DEF TypeOK

\* The result of a handler becomes the last event, and its sender's last receipt.
LEMMA Propagates ==
  ASSUME TypeOK, NEW s \in Sockets, NEW r \in Rooms, NEW d \in Content, propagate(s, r, d)
  PROVE  /\ log' \in Seq(Event) /\ Len(log') = Len(log) + 1 /\ Len(log') <= MaxEvents
         /\ \A k \in 1..Len(log) : log'[k] = log[k]
         /\ log'[Len(log) + 1] = [socketId |-> s, roomId |-> r, data |-> d]
         /\ inbox' \in [Sockets -> Seq(Receipt)]
         /\ \A t \in Sockets \ {s} : inbox'[t] = inbox[t]
         /\ DOMAIN inbox'[s] = 1..(Len(inbox[s]) + 1)
         /\ \A n \in 1..Len(inbox[s]) : inbox'[s][n] = inbox[s][n]
         /\ inbox'[s][Len(inbox[s]) + 1] = [event |-> Len(log) + 1, echo |-> TRUE]
         /\ cursor' = cursor /\ missed' = missed
<1> DEFINE e == [socketId |-> s, roomId |-> r, data |-> d]
           k == Len(log) + 1
           x == [event |-> k, echo |-> TRUE]
<1>1. e \in Event
  BY DEF Event, Content
<1>2. log \in Seq(Event) /\ Len(log) < MaxEvents /\ log' = Append(log, e)
  BY DEF TypeOK, propagate
<1>. HIDE DEF e
<1>3. /\ log' \in Seq(Event) /\ Len(log') = k /\ k <= MaxEvents /\ k \in 1..MaxEvents
      /\ \A l \in 1..Len(log) : log'[l] = log[l]
      /\ log'[k] = e
  BY <1>1, <1>2, MaxEventsAssumption
<1>4. inbox' = [inbox EXCEPT ![s] = Append(inbox[s], [event |-> k, echo |-> TRUE])]
  BY <1>3 DEF propagate, TypeOK
<1>5. x \in Receipt
  BY <1>3 DEF Receipt
<1>. HIDE DEF x, k
<1>6. inbox' = [inbox EXCEPT ![s] = Append(inbox[s], x)]
  BY <1>4 DEF x
<1>7. inbox \in [Sockets -> Seq(Receipt)] /\ inbox[s] \in Seq(Receipt)
  BY DEF TypeOK
<1> DEFINE q == Append(inbox[s], x)
<1>8. /\ q \in Seq(Receipt) /\ DOMAIN q = 1..(Len(inbox[s]) + 1)
      /\ \A n \in 1..Len(inbox[s]) : q[n] = inbox[s][n]
      /\ q[Len(inbox[s]) + 1] = x
  BY <1>5, <1>7
<1>. HIDE DEF q
<1>9. inbox' = [inbox EXCEPT ![s] = q]
  BY <1>6 DEF q
<1>. QED
  BY <1>3, <1>7, <1>8, <1>9 DEF propagate, k, e, x

\* The next event comes to every receiver as often as the room lists it, and to nobody else.
Emitted(i) ==
  LET k == cursor[i] + 1
      e == log[k]
  IN /\ k \in 1..Len(log)
     /\ log' = log /\ cursor' = [cursor EXCEPT ![i] = k]
     /\ \A s \in Sockets : ~isReceiver(i, s, e) => inbox'[s] = inbox[s]
     /\ \A s \in Sockets : isReceiver(i, s, e) =>
          /\ DOMAIN inbox'[s] = 1..(Len(inbox[s]) + copies(i, s, e.roomId))
          /\ \A n \in 1..Len(inbox[s]) : inbox'[s][n] = inbox[s][n]
          /\ \A n \in DOMAIN inbox'[s] :
               n > Len(inbox[s]) => inbox'[s][n] = [event |-> k, echo |-> FALSE]

LEMMA Consumes ==
  ASSUME TypeOK, RegistriesFit, NEW i \in Instances, Consume(i), cursor' # cursor
  PROVE  Emitted(i) /\ inbox' \in [Sockets -> Seq(Receipt)] /\ status' = status
<1> DEFINE k == cursor[i] + 1
           e == log[k]
           receipts(s) == [n \in 1..copies(i, s, e.roomId) |-> [event |-> k, echo |-> FALSE]]
<1>1. k \in 1..Len(log) /\ k \in 1..MaxEvents
  <2>1. cursor[i] \in 0..Len(log) /\ cursor[i] < Len(log)
    BY DEF Consume, TypeOK
  <2>2. Len(log) \in Nat /\ Len(log) <= MaxEvents
    BY Types
  <2>. QED
    BY <2>1, <2>2, MaxEventsAssumption
<1>2. e \in Event /\ e.roomId \in Rooms
  BY <1>1, Types DEF Event
<1>3. /\ cursor' = [cursor EXCEPT ![i] = k] /\ log' = log /\ status' = status
      /\ inbox' = [s \in Sockets |-> IF isReceiver(i, s, e)
                                     THEN inbox[s] \o receipts(s) ELSE inbox[s]]
  BY DEF Consume
<1>4. ASSUME NEW s \in Sockets
      PROVE  LET q == inbox[s] \o receipts(s) IN
             /\ q \in Seq(Receipt)
             /\ DOMAIN q = 1..(Len(inbox[s]) + copies(i, s, e.roomId))
             /\ \A n \in 1..Len(inbox[s]) : q[n] = inbox[s][n]
             /\ \A n \in DOMAIN q : n > Len(inbox[s]) => q[n] = [event |-> k, echo |-> FALSE]
  <2> DEFINE c == copies(i, s, e.roomId)
             x == [event |-> k, echo |-> FALSE]
             z == [n \in 1..c |-> x]
  <2>1. c \in Nat
    BY <1>2, CopiesAreUsers
  <2>2. x \in Receipt
    BY <1>1 DEF Receipt
  <2>3. inbox[s] \in Seq(Receipt)
    BY Types
  <2>. HIDE DEF c, x
  <2>4. z \in Seq(Receipt) /\ Len(z) = c /\ \A n \in 1..c : z[n] = x
    BY <2>1, <2>2
  <2>. HIDE DEF z
  <2> DEFINE q == inbox[s] \o z
  <2>5. /\ q \in Seq(Receipt) /\ DOMAIN q = 1..(Len(inbox[s]) + c)
        /\ \A n \in 1..Len(inbox[s]) : q[n] = inbox[s][n]
        /\ \A n \in DOMAIN q : n > Len(inbox[s]) => q[n] = x
    BY <2>1, <2>3, <2>4
  <2>6. receipts(s) = z
    BY DEF z, c, x
  <2>. QED
    BY <2>5, <2>6 DEF c, x
<1>. HIDE DEF receipts
<1>5. inbox' \in [Sockets -> Seq(Receipt)]
  BY <1>3, <1>4, Types
<1>6. \A s \in Sockets : /\ ~isReceiver(i, s, e) => inbox'[s] = inbox[s]
                         /\ isReceiver(i, s, e) => inbox'[s] = inbox[s] \o receipts(s)
  BY <1>3
<1>. QED
  BY <1>1, <1>3, <1>4, <1>5, <1>6 DEF Emitted

-----------------------------------------------------------------------------
(* What a step of the system does to events and receipts. *)

Quiet == log' = log /\ inbox' = inbox
Kept == Quiet /\ cursor' = cursor /\ missed' = missed

LEMMA Flow ==
  ASSUME IInv, Next
  PROVE  \/ Kept
         \/ Quiet /\ \E i \in Instances : subscribeAfresh(i)
         \/ \E s \in Sockets, r \in Rooms, d \in Content : connected(s) /\ propagate(s, r, d)
         \/ \E i \in Instances : Consume(i) /\ cursor' # cursor
<1> DEFINE Goal == \/ Kept
                   \/ Quiet /\ \E i \in Instances : subscribeAfresh(i)
                   \/ \E s \in Sockets, r \in Rooms, d \in Content :
                        connected(s) /\ propagate(s, r, d)
                   \/ \E i \in Instances : Consume(i) /\ cursor' # cursor
<1>1. ASSUME NEW s \in Sockets, NEW u \in Users
      PROVE  /\ \A i \in Instances : Connect(s, u, i) => Goal
             /\ \A r \in Rooms : JoinRoom(s, u, r) => Goal
             /\ \A r \in Rooms, m \in Messages : SendMessage(s, u, r, m) => Goal
             /\ \A r \in Rooms, k \in Notices : Notice(s, u, r, k) => Goal
  <2>1. joinEvent \in Content
    BY DEF Content
  <2>2. ASSUME NEW r \in Rooms, JoinRoom(s, u, r)
        PROVE  Goal
    BY <2>1, <2>2 DEF JoinRoom
  <2>. QED
    BY <2>2 DEF Connect, SendMessage, Notice, Kept, Quiet, redisVars
<1>2. ASSUME NEW h \in lookups
      PROVE  /\ Noticed(h) => Goal
             /\ NoticeFails(h) => Goal
  <2>1. h.socket \in Sockets /\ h.roomId \in Rooms /\ h.handler \in Content
    BY DEF IInv, TypeOK, Lookup, Content
  <2>. QED
    BY <2>1 DEF Noticed, NoticeFails, Kept, Quiet, redisVars
<1>3. ASSUME NEW m \in Messages
      PROVE  /\ Created(m) \/ SendFails(m) => Goal
             /\ MessageSent(m) => Goal
  <2>1. ASSUME MessageSent(m)
        PROVE  Goal
    <3>1. sends[m] \in Handler /\ m \in Content
      BY <2>1 DEF MessageSent, IInv, TypeOK, Content
    <3>2. sends[m].socket \in Sockets /\ sends[m].roomId \in Rooms
      BY <3>1 DEF Handler
    <3>. QED
      BY <2>1, <3>1, <3>2 DEF MessageSent
  <2>. QED
    BY <2>1 DEF Created, SendFails, Kept, Quiet, redisVars
<1>4. ASSUME NEW i \in Instances
      PROVE  /\ Exit(i) => Goal
             /\ Start(i) \/ Resubscribe(i) => Goal
             /\ Consume(i) => Goal
  <2>1. Exit(i) => Goal
    BY DEF Exit, Kept, Quiet, redisVars
  <2>2. Start(i) \/ Resubscribe(i) => Goal
    BY DEF Start, Resubscribe, subscribeAfresh, Quiet
  <2>3. Consume(i) /\ cursor' = cursor => Goal
    <3>1. cursor[i] \in Nat /\ cursor \in [Instances -> 0..Len(log)]
      BY Types DEF IInv, TypeOK
    <3>2. [cursor EXCEPT ![i] = cursor[i] + 1][i] = cursor[i] + 1 /\ cursor[i] + 1 # cursor[i]
      BY <3>1
    <3>. QED
      BY <3>2 DEF Consume, Kept, Quiet
  <2>. QED
    BY <2>1, <2>2, <2>3
<1>5. ASSUME NEW s \in Sockets, Disconnect(s)
      PROVE  Goal
  BY <1>5 DEF Disconnect, Kept, Quiet, redisVars
<1>6. ASSUME NEW u \in Users, NEW r \in Rooms, AddParticipant(u, r)
      PROVE  Goal
  BY <1>6 DEF AddParticipant, Kept, Quiet, redisVars
<1>. HIDE DEF Goal
<1>7. Goal
  BY <1>1, <1>2, <1>3, <1>4, <1>5, <1>6 DEF Next
<1>. QED
  BY <1>7 DEF Goal

\* Connections, homes and joins outlive the step.
LEMMA Lasts ==
  ASSUME IInv, Next
  PROVE  /\ joined \subseteq joined'
         /\ \A s \in Sockets : conn[s] # "new" => conn'[s] # "new" /\ home'[s] = home[s]
         /\ \A s \in Sockets : home[s] \in Instances /\ inbox[s] # <<>> => home'[s] = home[s]
<1>0. /\ conn \in [Sockets -> {"new", "open", "closed"}]
      /\ home \in [Sockets -> Instances \cup {undefined}]
  BY DEF IInv, TypeOK
<1>1. joined \subseteq joined'
  BY DEF Next, Connect, JoinRoom, SendMessage, Notice, Noticed, NoticeFails, Disconnect, Created,
         SendFails, MessageSent, AddParticipant, Consume, Exit, Start, Resubscribe
<1>2. ASSUME NEW s \in Sockets, conn[s] # "new"
      PROVE  conn'[s] # "new" /\ home'[s] = home[s]
  <2>1. ASSUME NEW t \in Sockets, NEW u \in Users, NEW i \in Instances, Connect(t, u, i)
        PROVE  conn'[s] = conn[s] /\ home'[s] = home[s]
    BY <1>0, <1>2, <2>1 DEF Connect
  <2>2. ASSUME NEW t \in Sockets, Disconnect(t)
        PROVE  conn'[s] # "new" /\ home' = home
    BY <1>0, <1>2, <2>2 DEF Disconnect
  <2>3. ASSUME NEW i \in Instances, Exit(i)
        PROVE  conn'[s] # "new" /\ home' = home
    BY <1>0, <1>2, <2>3 DEF Exit
  <2>. QED
    BY <1>2, <2>1, <2>2, <2>3
       DEF Next, JoinRoom, SendMessage, Notice, Noticed, NoticeFails, Created, SendFails, MessageSent,
           AddParticipant, Consume, Start, Resubscribe, registryVars
<1>. QED
  BY <1>1, <1>2 DEF IInv, ConnectedAreHome

-----------------------------------------------------------------------------
(* The invariant is kept, part by part. *)

LEMMA HomesAreKept ==
  ASSUME IInv, Next
  PROVE  ConnectedAreHome'
<1>0. /\ conn \in [Sockets -> {"new", "open", "closed"}]
      /\ home \in [Sockets -> Instances \cup {undefined}]
      /\ status \in [Instances -> {"up", "failing", "down"}]
  BY DEF IInv, TypeOK
<1>1. ASSUME NEW s \in Sockets, connected(s)'
      PROVE  home'[s] \in Instances /\ status'[home'[s]] # "down"
  <2>1. ASSUME NEW t \in Sockets, NEW u \in Users, NEW i \in Instances, Connect(t, u, i)
        PROVE  home'[s] \in Instances /\ status'[home'[s]] # "down"
    <3>1. CASE s = t
      BY <1>0, <2>1, <3>1 DEF Connect, running
    <3>2. CASE s # t
      <4>1. connected(s) /\ home'[s] = home[s] /\ status' = status
        BY <1>0, <1>1, <2>1, <3>2 DEF Connect, connected
      <4>. QED
        BY <4>1 DEF IInv, ConnectedAreHome, running
    <3>. QED
      BY <3>1, <3>2
  <2>2. ASSUME NEW t \in Sockets, Disconnect(t)
        PROVE  connected(s) /\ home' = home /\ status' = status
    BY <1>0, <1>1, <2>2 DEF Disconnect, connected
  <2>3. ASSUME NEW i \in Instances, Exit(i)
        PROVE  home'[s] \in Instances /\ status'[home'[s]] # "down"
    <3>1. home[s] # i /\ connected(s) /\ home' = home
      BY <1>0, <1>1, <2>3 DEF Exit, connected
    <3>2. home[s] \in Instances /\ status[home[s]] # "down"
      BY <3>1 DEF IInv, ConnectedAreHome, running
    <3>3. status'[home[s]] = status[home[s]]
      BY <1>0, <2>3, <3>1, <3>2 DEF Exit
    <3>. QED
      BY <3>1, <3>2, <3>3
  <2>4. ASSUME NEW i \in Instances, Consume(i) \/ Start(i)
        PROVE  home'[s] \in Instances /\ status'[home'[s]] # "down"
    <3>1. connected(s) /\ home' = home
      BY <1>1, <2>4 DEF Consume, Start, connected
    <3>2. home[s] \in Instances /\ status[home[s]] # "down"
      BY <3>1 DEF IInv, ConnectedAreHome, running
    <3>3. status' = status \/ status' = [status EXCEPT ![i] = "failing"]
          \/ status' = [status EXCEPT ![i] = "up"]
      BY <2>4 DEF Consume, Start
    <3>. QED
      BY <1>0, <3>1, <3>2, <3>3
  <2>5. ASSUME connected(s), home' = home, status' = status
        PROVE  home'[s] \in Instances /\ status'[home'[s]] # "down"
    BY <2>5 DEF IInv, ConnectedAreHome, running
  <2>6. ASSUME conn' = conn
        PROVE  connected(s)
    BY <1>1, <2>6 DEF connected
  <2>. QED
    BY <2>1, <2>2, <2>3, <2>4, <2>5, <2>6
       DEF Next, JoinRoom, SendMessage, Notice, Noticed, NoticeFails, Created, SendFails, MessageSent,
           AddParticipant, Resubscribe, registryVars
<1>2. ASSUME NEW s \in Sockets, conn'[s] = "new"
      PROVE  inbox'[s] = <<>> /\ \A u \in Users, r \in Rooms : <<s, u, r>> \notin joined'
  <2>1. conn[s] = "new"
    BY <1>2, Lasts
  <2>2. inbox[s] = <<>> /\ \A u \in Users, r \in Rooms : <<s, u, r>> \notin joined
    BY <2>1 DEF IInv, ConnectedAreHome
  <2>3. ~ connected(s)
    BY <2>1 DEF connected
  <2>4. inbox'[s] = inbox[s]
    <3>1. ASSUME NEW t \in Sockets, NEW r \in Rooms, NEW d \in Content,
                 connected(t), propagate(t, r, d)
          PROVE  inbox'[s] = inbox[s]
      BY <2>3, <3>1, Propagates DEF IInv
    <3>2. ASSUME NEW i \in Instances, Consume(i), cursor' # cursor
          PROVE  inbox'[s] = inbox[s]
      BY <2>3, <3>2, Consumes DEF IInv, Emitted, isReceiver
    <3>. QED
      BY <3>1, <3>2, Flow DEF Kept, Quiet
  <2>5. ASSUME NEW u \in Users, NEW r \in Rooms
        PROVE  <<s, u, r>> \notin joined'
    <3>1. ASSUME NEW t \in Sockets, NEW v \in Users, NEW q \in Rooms, JoinRoom(t, v, q)
          PROVE  <<s, u, r>> \notin joined'
      BY <2>2, <2>3, <3>1 DEF JoinRoom
    <3>2. ASSUME joined' = joined
          PROVE  <<s, u, r>> \notin joined'
      BY <2>2, <3>2
    <3>. QED
      BY <3>1, <3>2
         DEF Next, Connect, SendMessage, Notice, Noticed, NoticeFails, Disconnect, Created,
             SendFails, MessageSent, AddParticipant, Consume, Exit, Start, Resubscribe
  <2>. QED
    BY <2>2, <2>4, <2>5
<1>. QED
  BY <1>1, <1>2 DEF ConnectedAreHome, connected, running

FitsIn(g, i) ==
  /\ \A r \in Rooms, e \in Entry : roomSockets(g, r)[e] <= 1
  /\ \A s \in Sockets, r \in Rooms : g.socketRoomState[s] = r => listed(g, s, r)
  /\ \A s \in Sockets, u \in Users, r \in Rooms :
       /\ listedAs(g, s, u, r) => <<s, u, r>> \in joined
       /\ connected(s) /\ home[s] = i /\ <<s, u, r>> \in joined => listedAs(g, s, u, r)

LEMMA RegistriesStayFit ==
  ASSUME IInv, Next
  PROVE  reg' \in [Instances -> Registry] /\ RegistriesFit'
<1>0. /\ reg \in [Instances -> Registry]
      /\ conn \in [Sockets -> {"new", "open", "closed"}]
      /\ home \in [Sockets -> Instances \cup {undefined}]
  BY DEF IInv, TypeOK
<1>1. ASSUME NEW i \in Instances
      PROVE  FitsIn(reg[i], i)
  BY <1>1 DEF IInv, RegistriesFit, FitsIn
\* The other registries stay as they are, and fit if homes do not change for the worse.
<1>2. ASSUME NEW i \in Instances, reg'[i] = reg[i], joined' = joined,
             \A s \in Sockets : connected(s)' /\ home'[s] = i =>
                \/ connected(s) /\ home[s] = i
                \/ \A u \in Users, r \in Rooms : <<s, u, r>> \notin joined
      PROVE  FitsIn(reg[i], i)'
  BY <1>1, <1>2 DEF FitsIn
<1>3. ASSUME NEW s \in Sockets, NEW u \in Users, NEW i \in Instances, Connect(s, u, i)
      PROVE  reg' \in [Instances -> Registry] /\ \A j \in Instances : FitsIn(reg[j], j)'
  <2>1. reg' = [reg EXCEPT ![i] = addSocket(reg[i], u, s)] /\ joined' = joined
    BY <1>0, <1>3 DEF Connect
  <2> DEFINE h == addSocket(reg[i], u, s)
  <2>2. /\ h \in Registry /\ h.socketsByRoomId = reg[i].socketsByRoomId
        /\ h.socketRoomState = reg[i].socketRoomState
    BY <1>0, AddSocket
  <2>. HIDE DEF h
  <2>3. /\ reg' \in [Instances -> Registry] /\ reg'[i] = h
        /\ \A j \in Instances \ {i} : reg'[j] = reg[j]
    BY <1>0, <2>1, <2>2 DEF h
  <2>4. ASSUME NEW j \in Instances
        PROVE  \A t \in Sockets : connected(t)' /\ home'[t] = j =>
                 \/ connected(t) /\ home[t] = j
                 \/ \A v \in Users, r \in Rooms : <<t, v, r>> \notin joined
    <3>1. \A v \in Users, r \in Rooms : <<s, v, r>> \notin joined
      BY <1>3 DEF Connect, IInv, ConnectedAreHome
    <3>2. \A t \in Sockets \ {s} : conn'[t] = conn[t] /\ home'[t] = home[t]
      BY <1>0, <1>3 DEF Connect
    <3>. QED
      BY <3>1, <3>2 DEF connected
  <2>5. FitsIn(reg[i], i)'
    <3>1. /\ \A r \in Rooms : roomSockets(h, r) = roomSockets(reg[i], r)
          /\ \A t \in Sockets, v \in Users, r \in Rooms :
               listedAs(h, t, v, r) <=> listedAs(reg[i], t, v, r)
          /\ \A t \in Sockets, r \in Rooms : listed(h, t, r) <=> listed(reg[i], t, r)
      BY <2>2 DEF roomSockets, listedAs, listed
    <3>. QED
      BY <1>1, <2>1, <2>2, <2>3, <2>4, <3>1 DEF FitsIn
  <2>. QED
    BY <1>2, <2>1, <2>3, <2>4, <2>5
<1>4. ASSUME NEW s \in Sockets, NEW u \in Users, NEW r \in Rooms, JoinRoom(s, u, r)
      PROVE  reg' \in [Instances -> Registry] /\ \A j \in Instances : FitsIn(reg[j], j)'
  <2>0. PICK i \in Instances : i = home[s]
    BY <1>4 DEF JoinRoom, IInv, ConnectedAreHome
  <2> DEFINE h == addUserJoinRoom(reg[i], r, u, s)
  <2>1. /\ i \in Instances /\ connected(s) /\ conn' = conn /\ home' = home
        /\ joined' = joined \cup {<<s, u, r>>}
    BY <1>4 DEF JoinRoom
  <2>2. reg' = [reg EXCEPT ![i] = h]
    BY <1>0, <1>4, <2>0 DEF JoinRoom
  <2>3. /\ h \in Registry
        /\ \A q \in Rooms, v \in Users, t \in Sockets :
             roomSockets(h, q)[<<t, v>>] =
               IF q = r /\ v = u /\ t = s /\ ~listedAs(reg[i], s, u, r)
               THEN 1 ELSE roomSockets(reg[i], q)[<<t, v>>]
        /\ listedAs(reg[i], s, u, r) => h = reg[i]
        /\ ~listedAs(reg[i], s, u, r) =>
             h.socketRoomState = [reg[i].socketRoomState EXCEPT ![s] = r]
    <3>1. PICK g \in Registry : g = reg[i]
      BY <1>0
    <3> DEFINE k == addUserJoinRoom(g, r, u, s)
    <3>2. /\ k \in Registry
          /\ \A q \in Rooms, v \in Users, t \in Sockets :
               roomSockets(k, q)[<<t, v>>] =
                 IF q = r /\ v = u /\ t = s /\ ~listedAs(g, s, u, r)
                 THEN 1 ELSE roomSockets(g, q)[<<t, v>>]
          /\ listedAs(g, s, u, r) => k = g
          /\ ~listedAs(g, s, u, r) => k.socketRoomState = [g.socketRoomState EXCEPT ![s] = r]
      BY AddUserJoinRoom
    <3>3. h = k
      BY <3>1
    <3>. HIDE DEF h, k
    <3>. QED
      BY <3>1, <3>2, <3>3
  <2>. HIDE DEF h
  <2>4. /\ reg' \in [Instances -> Registry] /\ reg'[i] = h
        /\ \A j \in Instances \ {i} : reg'[j] = reg[j]
    BY <1>0, <2>1, <2>2, <2>3
  <2>5. \A t \in Sockets, v \in Users, q \in Rooms :
          listedAs(h, t, v, q) <=> listedAs(reg[i], t, v, q) \/ <<t, v, q>> = <<s, u, r>>
    BY <2>3 DEF listedAs
  <2>6. FitsIn(reg[i], i)'
    <3>1. \A q \in Rooms, e \in Entry : roomSockets(h, q)[e] <= 1
      <4>1. ASSUME NEW q \in Rooms, NEW t \in Sockets, NEW v \in Users
            PROVE  roomSockets(h, q)[<<t, v>>] <= 1
        <5>1. roomSockets(reg[i], q)[<<t, v>>] <= 1
          BY <1>1, <2>1 DEF FitsIn, Entry
        <5>. QED
          BY <2>3, <5>1
      <4>. QED
        BY <4>1 DEF Entry
    <3>2. ASSUME NEW t \in Sockets, NEW q \in Rooms, h.socketRoomState[t] = q
          PROVE  listed(h, t, q)
      <4>1. CASE listedAs(reg[i], s, u, r)
        BY <1>1, <2>1, <2>3, <3>2, <4>1 DEF FitsIn
      <4>2. CASE ~listedAs(reg[i], s, u, r)
        <5>1. reg[i].socketRoomState \in [Sockets -> Rooms \cup {undefined}]
          BY <1>0, <2>1 DEF Registry
        <5>2. CASE t = s
          BY <2>3, <2>5, <3>2, <4>2, <5>1, <5>2 DEF listed
        <5>3. CASE t # s
          <6>1. reg[i].socketRoomState[t] = q
            BY <2>3, <3>2, <4>2, <5>1, <5>3
          <6>. QED
            BY <1>1, <2>1, <2>5, <6>1 DEF FitsIn, listed
        <5>. QED
          BY <5>2, <5>3
      <4>. QED
        BY <4>1, <4>2
    <3>3. \A t \in Sockets, v \in Users, q \in Rooms :
            /\ listedAs(h, t, v, q) => <<t, v, q>> \in joined'
            /\ connected(t)' /\ home'[t] = i /\ <<t, v, q>> \in joined' => listedAs(h, t, v, q)
      BY <1>1, <2>1, <2>5 DEF FitsIn, connected
    <3>. QED
      BY <2>4, <3>1, <3>2, <3>3 DEF FitsIn
  <2>7. ASSUME NEW j \in Instances \ {i}
        PROVE  FitsIn(reg[j], j)'
    BY <1>1, <2>0, <2>1, <2>4 DEF FitsIn, connected
  <2>. QED
    BY <2>4, <2>6, <2>7
<1>5. ASSUME NEW s \in Sockets, Disconnect(s)
      PROVE  reg' \in [Instances -> Registry] /\ \A j \in Instances : FitsIn(reg[j], j)'
  <2>0. PICK i \in Instances : i = home[s]
    BY <1>5 DEF Disconnect, IInv, ConnectedAreHome
  <2> DEFINE h == removeSocket(reg[i], s)
  <2>1. /\ i \in Instances /\ home' = home /\ joined' = joined
        /\ ~ connected(s)' /\ \A t \in Sockets : connected(t)' => connected(t)
    BY <1>0, <1>5 DEF Disconnect, connected
  <2>2. reg' = [reg EXCEPT ![i] = h]
    BY <1>0, <1>5, <2>0 DEF Disconnect
  <2>3. /\ h \in Registry
        /\ h.socketRoomState = [reg[i].socketRoomState EXCEPT ![s] = undefined]
        /\ \A q \in Rooms, v \in Users, t \in Sockets :
             roomSockets(h, q)[<<t, v>>] =
               IF t = s /\ q = reg[i].socketRoomState[s]
               THEN 0 ELSE roomSockets(reg[i], q)[<<t, v>>]
    <3>1. /\ reg[i] \in Registry
          /\ \A r \in Rooms, e \in Entry : roomSockets(reg[i], r)[e] <= 1
          /\ \A r \in Rooms : reg[i].socketRoomState[s] = r => listed(reg[i], s, r)
      BY <1>0, <1>1, <2>1 DEF FitsIn
    <3>. QED
      BY <3>1, RemoveSocket
  <2>. HIDE DEF h
  <2>4. /\ reg' \in [Instances -> Registry] /\ reg'[i] = h
        /\ \A j \in Instances \ {i} : reg'[j] = reg[j]
    BY <1>0, <2>1, <2>2, <2>3
  <2>5. \A t \in Sockets, v \in Users, q \in Rooms :
          /\ listedAs(h, t, v, q) => listedAs(reg[i], t, v, q)
          /\ t # s => (listedAs(h, t, v, q) <=> listedAs(reg[i], t, v, q))
    BY <2>3 DEF listedAs
  <2>6. FitsIn(reg[i], i)'
    <3>1. \A q \in Rooms, e \in Entry : roomSockets(h, q)[e] <= 1
      <4>1. ASSUME NEW q \in Rooms, NEW t \in Sockets, NEW v \in Users
            PROVE  roomSockets(h, q)[<<t, v>>] <= 1
        <5>1. roomSockets(reg[i], q)[<<t, v>>] <= 1
          BY <1>1, <2>1 DEF FitsIn, Entry
        <5>. QED
          BY <2>3, <5>1
      <4>. QED
        BY <4>1 DEF Entry
    <3>2. ASSUME NEW t \in Sockets, NEW q \in Rooms, h.socketRoomState[t] = q
          PROVE  listed(h, t, q)
      <4>1. reg[i].socketRoomState \in [Sockets -> Rooms \cup {undefined}]
        BY <1>0, <2>1 DEF Registry
      <4>2. t # s /\ reg[i].socketRoomState[t] = q
        BY <2>3, <3>2, <4>1, UndefinedAssumption
      <4>. QED
        BY <1>1, <2>1, <2>5, <4>2 DEF FitsIn, listed
    <3>3. \A t \in Sockets, v \in Users, q \in Rooms :
            /\ listedAs(h, t, v, q) => <<t, v, q>> \in joined'
            /\ connected(t)' /\ home'[t] = i /\ <<t, v, q>> \in joined' => listedAs(h, t, v, q)
      BY <1>1, <2>1, <2>5 DEF FitsIn
    <3>. QED
      BY <2>4, <3>1, <3>2, <3>3 DEF FitsIn
  <2>. QED
    BY <1>2, <2>1, <2>4, <2>6
<1>6. ASSUME NEW i \in Instances, Start(i)
      PROVE  reg' \in [Instances -> Registry] /\ \A j \in Instances : FitsIn(reg[j], j)'
  <2>1. /\ reg' = [reg EXCEPT ![i] = newRegistry] /\ conn' = conn /\ home' = home
        /\ joined' = joined /\ status[i] = "down"
    BY <1>6 DEF Start
  <2>2. /\ reg' \in [Instances -> Registry] /\ reg'[i] = newRegistry
        /\ \A j \in Instances \ {i} : reg'[j] = reg[j]
    BY <1>0, <2>1, NewRegistry
  <2>3. FitsIn(reg[i], i)'
    <3>1. \A r \in Rooms, e \in Entry : roomSockets(newRegistry, r)[e] = 0
      BY NewRegistry DEF emptyList
    <3>2. \A s \in Sockets, u \in Users, r \in Rooms : ~ listedAs(newRegistry, s, u, r)
      BY <3>1 DEF listedAs, Entry
    <3>3. \A s \in Sockets, r \in Rooms : newRegistry.socketRoomState[s] # r
      BY UndefinedAssumption DEF newRegistry
    <3>4. \A s \in Sockets : ~ (connected(s)' /\ home'[s] = i)
      BY <2>1 DEF connected, IInv, ConnectedAreHome, running
    <3>5. \A r \in Rooms, e \in Entry : roomSockets(newRegistry, r)[e] <= 1
      BY <3>1
    <3>. QED
      BY <2>2, <3>2, <3>3, <3>4, <3>5 DEF FitsIn
  <2>. QED
    BY <1>2, <2>1, <2>2, <2>3 DEF connected
<1>7. ASSUME reg' = reg, joined' = joined, home' = home,
             \A s \in Sockets : connected(s)' => connected(s)
      PROVE  reg' \in [Instances -> Registry] /\ \A j \in Instances : FitsIn(reg[j], j)'
  BY <1>0, <1>2, <1>7
<1>8. ASSUME NEW i \in Instances, Exit(i)
      PROVE  reg' \in [Instances -> Registry] /\ \A j \in Instances : FitsIn(reg[j], j)'
  <2>1. \A s \in Sockets : connected(s)' => connected(s)
    BY <1>0, <1>8 DEF Exit, connected
  <2>. QED
    BY <1>7, <1>8, <2>1 DEF Exit
<1>9. ASSUME reg' = reg, joined' = joined, home' = home, conn' = conn
      PROVE  reg' \in [Instances -> Registry] /\ \A j \in Instances : FitsIn(reg[j], j)'
  BY <1>7, <1>9 DEF connected
<1>10. reg' \in [Instances -> Registry] /\ \A j \in Instances : FitsIn(reg[j], j)'
  BY <1>3, <1>4, <1>5, <1>6, <1>8, <1>9
     DEF Next, SendMessage, Notice, Noticed, NoticeFails, Created, SendFails, MessageSent,
         AddParticipant, Consume, Resubscribe, registryVars
<1>. QED
  BY <1>10 DEF RegistriesFit, FitsIn

-----------------------------------------------------------------------------
(* Events and receipts. *)

\* Events stay, and no process goes back.
LEMMA LogGrows ==
  ASSUME IInv, Next
  PROVE  /\ log' \in Seq(Event) /\ Len(log') \in Nat /\ Len(log) \in Nat
         /\ Len(log) <= Len(log') /\ Len(log') <= MaxEvents
         /\ \A k \in 1..Len(log) : k \in 1..Len(log') /\ log'[k] = log[k]
         /\ cursor' \in [Instances -> 0..Len(log')]
         /\ \A i \in Instances : cursor[i] \in Nat /\ cursor'[i] \in Nat /\ cursor[i] <= cursor'[i]
         /\ missed' \in [Instances -> SUBSET (1..Len(log'))]
         /\ MissedArePast'
<1> DEFINE N == Len(log)
<1>0. /\ log \in Seq(Event) /\ N \in Nat /\ N <= MaxEvents
      /\ cursor \in [Instances -> 0..N] /\ missed \in [Instances -> SUBSET (1..N)]
      /\ \A i \in Instances : cursor[i] \in 0..N /\ \A k \in missed[i] : k \in 1..N /\ k <= cursor[i]
  BY DEF IInv, TypeOK, MissedArePast
<1>1. CASE Kept
  <2>1. log' = log /\ cursor' = cursor /\ missed' = missed
    BY <1>1 DEF Kept, Quiet
  <2>2. \A i \in Instances : cursor[i] \in Nat /\ cursor[i] <= cursor[i]
    BY <1>0
  <2>. QED
    BY <1>0, <2>1, <2>2 DEF MissedArePast
<1>2. ASSUME NEW i \in Instances, Quiet, subscribeAfresh(i)
      PROVE  /\ log' = log /\ cursor' \in [Instances -> 0..N]
             /\ \A j \in Instances : cursor[j] \in Nat /\ cursor'[j] \in Nat /\ cursor[j] <= cursor'[j]
             /\ missed' \in [Instances -> SUBSET (1..N)]
             /\ MissedArePast'
  <2> DEFINE late == missed[i] \cup (cursor[i] + 1)..N
  <2>1. /\ log' = log /\ cursor' = [cursor EXCEPT ![i] = N]
        /\ missed' = [missed EXCEPT ![i] = late]
    BY <1>0, <1>2 DEF subscribeAfresh
  <2>2. late \in SUBSET (1..N) /\ \A k \in late : k <= N
    BY <1>0
  <2>3. \A j \in Instances : cursor[j] \in Nat /\ cursor[j] <= N /\ cursor[j] <= cursor[j] /\ N \in 0..N
    BY <1>0
  <2>. HIDE DEF late, N
  <2>4. /\ missed' \in [Instances -> SUBSET (1..N)] /\ cursor' \in [Instances -> 0..N]
        /\ \A j \in Instances :
             \/ j = i /\ cursor'[j] = N /\ missed'[j] = late
             \/ j # i /\ cursor'[j] = cursor[j] /\ missed'[j] = missed[j]
    BY <1>0, <2>1, <2>2, <2>3
  <2>. QED
    BY <1>0, <2>1, <2>2, <2>3, <2>4 DEF MissedArePast
<1>3. ASSUME NEW s \in Sockets, NEW r \in Rooms, NEW d \in Content, propagate(s, r, d)
      PROVE  /\ log' \in Seq(Event) /\ Len(log') = N + 1 /\ Len(log') <= MaxEvents
             /\ \A k \in 1..N : log'[k] = log[k]
             /\ cursor' = cursor /\ missed' = missed
  BY <1>3, Propagates DEF IInv
<1>4. ASSUME NEW i \in Instances, Consume(i), cursor' # cursor
      PROVE  /\ log' = log /\ cursor' \in [Instances -> 0..N]
             /\ \A j \in Instances : cursor[j] \in Nat /\ cursor'[j] \in Nat /\ cursor[j] <= cursor'[j]
             /\ missed' = missed /\ MissedArePast'
  <2>1. log' = log /\ cursor[i] + 1 \in 1..N /\ cursor' = [cursor EXCEPT ![i] = cursor[i] + 1]
    BY <1>4, Consumes DEF IInv, Emitted
  <2>2. missed' = missed
    BY <1>4 DEF Consume
  <2>3. /\ cursor' \in [Instances -> 0..N]
        /\ \A j \in Instances : cursor'[j] = cursor[j] \/ (j = i /\ cursor'[j] = cursor[j] + 1)
    BY <1>0, <2>1
  <2>4. \A j \in Instances : cursor[j] \in Nat /\ cursor[j] <= cursor[j] /\ cursor[j] <= cursor[j] + 1
    BY <1>0
  <2>5. ASSUME NEW j \in Instances, NEW k \in missed[j]
        PROVE  k <= cursor'[j]
    BY <1>0, <2>3, <2>4
  <2>. QED
    BY <2>1, <2>2, <2>3, <2>4, <2>5 DEF MissedArePast
<1>5. ASSUME log' = log
      PROVE  /\ log' \in Seq(Event) /\ Len(log') \in Nat /\ Len(log) \in Nat
             /\ Len(log) <= Len(log') /\ Len(log') <= MaxEvents /\ Len(log') = N
             /\ \A k \in 1..Len(log) : k \in 1..Len(log') /\ log'[k] = log[k]
  BY <1>0, <1>5
<1>6. CASE \E s \in Sockets, r \in Rooms, d \in Content : propagate(s, r, d)
  <2>1. /\ log' \in Seq(Event) /\ Len(log') = N + 1 /\ Len(log') <= MaxEvents
        /\ \A k \in 1..N : log'[k] = log[k]
        /\ cursor' = cursor /\ missed' = missed
    BY <1>3, <1>6
  <2>2. /\ N + 1 \in Nat /\ N <= N + 1 /\ 1..N \subseteq 1..(N + 1) /\ 0..N \subseteq 0..(N + 1)
        /\ \A i \in Instances : cursor[i] \in Nat /\ cursor[i] <= cursor[i]
    BY <1>0
  <2>3. MissedArePast'
    BY <1>0, <2>1 DEF MissedArePast
  <2>. HIDE DEF N
  <2>4. cursor' \in [Instances -> 0..(N + 1)] /\ missed' \in [Instances -> SUBSET (1..(N + 1))]
    BY <1>0, <2>1, <2>2
  <2>. QED
    BY <1>0, <2>1, <2>2, <2>3, <2>4 DEF N
<1>7. CASE \E i \in Instances : Consume(i) /\ cursor' # cursor
  <2>1. /\ log' = log /\ cursor' \in [Instances -> 0..N]
        /\ \A j \in Instances : cursor[j] \in Nat /\ cursor'[j] \in Nat /\ cursor[j] <= cursor'[j]
        /\ missed' = missed /\ MissedArePast'
    BY <1>4, <1>7
  <2>. QED
    BY <1>0, <1>5, <2>1
<1>8. CASE Quiet /\ \E i \in Instances : subscribeAfresh(i)
  <2>1. /\ log' = log /\ cursor' \in [Instances -> 0..N]
        /\ \A j \in Instances : cursor[j] \in Nat /\ cursor'[j] \in Nat /\ cursor[j] <= cursor'[j]
        /\ missed' \in [Instances -> SUBSET (1..N)]
        /\ MissedArePast'
    BY <1>2, <1>8
  <2>. QED
    BY <1>0, <1>5, <2>1
<1>. QED
  BY <1>1, <1>6, <1>7, <1>8, Flow

\* A receipt was there, or is the echo of what its socket publishes, or is a copy of the
\* next event of the socket's process, which is of a room the process lists the socket in.
Echoed(s, n) ==
  /\ connected(s) /\ n = Len(inbox[s]) + 1 /\ DOMAIN inbox'[s] = 1..n
  /\ inbox'[s][n] = [event |-> Len(log) + 1, echo |-> TRUE]
  /\ Len(log') = Len(log) + 1 /\ log'[Len(log) + 1].socketId = s

Copied(s, n) ==
  \E i \in Instances :
    LET k == cursor[i] + 1
        e == log[k]
    IN /\ connected(s) /\ home[s] = i /\ s # e.socketId /\ e.roomId \in Rooms
       /\ k \in 1..Len(log) /\ log' = log /\ cursor'[i] = k
       /\ n > Len(inbox[s]) /\ inbox'[s][n] = [event |-> k, echo |-> FALSE]
       /\ DOMAIN inbox'[s] = 1..(Len(inbox[s]) + Cardinality(usersListing(i, s, e.roomId)))
       /\ listed(reg[i], s, e.roomId)

LEMMA Receipts ==
  ASSUME IInv, Next, NEW s \in Sockets
  PROVE  /\ inbox'[s] \in Seq(Receipt)
         /\ \A n \in DOMAIN inbox[s] : n \in DOMAIN inbox'[s] /\ inbox'[s][n] = inbox[s][n]
         /\ \A n \in DOMAIN inbox'[s] : n \in DOMAIN inbox[s] \/ Echoed(s, n) \/ Copied(s, n)
<1>. TypeOK /\ RegistriesFit
  BY DEF IInv
<1>0. inbox[s] \in Seq(Receipt) /\ Len(inbox[s]) \in Nat /\ DOMAIN inbox[s] = 1..Len(inbox[s])
  BY Types
<1>1. CASE inbox'[s] = inbox[s]
  BY <1>0, <1>1
<1>2. CASE Quiet
  BY <1>1, <1>2 DEF Quiet
<1>3. ASSUME NEW t \in Sockets, NEW r \in Rooms, NEW d \in Content,
             connected(t), propagate(t, r, d), inbox'[s] # inbox[s]
      PROVE  /\ inbox'[s] \in Seq(Receipt)
             /\ \A n \in DOMAIN inbox[s] : n \in DOMAIN inbox'[s] /\ inbox'[s][n] = inbox[s][n]
             /\ \A n \in DOMAIN inbox'[s] : n \in DOMAIN inbox[s] \/ Echoed(s, n)
  <2> DEFINE l == Len(inbox[s])
  <2>1. /\ t = s /\ inbox' \in [Sockets -> Seq(Receipt)]
        /\ DOMAIN inbox'[s] = 1..(l + 1)
        /\ \A n \in 1..l : inbox'[s][n] = inbox[s][n]
        /\ inbox'[s][l + 1] = [event |-> Len(log) + 1, echo |-> TRUE]
        /\ Len(log') = Len(log) + 1
        /\ log'[Len(log) + 1] = [socketId |-> t, roomId |-> r, data |-> d]
    BY <1>3, Propagates
  <2>2. Echoed(s, l + 1)
    BY <1>3, <2>1 DEF Echoed
  <2>3. \A n \in 1..(l + 1) : n \in 1..l \/ n = l + 1
    BY <1>0
  <2>4. \A n \in 1..l : n \in 1..(l + 1)
    BY <1>0
  <2>. QED
    BY <1>0, <2>1, <2>2, <2>3, <2>4
<1>4. ASSUME NEW i \in Instances, Consume(i), cursor' # cursor, inbox'[s] # inbox[s]
      PROVE  /\ inbox'[s] \in Seq(Receipt)
             /\ \A n \in DOMAIN inbox[s] : n \in DOMAIN inbox'[s] /\ inbox'[s][n] = inbox[s][n]
             /\ \A n \in DOMAIN inbox'[s] : n \in DOMAIN inbox[s] \/ Copied(s, n)
  <2> DEFINE k == cursor[i] + 1
             e == log[k]
             l == Len(inbox[s])
             c == copies(i, s, e.roomId)
  <2>1. Emitted(i) /\ inbox' \in [Sockets -> Seq(Receipt)]
    BY <1>4, Consumes
  <2>2. /\ k \in 1..Len(log) /\ log' = log /\ isReceiver(i, s, e)
        /\ cursor'[i] = k
        /\ DOMAIN inbox'[s] = 1..(l + c)
        /\ \A n \in 1..l : inbox'[s][n] = inbox[s][n]
        /\ \A n \in DOMAIN inbox'[s] : n > l => inbox'[s][n] = [event |-> k, echo |-> FALSE]
    BY <1>4, <2>1 DEF Emitted, TypeOK
  <2>3. e.roomId \in Rooms
    BY <2>2, Types DEF Event
  <2>4. c = Cardinality(usersListing(i, s, e.roomId)) /\ c \in Nat /\ (c > 0 <=> listed(reg[i], s, e.roomId))
    BY <2>3, CopiesAreUsers
  <2>5. connected(s) /\ home[s] = i /\ s # e.socketId
    BY <2>2 DEF isReceiver
  <2>6. ASSUME NEW n \in DOMAIN inbox'[s], n \notin DOMAIN inbox[s]
        PROVE  Copied(s, n)
    <3>1. n > l /\ c > 0
      <4>. HIDE DEF c, l
      <4>1. n \in 1..(l + c) /\ n \notin 1..l
        BY <1>0, <2>2, <2>6 DEF l
      <4>2. l \in Nat
        BY <1>0 DEF l
      <4>. QED
        BY <2>4, <4>1, <4>2
    <3>2. inbox'[s][n] = [event |-> k, echo |-> FALSE]
      BY <2>2, <3>1
    <3>. HIDE DEF c, l
    <3>. QED
      BY <2>2, <2>3, <2>4, <2>5, <3>1, <3>2 DEF Copied, l
  <2>7. \A n \in 1..l : n \in 1..(l + c)
    <3>. HIDE DEF c
    <3>. QED
      BY <1>0, <2>4
  <2>. QED
    BY <1>0, <2>1, <2>2, <2>6, <2>7
<1>. QED
  BY <1>1, <1>2, <1>3, <1>4, Flow DEF Kept

LEMMA Echo ==
  ASSUME NEW k, NEW x, x = [event |-> k, echo |-> TRUE]
  PROVE  x.event = k /\ x.echo
BY DEF Receipt

LEMMA Copy ==
  ASSUME NEW k, NEW x, x = [event |-> k, echo |-> FALSE]
  PROVE  x.event = k /\ ~ x.echo
BY DEF Receipt

LEMMA ReceiptsStayPast ==
  ASSUME IInv, Next
  PROVE  ReceiptsArePast'
<1>. TypeOK
  BY DEF IInv
<1> SUFFICES ASSUME NEW s \in Sockets, NEW n \in DOMAIN inbox'[s]
             PROVE  /\ home'[s] \in Instances
                    /\ inbox'[s][n].event <= Len(log')
                    /\ ~inbox'[s][n].echo => inbox'[s][n].event <= cursor'[home'[s]]
  BY DEF ReceiptsArePast
<1>0. connected(s) => home[s] \in Instances /\ home'[s] = home[s]
  BY Lasts DEF IInv, ConnectedAreHome, connected
<1>1. CASE n \in DOMAIN inbox[s]
  <2>1. /\ inbox'[s][n] = inbox[s][n] /\ home[s] \in Instances
        /\ inbox[s][n].event <= Len(log)
        /\ ~inbox[s][n].echo => inbox[s][n].event <= cursor[home[s]]
    BY <1>1, Receipts DEF IInv, ReceiptsArePast
  <2>2. home'[s] = home[s]
    <3>1. inbox[s] # <<>>
      BY <1>1
    <3>. QED
      BY <2>1, <3>1, Lasts
  <2>3. inbox[s][n].event \in Nat
    BY <1>1, Types, MaxEventsAssumption DEF Receipt
  <2> DEFINE v == inbox[s][n].event
             j == home[s]
  <2>4. v \in Nat /\ Len(log) \in Nat /\ Len(log') \in Nat /\ Len(log) <= Len(log')
        /\ cursor[j] \in Nat /\ cursor'[j] \in Nat /\ cursor[j] <= cursor'[j]
    BY <2>1, <2>3, LogGrows
  <2>. HIDE DEF v
  <2>5. v <= Len(log) => v <= Len(log')
    BY <2>4
  <2>6. v <= cursor[j] => v <= cursor'[j]
    BY <2>4
  <2>. QED
    BY <2>1, <2>2, <2>5, <2>6 DEF v
<1>2. CASE Echoed(s, n)
  <2>1. /\ inbox'[s][n].event = Len(log) + 1 /\ inbox'[s][n].echo
        /\ Len(log') = Len(log) + 1 /\ connected(s) /\ Len(log) \in Nat
    BY <1>2, Echo, Types DEF Echoed
  <2>2. Len(log) + 1 <= Len(log')
    BY <2>1
  <2>. QED
    BY <1>0, <2>1, <2>2
<1>3. CASE Copied(s, n)
  <2>1. PICK i \in Instances :
          /\ connected(s) /\ home[s] = i /\ log' = log
          /\ cursor[i] + 1 \in 1..Len(log) /\ cursor'[i] = cursor[i] + 1
          /\ inbox'[s][n] = [event |-> cursor[i] + 1, echo |-> FALSE]
    BY <1>3 DEF Copied
  <2>2. inbox'[s][n].event = cursor[i] + 1
    BY <2>1, Copy
  <2>3. cursor[i] + 1 <= Len(log) /\ cursor[i] + 1 <= cursor[i] + 1
    BY <2>1, LogGrows
  <2>. QED
    BY <1>0, <2>1, <2>2, <2>3
<1>. QED
  BY <1>1, <1>2, <1>3, Receipts

LEMMA OnlyMembersStill ==
  ASSUME IInv, Next
  PROVE  OnlyMembersReceive'
<1>. TypeOK
  BY DEF IInv
<1> SUFFICES ASSUME NEW s \in Sockets, NEW n \in DOMAIN inbox'[s]
             PROVE  LET e == log'[inbox'[s][n].event] IN
                    IF inbox'[s][n].echo THEN e.socketId = s
                    ELSE e.socketId # s /\ \E u \in Users : <<s, u, e.roomId>> \in joined'
  BY DEF OnlyMembersReceive, member
<1>1. CASE n \in DOMAIN inbox[s]
  <2>1. inbox'[s][n] = inbox[s][n] /\ inbox[s][n].event <= Len(log)
    BY <1>1, Receipts DEF IInv, ReceiptsArePast
  <2>2. inbox[s][n].event \in 1..MaxEvents
    BY <1>1, Types DEF Receipt
  <2>3. inbox[s][n].event \in 1..Len(log)
    BY <2>1, <2>2, Types, MaxEventsAssumption
  <2>4. log'[inbox[s][n].event] = log[inbox[s][n].event]
    BY <2>3, LogGrows
  <2>5. LET e == log[inbox[s][n].event] IN
        IF inbox[s][n].echo THEN e.socketId = s
        ELSE e.socketId # s /\ \E u \in Users : <<s, u, e.roomId>> \in joined
    BY <1>1 DEF IInv, OnlyMembersReceive, member
  <2>. QED
    BY <2>1, <2>4, <2>5, Lasts
<1>2. CASE Echoed(s, n)
  BY <1>2, Echo DEF Echoed
<1>3. CASE Copied(s, n)
  <2>1. PICK i \in Instances :
          LET e == log[cursor[i] + 1] IN
          /\ s # e.socketId /\ e.roomId \in Rooms /\ log' = log
          /\ inbox'[s][n] = [event |-> cursor[i] + 1, echo |-> FALSE]
          /\ listed(reg[i], s, e.roomId)
    BY <1>3 DEF Copied
  <2>2. inbox'[s][n].event = cursor[i] + 1 /\ ~ inbox'[s][n].echo
    BY <2>1, Copy
  <2>3. \E u \in Users : <<s, u, log[cursor[i] + 1].roomId>> \in joined
    BY <2>1 DEF listed, IInv, RegistriesFit
  <2>. QED
    BY <2>1, <2>2, <2>3, Lasts
<1>. QED
  BY <1>1, <1>2, <1>3, Receipts

LEMMA OrderIsKept ==
  ASSUME IInv, Next
  PROVE  RedisOrder'
<1>. TypeOK
  BY DEF IInv
<1> SUFFICES ASSUME NEW s \in Sockets, NEW n \in DOMAIN inbox'[s], NEW o \in DOMAIN inbox'[s],
                    n < o, ~inbox'[s][n].echo, ~inbox'[s][o].echo
             PROVE  inbox'[s][n].event <= inbox'[s][o].event
  BY DEF RedisOrder
<1>0. /\ DOMAIN inbox[s] = 1..Len(inbox[s]) /\ Len(inbox[s]) \in Nat
      /\ n \in Nat /\ o \in Nat /\ n >= 1
  <2>1. inbox'[s] \in Seq(Receipt)
    BY Receipts
  <2>2. n \in 1..Len(inbox'[s]) /\ o \in 1..Len(inbox'[s])
    BY <2>1
  <2>. QED
    BY <2>2, Types
<1>1. ~ Echoed(s, n) /\ ~ Echoed(s, o)
  BY Echo DEF Echoed
<1>2. CASE o \in DOMAIN inbox[s]
  <2>1. n \in DOMAIN inbox[s]
    BY <1>0, <1>2
  <2>2. inbox'[s][n] = inbox[s][n] /\ inbox'[s][o] = inbox[s][o]
    BY <1>2, <2>1, Receipts
  <2>. QED
    BY <1>2, <2>1, <2>2 DEF IInv, RedisOrder
<1>3. CASE Copied(s, o)
  <2>1. PICK i \in Instances :
          /\ connected(s) /\ home[s] = i /\ cursor[i] + 1 \in 1..Len(log)
          /\ inbox'[s][o] = [event |-> cursor[i] + 1, echo |-> FALSE]
    BY <1>3 DEF Copied
  <2>2. inbox'[s][o].event = cursor[i] + 1 /\ cursor[i] \in Nat
    BY <2>1, Copy, LogGrows
  <2>3. CASE n \in DOMAIN inbox[s]
    <3>1. inbox'[s][n] = inbox[s][n] /\ inbox[s][n].event <= cursor[i]
      BY <2>1, <2>3, Receipts DEF IInv, ReceiptsArePast
    <3>2. inbox[s][n].event \in Nat
      BY <2>3, Types, MaxEventsAssumption DEF Receipt
    <3>. QED
      BY <2>2, <3>1, <3>2
  <2>4. CASE Copied(s, n)
    <3>1. inbox'[s][n] = [event |-> cursor[i] + 1, echo |-> FALSE]
      BY <2>1, <2>4 DEF Copied
    <3>2. inbox'[s][n].event = cursor[i] + 1
      BY <3>1, Copy
    <3>. QED
      BY <2>2, <3>2
  <2>. QED
    BY <1>1, <2>3, <2>4, Receipts
<1>. QED
  BY <1>1, <1>2, <1>3, Receipts

LEMMA InInterval ==
  ASSUME NEW a \in Nat, NEW n \in Nat, NEW T \in SUBSET ((a + 1)..(a + n))
  PROVE  IsFiniteSet(T) /\ Cardinality(T) \in Nat /\ Cardinality(T) <= n
<1> DEFINE x == a + 1
           y == a + n
           I == x..y
<1>1. x \in Int /\ y \in Int /\ (IF x > y THEN 0 ELSE y - x + 1) = n
  OBVIOUS
<1>2. T \in SUBSET I
  OBVIOUS
<1>. HIDE DEF x, y
<1>3. IsFiniteSet(I) /\ Cardinality(I) = n
  BY <1>1, FS_Interval
<1>. HIDE DEF I
<1>. QED
  BY <1>2, <1>3, FS_Subset, FS_CardinalityType

LEMMA NoCopiesAdded ==
  ASSUME IInv, Next
  PROVE  NoExtraCopies'
<1>. TypeOK
  BY DEF IInv
<1> SUFFICES ASSUME NEW s \in Sockets, NEW k \in 1..Len(log')
             PROVE  Cardinality({n \in DOMAIN inbox'[s] : inbox'[s][n].event = k})
                    <= IF log'[k].socketId = s THEN 1
                       ELSE Cardinality({u \in Users : <<s, u, log'[k].roomId>> \in joined'})
  BY DEF NoExtraCopies
<1> DEFINE S == {n \in DOMAIN inbox[s] : inbox[s][n].event = k}
           T == {n \in DOMAIN inbox'[s] : inbox'[s][n].event = k}
           U == {u \in Users : <<s, u, log[k].roomId>> \in joined}
           V == {u \in Users : <<s, u, log'[k].roomId>> \in joined'}
           l == Len(inbox[s])
<1>0. /\ l \in Nat /\ DOMAIN inbox[s] = 1..l /\ Len(log) \in Nat /\ Len(log') \in Nat
      /\ k \in Nat /\ k >= 1
  BY Types, LogGrows
<1>1. /\ IsFiniteSet(U) /\ IsFiniteSet(V) /\ Cardinality(U) \in Nat /\ Cardinality(V) \in Nat
  BY UsersAssumption, FS_Subset, FS_CardinalityType
<1>2. ASSUME NEW n \in DOMAIN inbox[s]
      PROVE  inbox[s][n].event \in Nat /\ inbox[s][n].event <= Len(log)
  <2>1. inbox[s][n] \in Receipt
    BY Types
  <2>2. inbox[s][n].event \in Nat
    BY <2>1, MaxEventsAssumption DEF Receipt
  <2>. QED
    BY <2>2 DEF IInv, ReceiptsArePast
<1>3. CASE \A n \in T : n \in DOMAIN inbox[s]
  <2>1. T = S
    BY <1>3, Receipts
  <2>2. CASE k \in 1..Len(log)
    <3>1. log'[k] = log[k]
      BY <2>2, LogGrows
    <3>2. Cardinality(S) <= IF log[k].socketId = s THEN 1 ELSE Cardinality(U)
      BY <2>2 DEF IInv, NoExtraCopies
    <3>3. U \in SUBSET V
      BY <3>1, Lasts
    <3>4. Cardinality(U) <= Cardinality(V)
      BY <1>1, <3>3, FS_Subset
    <3>5. IsFiniteSet(S) /\ Cardinality(S) \in Nat
      <4>1. \A n \in S : n \in 1..l
        BY <1>0
      <4>. HIDE DEF S, l
      <4>2. S \in SUBSET ((0 + 1)..(0 + l))
        BY <1>0, <4>1
      <4>. QED
        BY <1>0, <4>2, InInterval
    <3>6. Cardinality(S) <= IF log'[k].socketId = s THEN 1 ELSE Cardinality(V)
      <4>. HIDE DEF S, U, V
      <4>. QED
        BY <1>1, <3>1, <3>2, <3>4, <3>5
    <3>. QED
      BY <2>1, <3>6
  <2>3. CASE k \notin 1..Len(log)
    <3>1. S = {}
      BY <1>0, <1>2, <2>3
    <3>2. Cardinality(T) = 0
      BY <2>1, <3>1, FS_EmptySet
    <3>3. Cardinality(T) <= IF log'[k].socketId = s THEN 1 ELSE Cardinality(V)
      <4>. HIDE DEF T, V
      <4>. QED
        BY <1>1, <3>2
    <3>. QED
      BY <3>3
  <2>. QED
    BY <2>2, <2>3
<1>4. ASSUME NEW n \in T, Echoed(s, n)
      PROVE  Cardinality(T) <= IF log'[k].socketId = s THEN 1 ELSE Cardinality(V)
  <2>1. /\ n = l + 1 /\ DOMAIN inbox'[s] = 1..n /\ inbox'[s][n].event = Len(log) + 1
        /\ log'[Len(log) + 1].socketId = s
    BY <1>4, Echo DEF Echoed
  <2>2. k = Len(log) + 1
    BY <2>1
  <2>3. \A m \in T : m = n
    <3> SUFFICES ASSUME NEW m \in T, m # n
                 PROVE  FALSE
      OBVIOUS
    <3>1. m \in DOMAIN inbox[s]
      BY <1>0, <2>1
    <3>2. inbox[s][m].event = Len(log) + 1
      BY <2>2, <3>1, Receipts
    <3>. QED
      BY <1>0, <1>2, <3>1, <3>2
  <2>4. T = {n}
    BY <2>3
  <2>5. Cardinality(T) = 1
    BY <2>4, FS_Singleton
  <2>. QED
    BY <2>1, <2>2, <2>5
<1>5. ASSUME NEW o \in T, Copied(s, o)
      PROVE  Cardinality(T) <= IF log'[k].socketId = s THEN 1 ELSE Cardinality(V)
  <2>1. PICK i \in Instances :
          LET e == log[cursor[i] + 1]
          IN /\ home[s] = i /\ s # e.socketId /\ cursor[i] + 1 \in 1..Len(log) /\ log' = log
             /\ inbox'[s][o] = [event |-> cursor[i] + 1, echo |-> FALSE]
             /\ e.roomId \in Rooms
             /\ DOMAIN inbox'[s] = 1..(l + Cardinality(usersListing(i, s, e.roomId)))
    BY <1>5 DEF Copied
  <2>2. k = cursor[i] + 1 /\ cursor[i] \in Nat
    BY <2>1, Copy, LogGrows
  <2> DEFINE W == usersListing(i, s, log[k].roomId)
             c == Cardinality(W)
  <2>3. W \in SUBSET V
    BY <2>1, <2>2, Lasts DEF usersListing, IInv, RegistriesFit
  <2>4. IsFiniteSet(W) /\ c \in Nat /\ c <= Cardinality(V)
    BY <1>1, <2>3, FS_Subset, FS_CardinalityType
  <2>5. \A n \in T : n \notin DOMAIN inbox[s]
    <3> SUFFICES ASSUME NEW n \in DOMAIN inbox[s], inbox[s][n].event = k
                 PROVE  FALSE
      BY Receipts
    <3>1. ~ inbox[s][n].echo => k <= cursor[i]
      BY <2>1 DEF IInv, ReceiptsArePast
    <3>2. inbox[s][n].echo => log[k].socketId = s
      BY DEF IInv, OnlyMembersReceive
    <3>. QED
      BY <2>1, <2>2, <3>1, <3>2
  <2>6. T \in SUBSET ((l + 1)..(l + c))
    <3>1. \A n \in T : n \in 1..(l + c) /\ n \notin 1..l
      BY <1>0, <2>1, <2>2, <2>5
    <3>. HIDE DEF T, c, l
    <3>. QED
      BY <1>0, <2>4, <3>1
  <2>7. IsFiniteSet(T) /\ Cardinality(T) \in Nat /\ Cardinality(T) <= c
    <3>. HIDE DEF T, c, l
    <3>. QED
      BY <1>0, <2>4, <2>6, InInterval
  <2>9. Cardinality(T) <= Cardinality(V)
    <3>. HIDE DEF T, c, V
    <3>. QED
      BY <1>1, <2>4, <2>7
  <2>. QED
    BY <2>1, <2>2, <2>9
<1>. QED
  BY <1>3, <1>4, <1>5, Receipts

-----------------------------------------------------------------------------
(* Handlers, and what they publish. *)

LEMMA Handlers ==
  ASSUME IInv, NEW m \in Messages, sends[m] # undefined, NEW g \in {"created", "done"}
  PROVE  /\ sends[m] \in Handler
         /\ [sends EXCEPT ![m].stage = g] \in [Messages -> Handler \cup {undefined}]
         /\ [sends EXCEPT ![m].stage = g][m] # undefined
         /\ [sends EXCEPT ![m].stage = g][m].stage = g
         /\ \A o \in Messages \ {m} : [sends EXCEPT ![m].stage = g][o] = sends[o]
<1>1. sends \in [Messages -> Handler \cup {undefined}] /\ sends[m] \in Handler
  BY DEF IInv, TypeOK
<1> DEFINE h == [sends[m] EXCEPT !.stage = g]
<1>2. h \in Handler /\ h.stage = g
  BY <1>1 DEF Handler
<1>3. h # undefined
  BY <1>2, MessagesAssumption
<1>4. [sends EXCEPT ![m].stage = g] = [sends EXCEPT ![m] = h]
  BY <1>1
<1>. HIDE DEF h
<1>. QED
  BY <1>1, <1>2, <1>3, <1>4

LEMMA Contents ==
  /\ joinEvent \notin Messages
  /\ \A k \in Notices : handlersOf(k) \cap Messages = {}
  /\ "startTyping" \notin Messages /\ "stopTyping" \notin Messages
  /\ joinEvent # "startTyping" /\ joinEvent # "stopTyping"
BY MessagesAssumption DEF handlersOf, joinEvent

\* An event is an old one, or what JoinRoom, Noticed or MessageSent publishes.
Published(k) ==
  \/ k \in 1..Len(log) /\ log'[k] = log[k]
  \/ /\ k = Len(log) + 1 /\ k \notin 1..Len(log)
     /\ \/ log'[k].data = joinEvent
        \/ \E h \in lookups :
             /\ Noticed(h)
             /\ log'[k] = [socketId |-> h.socket, roomId |-> h.roomId, data |-> h.handler]
        \/ \E m \in Messages : MessageSent(m) /\ log'[k].data = m

LEMMA Publications ==
  ASSUME IInv, Next, NEW k \in 1..Len(log')
  PROVE  Published(k)
<1>. TypeOK
  BY DEF IInv
<1>0. Len(log) \in Nat
  BY Types
<1>1. CASE k \in 1..Len(log)
  BY <1>1, LogGrows DEF Published
<1>2. ASSUME NEW s \in Sockets, NEW r \in Rooms, NEW d \in Content, propagate(s, r, d),
             k \notin 1..Len(log)
      PROVE  /\ k = Len(log) + 1
             /\ log'[k] = [socketId |-> s, roomId |-> r, data |-> d] /\ log'[k].data = d
  <2>1. Len(log') = Len(log) + 1 /\ log'[Len(log) + 1] = [socketId |-> s, roomId |-> r, data |-> d]
    BY <1>2, Propagates
  <2>2. k = Len(log) + 1
    BY <1>0, <1>2, <2>1
  <2>. QED
    BY <2>1, <2>2
<1>3. ASSUME NEW s \in Sockets, NEW u \in Users, NEW r \in Rooms, JoinRoom(s, u, r),
             k \notin 1..Len(log)
      PROVE  Published(k)
  <2>1. propagate(s, r, joinEvent) /\ joinEvent \in Content
    BY <1>3 DEF JoinRoom, Content
  <2>. QED
    BY <1>2, <1>3, <2>1 DEF Published
<1>4. ASSUME NEW h \in lookups, Noticed(h), k \notin 1..Len(log)
      PROVE  Published(k)
  <2>1. h.socket \in Sockets /\ h.roomId \in Rooms /\ h.handler \in Content
    BY DEF TypeOK, Lookup, Content
  <2>2. propagate(h.socket, h.roomId, h.handler)
    BY <1>4 DEF Noticed
  <2>. QED
    BY <1>2, <1>4, <2>1, <2>2 DEF Published
<1>5. ASSUME NEW m \in Messages, MessageSent(m), k \notin 1..Len(log)
      PROVE  Published(k)
  <2>1. sends[m] \in Handler /\ m \in Content
    BY <1>5 DEF MessageSent, TypeOK, Content
  <2>2. sends[m].socket \in Sockets /\ sends[m].roomId \in Rooms
    BY <2>1 DEF Handler
  <2>3. propagate(sends[m].socket, sends[m].roomId, m)
    BY <1>5 DEF MessageSent
  <2>. QED
    BY <1>2, <1>5, <2>1, <2>2, <2>3 DEF Published
<1>6. CASE log' = log
  BY <1>1, <1>6
<1>. QED
  BY <1>1, <1>3, <1>4, <1>5, <1>6
     DEF Next, Connect, SendMessage, Notice, NoticeFails, Disconnect, Created, SendFails,
         AddParticipant, Consume, Exit, Start, Resubscribe, subscribeAfresh, redisVars

\* What becomes of the handlers of messages.
LEMMA SendsChange ==
  ASSUME IInv, Next
  PROVE  \/ sends' = sends /\ stored' = stored /\ \A m \in Messages : ~MessageSent(m)
         \/ \E m \in Messages, g \in {"creating", "created", "done"} :
              /\ sends' \in [Messages -> Handler \cup {undefined}]
              /\ sends'[m] # undefined /\ sends'[m].stage = g
              /\ \A o \in Messages \ {m} : sends'[o] = sends[o] /\ ~MessageSent(o)
              /\ sends[m] # undefined => sends[m].stage # "done"
              /\ stored \subseteq stored' /\ stored' \subseteq Messages
              /\ g = "created" => m \in stored'
              /\ MessageSent(m) => g = "done" /\ sends[m] # undefined /\ sends[m].stage = "created"
<1>. TypeOK
  BY DEF IInv
<1>0. sends \in [Messages -> Handler \cup {undefined}] /\ stored \subseteq Messages
  BY DEF TypeOK
<1> DEFINE Goal(m, g) ==
             /\ sends' \in [Messages -> Handler \cup {undefined}]
             /\ sends'[m] # undefined /\ sends'[m].stage = g
             /\ \A o \in Messages \ {m} : sends'[o] = sends[o] /\ ~MessageSent(o)
             /\ sends[m] # undefined => sends[m].stage # "done"
             /\ stored \subseteq stored' /\ stored' \subseteq Messages
             /\ g = "created" => m \in stored'
             /\ MessageSent(m) => g = "done" /\ sends[m] # undefined /\ sends[m].stage = "created"
<1>1. ASSUME NEW m \in Messages, MessageSent(m)
      PROVE  /\ sends' = [sends EXCEPT ![m].stage = "done"]
             /\ sends[m] # undefined /\ sends[m].stage = "created" /\ stored' = stored
             /\ sends'[m].stage = "done"
  BY <1>1, Handlers DEF MessageSent, hasMessage
<1>2. ASSUME NEW s \in Sockets, NEW u \in Users, NEW r \in Rooms, NEW m \in Messages,
             SendMessage(s, u, r, m)
      PROVE  Goal(m, "creating")
  <2> DEFINE h == [socket |-> s, roomId |-> r, stage |-> "creating"]
  <2>1. h \in Handler /\ h # undefined /\ h.stage = "creating"
    BY MessagesAssumption DEF Handler
  <2>2. sends' = [sends EXCEPT ![m] = h] /\ sends[m] = undefined /\ stored' = stored
    BY <1>2 DEF SendMessage
  <2>. HIDE DEF h
  <2>3. /\ sends' \in [Messages -> Handler \cup {undefined}] /\ sends'[m] = h
        /\ \A o \in Messages \ {m} : sends'[o] = sends[o]
    BY <1>0, <2>1, <2>2
  <2>4. \A o \in Messages : ~MessageSent(o)
    <3> SUFFICES ASSUME NEW o \in Messages, MessageSent(o)
                 PROVE  FALSE
      OBVIOUS
    <3>1. sends[o] # undefined /\ sends[o].stage = "created" /\ sends'[o].stage = "done"
      BY <1>1
    <3>2. o # m
      BY <2>2, <3>1
    <3>. QED
      BY <2>3, <3>1, <3>2
  <2>. QED
    BY <1>0, <2>1, <2>2, <2>3, <2>4
<1>3. ASSUME NEW m \in Messages, NEW g \in {"created", "done"}, sends[m] # undefined,
             sends[m].stage # "done", sends' = [sends EXCEPT ![m].stage = g],
             stored \subseteq stored', stored' \subseteq Messages, g = "created" => m \in stored',
             MessageSent(m) => g = "done"
      PROVE  Goal(m, g)
  <2>1. /\ sends' \in [Messages -> Handler \cup {undefined}]
        /\ sends'[m] # undefined /\ sends'[m].stage = g
        /\ \A o \in Messages \ {m} : sends'[o] = sends[o]
    BY <1>3, Handlers
  <2>2. ASSUME NEW o \in Messages \ {m}
        PROVE  ~MessageSent(o)
    <3> SUFFICES ASSUME MessageSent(o)
                 PROVE  FALSE
      OBVIOUS
    <3>1. sends[o].stage = "created" /\ sends'[o].stage = "done"
      BY <1>1
    <3>. QED
      BY <2>1, <3>1
  <2>. QED
    BY <1>1, <1>3, <2>1, <2>2
<1>4. ASSUME NEW m \in Messages, Created(m)
      PROVE  Goal(m, "created")
  <2>1. /\ sends[m] # undefined /\ sends[m].stage = "creating"
        /\ sends' = [sends EXCEPT ![m].stage = "created"] /\ stored' = stored \cup {m}
    BY <1>4 DEF Created
  <2>2. ~MessageSent(m)
    BY <1>1, <2>1
  <2>. QED
    BY <1>0, <1>3, <2>1, <2>2
<1>5. ASSUME NEW m \in Messages, SendFails(m) \/ MessageSent(m)
      PROVE  Goal(m, "done")
  <2>1. /\ sends[m] # undefined /\ sends[m].stage # "done"
        /\ sends' = [sends EXCEPT ![m].stage = "done"] /\ stored' = stored
    BY <1>5 DEF SendFails, MessageSent, hasMessage
  <2>. QED
    BY <1>0, <1>3, <2>1
<1>6. sends' = sends => \A m \in Messages : ~MessageSent(m)
  BY <1>1
<1>. HIDE DEF Goal
<1> DEFINE Changes == \E m \in Messages, g \in {"creating", "created", "done"} : Goal(m, g)
<1>7. ASSUME NEW m \in Messages
      PROVE  /\ \A s \in Sockets, u \in Users, r \in Rooms : SendMessage(s, u, r, m) => Changes
             /\ Created(m) \/ SendFails(m) \/ MessageSent(m) => Changes
  BY <1>2, <1>4, <1>5
<1>. HIDE DEF Changes
<1> DEFINE Same == sends' = sends /\ stored' = stored
<1>8. Same \/ Changes
  <2>1. \A s \in Sockets, u \in Users :
          /\ \A i \in Instances : Connect(s, u, i) => Same
          /\ \A r \in Rooms : JoinRoom(s, u, r) => Same
          /\ \A r \in Rooms, k \in Notices : Notice(s, u, r, k) => Same
    BY DEF Connect, JoinRoom, Notice
  <2>2. \A h \in lookups : Noticed(h) \/ NoticeFails(h) => Same
    BY DEF Noticed, NoticeFails
  <2>3. /\ \A s \in Sockets : Disconnect(s) => Same
        /\ \A u \in Users, r \in Rooms : AddParticipant(u, r) => Same
    BY DEF Disconnect, AddParticipant
  <2>4. \A i \in Instances : Consume(i) \/ Exit(i) \/ Start(i) \/ Resubscribe(i) => Same
    BY DEF Consume, Exit, Start, Resubscribe
  <2>. HIDE DEF Same
  <2>. QED
    BY <1>7, <2>1, <2>2, <2>3, <2>4 DEF Next
<1>. QED
  BY <1>6, <1>8 DEF Same, Changes, Goal

LEMMA StoredIsKept ==
  ASSUME IInv, Next
  PROVE  SendsEndOnce' /\ BroadcastIsStored'
<1>. TypeOK
  BY DEF IInv
<1>1. \A m \in Messages : \A k \in 1..Len(log) : log[k].data = m =>
        sends[m] # undefined /\ sends[m].stage = "done"
  BY DEF IInv, SendsEndOnce
<1>2. \A m \in Messages : sends[m] # undefined /\ sends[m].stage = "created" => m \in stored
  BY DEF IInv, SendsEndOnce
<1>3. ASSUME NEW k \in 1..Len(log'), k \notin 1..Len(log)
      PROVE  /\ k = Len(log) + 1
             /\ log'[k].data \in Messages => MessageSent(log'[k].data)
  <2>1. Published(k)
    BY Publications
  <2>2. ASSUME NEW h \in lookups,
               log'[k] = [socketId |-> h.socket, roomId |-> h.roomId, data |-> h.handler]
        PROVE  log'[k].data \notin Messages
    <3>1. h.handler \notin Messages
      BY Contents DEF TypeOK, Lookup
    <3>. QED
      BY <2>2, <3>1
  <2>. QED
    BY <1>3, <2>1, <2>2, Contents DEF Published
<1>4. ASSUME NEW m \in Messages, MessageSent(m)
      PROVE  /\ sends[m] # undefined /\ sends[m].stage = "created" /\ stored \subseteq stored'
             /\ sends'[m] # undefined /\ sends'[m].stage = "done"
  BY <1>4, SendsChange
<1>5. stored \subseteq stored'
  BY SendsChange
<1>6. ASSUME NEW m \in Messages, NEW k \in 1..Len(log'), log'[k].data = m
      PROVE  sends'[m] # undefined /\ sends'[m].stage = "done"
  <2>1. CASE k \in 1..Len(log)
    <3>1. log[k].data = m
      BY <1>6, <2>1, LogGrows
    <3>2. sends[m] # undefined /\ sends[m].stage = "done"
      BY <1>1, <2>1, <3>1
    <3>. QED
      BY <3>2, SendsChange
  <2>2. CASE k \notin 1..Len(log)
    BY <1>3, <1>4, <1>6, <2>2
  <2>. QED
    BY <2>1, <2>2
<1>7. ASSUME NEW m \in Messages, sends'[m] # undefined, sends'[m].stage = "created"
      PROVE  m \in stored'
  BY <1>2, <1>7, SendsChange
<1>8. SendsEndOnce'
  BY <1>6, <1>7 DEF SendsEndOnce
<1>9. ASSUME NEW k \in 1..Len(log'), log'[k].data \in Messages
      PROVE  log'[k].data \in stored'
  <2>1. CASE k \in 1..Len(log)
    <3>1. log'[k] = log[k] /\ log[k].data \in stored
      BY <1>9, <2>1, LogGrows DEF IInv, BroadcastIsStored
    <3>. QED
      BY <1>5, <3>1
  <2>2. CASE k \notin 1..Len(log)
    BY <1>2, <1>3, <1>4, <1>9, <2>2
  <2>. QED
    BY <2>1, <2>2
<1>10. ASSUME NEW k \in 1..Len(log'), NEW l \in 1..Len(log'), log'[k].data \in Messages,
              log'[k].data = log'[l].data
       PROVE  k = l
  <2>1. CASE k \in 1..Len(log) /\ l \in 1..Len(log)
    <3>1. log'[k] = log[k] /\ log'[l] = log[l]
      BY <2>1, LogGrows
    <3>. QED
      BY <1>10, <2>1, <3>1 DEF IInv, BroadcastIsStored
  <2>2. CASE k \notin 1..Len(log) /\ l \notin 1..Len(log)
    BY <1>3, <2>2
  <2>3. ASSUME NEW x \in 1..Len(log), NEW y \in 1..Len(log'), y \notin 1..Len(log),
               log'[y].data \in Messages, log'[x].data = log'[y].data
        PROVE  FALSE
    <3>1. log[x].data = log'[y].data
      BY <2>3, LogGrows
    <3>2. sends[log'[y].data].stage = "created"
      BY <1>3, <1>4, <2>3
    <3>3. sends[log'[y].data].stage = "done"
      BY <1>1, <2>3, <3>1
    <3>. QED
      BY <3>2, <3>3
  <2>. QED
    BY <1>10, <2>1, <2>2, <2>3
<1>11. BroadcastIsStored'
  BY <1>9, <1>10 DEF BroadcastIsStored
<1>. QED
  BY <1>8, <1>11

-----------------------------------------------------------------------------
(* Types. *)

LEMMA TypesAreKept ==
  ASSUME IInv, Next
  PROVE  TypeOK'
<1>. TypeOK
  BY DEF IInv
<1>1. status' \in [Instances -> {"up", "failing", "down"}]
  <2>1. status \in [Instances -> {"up", "failing", "down"}]
    BY DEF TypeOK
  <2>2. \A i \in Instances : Consume(i) \/ Exit(i) \/ Start(i) \/ Resubscribe(i) =>
          \/ status' = status
          \/ \E x \in {"up", "failing", "down"} : status' = [status EXCEPT ![i] = x]
    BY DEF Consume, Exit, Start, Resubscribe, registryVars
  <2>3. \/ status' = status
        \/ \E i \in Instances, x \in {"up", "failing", "down"} : status' = [status EXCEPT ![i] = x]
    BY <2>2
       DEF Next, Connect, JoinRoom, SendMessage, Notice, Noticed, NoticeFails, Disconnect, Created,
           SendFails, MessageSent, AddParticipant, registryVars
  <2>. QED
    BY <2>1, <2>3
<1>2. /\ conn' \in [Sockets -> {"new", "open", "closed"}]
      /\ home' \in [Sockets -> Instances \cup {undefined}]
  <2>1. /\ conn \in [Sockets -> {"new", "open", "closed"}]
        /\ home \in [Sockets -> Instances \cup {undefined}]
    BY DEF TypeOK
  <2>2. ASSUME NEW s \in Sockets, NEW u \in Users, NEW i \in Instances, Connect(s, u, i)
        PROVE  /\ conn' \in [Sockets -> {"new", "open", "closed"}]
               /\ home' \in [Sockets -> Instances \cup {undefined}]
    BY <2>1, <2>2 DEF Connect
  <2>3. ASSUME NEW s \in Sockets, Disconnect(s)
        PROVE  conn' \in [Sockets -> {"new", "open", "closed"}] /\ home' = home
    BY <2>1, <2>3 DEF Disconnect
  <2>4. ASSUME NEW i \in Instances, Exit(i)
        PROVE  conn' \in [Sockets -> {"new", "open", "closed"}] /\ home' = home
    BY <2>1, <2>4 DEF Exit
  <2>. QED
    BY <2>1, <2>2, <2>3, <2>4
       DEF Next, JoinRoom, SendMessage, Notice, Noticed, NoticeFails, Created, SendFails, MessageSent,
           AddParticipant, Consume, Start, Resubscribe, registryVars
<1>3. participants' \in SUBSET (Users \X Rooms) /\ joined' \in SUBSET (Sockets \X Users \X Rooms)
  <2> DEFINE Goal == /\ participants' \subseteq Users \X Rooms
                     /\ joined' \subseteq Sockets \X Users \X Rooms
  <2>0. participants \subseteq Users \X Rooms /\ joined \subseteq Sockets \X Users \X Rooms
    BY DEF TypeOK
  <2>1. \A s \in Sockets, u \in Users :
          /\ \A i \in Instances : Connect(s, u, i) => Goal
          /\ \A r \in Rooms : JoinRoom(s, u, r) => Goal
          /\ \A r \in Rooms, m \in Messages : SendMessage(s, u, r, m) => Goal
          /\ \A r \in Rooms, k \in Notices : Notice(s, u, r, k) => Goal
    BY <2>0 DEF Connect, JoinRoom, SendMessage, Notice
  <2>2. \A h \in lookups : Noticed(h) \/ NoticeFails(h) => Goal
    BY <2>0 DEF Noticed, NoticeFails
  <2>3. /\ \A s \in Sockets : Disconnect(s) => Goal
        /\ \A u \in Users, r \in Rooms : AddParticipant(u, r) => Goal
    BY <2>0 DEF Disconnect, AddParticipant
  <2>4. \A i \in Instances : Consume(i) \/ Exit(i) \/ Start(i) \/ Resubscribe(i) => Goal
    BY <2>0 DEF Consume, Exit, Start, Resubscribe
  <2>5. \A m \in Messages : Created(m) \/ SendFails(m) \/ MessageSent(m) => Goal
    BY <2>0 DEF Created, SendFails, MessageSent
  <2>. HIDE DEF Goal
  <2>6. Goal
    BY <2>1, <2>2, <2>3, <2>4, <2>5 DEF Next
  <2>. QED
    BY <2>6 DEF Goal
<1>5. sends' \in [Messages -> Handler \cup {undefined}] /\ stored' \in SUBSET Messages
  BY SendsChange DEF TypeOK
<1>6. lookups' \in SUBSET Lookup
  <2>1. lookups \subseteq Lookup
    BY DEF TypeOK
  <2>2. ASSUME NEW s \in Sockets, NEW u \in Users, NEW r \in Rooms, NEW k \in Notices,
               Notice(s, u, r, k)
        PROVE  lookups' \subseteq Lookup
    <3>1. PICK p \in Packets :
            lookups' = lookups \cup {[packet |-> p, socket |-> s, userId |-> u, roomId |-> r,
                                     handler |-> n] : n \in handlersOf(k)}
      BY <2>2 DEF Notice
    <3>2. \A n \in handlersOf(k) :
            [packet |-> p, socket |-> s, userId |-> u, roomId |-> r, handler |-> n] \in Lookup
      BY DEF Lookup
    <3>. QED
      BY <2>1, <3>1, <3>2
  <2>3. ASSUME NEW h \in lookups, Noticed(h) \/ NoticeFails(h)
        PROVE  lookups' \subseteq Lookup
    BY <2>1, <2>3 DEF Noticed, NoticeFails
  <2> DEFINE Goal == lookups' \subseteq Lookup
  <2>4. lookups' = lookups => Goal
    BY <2>1
  <2>5. \A s \in Sockets, u \in Users :
          /\ \A i \in Instances : Connect(s, u, i) => Goal
          /\ \A r \in Rooms : JoinRoom(s, u, r) => Goal
          /\ \A r \in Rooms, m \in Messages : SendMessage(s, u, r, m) => Goal
          /\ \A r \in Rooms, k \in Notices : Notice(s, u, r, k) => Goal
    BY <2>1, <2>2, <2>4 DEF Connect, JoinRoom, SendMessage
  <2>6. /\ \A s \in Sockets : Disconnect(s) => Goal
        /\ \A u \in Users, r \in Rooms : AddParticipant(u, r) => Goal
    BY <2>4 DEF Disconnect, AddParticipant
  <2>7. \A i \in Instances : Consume(i) \/ Exit(i) \/ Start(i) \/ Resubscribe(i) => Goal
    BY <2>4 DEF Consume, Exit, Start, Resubscribe
  <2>8. \A m \in Messages : Created(m) \/ SendFails(m) \/ MessageSent(m) => Goal
    BY <2>4 DEF Created, SendFails, MessageSent
  <2>9. \A h \in lookups : Noticed(h) \/ NoticeFails(h) => Goal
    BY <2>3
  <2>. HIDE DEF Goal
  <2>10. Goal
    BY <2>5, <2>6, <2>7, <2>8, <2>9 DEF Next
  <2>. QED
    BY <2>10 DEF Goal
<1>7. inbox' \in [Sockets -> Seq(Receipt)]
  <2>1. inbox \in [Sockets -> Seq(Receipt)] /\ RegistriesFit
    BY DEF IInv, TypeOK
  <2>. QED
    BY <2>1, Flow, Propagates, Consumes DEF Kept, Quiet
<1>. QED
  BY <1>1, <1>2, <1>3, <1>5, <1>6, <1>7, RegistriesStayFit, LogGrows DEF TypeOK

-----------------------------------------------------------------------------
(* The invariant, and what follows from it. *)

LEMMA Initially == Init => IInv
<1> SUFFICES ASSUME Init
             PROVE  IInv
  OBVIOUS
<1>. USE DEF Init
<1>1. TypeOK
  BY NewRegistry, MaxEventsAssumption DEF TypeOK
<1>2. ConnectedAreHome
  BY DEF ConnectedAreHome, connected
<1>3. RegistriesFit
  <2>1. \A r \in Rooms, e \in Entry : roomSockets(newRegistry, r)[e] = 0
    BY NewRegistry DEF emptyList
  <2>2. \A s \in Sockets, u \in Users, r \in Rooms : ~ listedAs(newRegistry, s, u, r)
    BY <2>1 DEF listedAs, Entry
  <2>3. \A s \in Sockets, r \in Rooms : newRegistry.socketRoomState[s] # r
    BY UndefinedAssumption DEF newRegistry
  <2>4. \A r \in Rooms, e \in Entry : roomSockets(newRegistry, r)[e] <= 1
    BY <2>1
  <2>5. \A i \in Instances : reg[i] = newRegistry
    OBVIOUS
  <2>. QED
    BY <2>2, <2>3, <2>4, <2>5 DEF RegistriesFit, connected
<1>4. ReceiptsArePast /\ MissedArePast /\ OnlyMembersReceive /\ RedisOrder
  BY DEF ReceiptsArePast, MissedArePast, OnlyMembersReceive, RedisOrder
<1>5. NoExtraCopies /\ BroadcastIsStored
  BY DEF NoExtraCopies, BroadcastIsStored
<1>6. SendsEndOnce
  BY DEF SendsEndOnce
<1>. QED
  BY <1>1, <1>2, <1>3, <1>4, <1>5, <1>6 DEF IInv

LEMMA Stutters == IInv /\ UNCHANGED vars => IInv'
<1> SUFFICES ASSUME IInv, UNCHANGED vars
             PROVE  IInv'
  OBVIOUS
<1>. USE DEF IInv, vars, registryVars, redisVars
<1>1. TypeOK'
  BY DEF TypeOK
<1>2. ConnectedAreHome'
  BY DEF ConnectedAreHome, connected, running
<1>3. RegistriesFit'
  BY DEF RegistriesFit, connected
<1>4. ReceiptsArePast' /\ MissedArePast'
  BY DEF ReceiptsArePast, MissedArePast
<1>5. OnlyMembersReceive'
  BY DEF OnlyMembersReceive, member
<1>6. NoExtraCopies'
  BY DEF NoExtraCopies
<1>7. RedisOrder'
  BY DEF RedisOrder
<1>8. SendsEndOnce' /\ BroadcastIsStored'
  BY DEF SendsEndOnce, BroadcastIsStored
<1>. QED
  BY <1>1, <1>2, <1>3, <1>4, <1>5, <1>6, <1>7, <1>8

THEOREM Invariance == Spec => []IInv
<1>1. IInv /\ [Next]_vars => IInv'
  <2>1. IInv /\ Next => IInv'
    BY TypesAreKept, HomesAreKept, RegistriesStayFit, ReceiptsStayPast, LogGrows, OnlyMembersStill,
       NoCopiesAdded, OrderIsKept, StoredIsKept DEF IInv
  <2>. QED
    BY <2>1, Stutters
<1>. QED
  BY <1>1, Initially, PTL DEF Spec

\* Every state is of the types declared for the processes, sockets and collections.
THEOREM TypeCorrect == Spec => []TypeOK
BY Invariance, PTL DEF IInv

\* What handlers emit and publish reaches members of the room only, the sender by the
\* echo alone (RedisPropagatorService.consumeSendEvent filters it out of the room's array).
THEOREM OnlyMembers == Spec => []OnlyMembersReceive
BY Invariance, PTL DEF IInv

\* Joining a room again, on any process and after any restart, makes no second copy of
\* an event: the arrays of SocketStateService list a socket once per user.
THEOREM NoDoubleDelivery == Spec => []NoExtraCopies
BY Invariance, PTL DEF IInv

\* Sockets get the events of the channel in the order Redis has them, through restarts
\* and new subscriptions.
THEOREM OneOrder == Spec => []RedisOrder
BY Invariance, PTL DEF IInv

\* MessageService.createMessage answers with a message that is in the collection, and
\* the gateway publishes it in one event.
THEOREM StoredBeforeSeen == Spec => []BroadcastIsStored
BY Invariance, PTL DEF IInv

\* The consumer of a process emits the event to every socket of the process that joined
\* the room: addUserJoinRoom listed it and nothing but its disconnection takes it out.
THEOREM ConsumedIsEmitted == Spec => ConsumeReachesMembers
<1> DEFINE Reaches(i, s) ==
             LET e == log[cursor'[i]] IN
             /\ cursor'[i] = cursor[i] + 1 /\ missed'[i] = missed[i]
             /\ connected(s) /\ home[s] = i /\ s # e.socketId /\ member(s, e.roomId)
             => Len(inbox'[s]) > Len(inbox[s])
<1>1. ASSUME IInv, [Next]_vars, NEW i \in Instances, NEW s \in Sockets
      PROVE  Reaches(i, s)
  <2>. TypeOK /\ RegistriesFit
    BY <1>1 DEF IInv
  <2> SUFFICES ASSUME cursor'[i] = cursor[i] + 1, missed'[i] = missed[i], connected(s), home[s] = i,
                      s # log[cursor[i] + 1].socketId, member(s, log[cursor[i] + 1].roomId)
               PROVE  Len(inbox'[s]) > Len(inbox[s])
    OBVIOUS
  <2>1. /\ cursor \in [Instances -> 0..Len(log)] /\ missed \in [Instances -> SUBSET (1..Len(log))]
        /\ cursor[i] \in Nat /\ Len(log) \in Nat /\ cursor[i] <= Len(log)
        /\ cursor[i] + 1 # cursor[i]
    BY DEF TypeOK
  <2>2. ~ Kept /\ ~ UNCHANGED vars /\ cursor' # cursor
    BY <2>1 DEF Kept, vars, redisVars
  \* A process that subscribes afresh is past more events, but has missed them.
  <2>3. ASSUME NEW j \in Instances, subscribeAfresh(j)
        PROVE  FALSE
    <3>1. /\ cursor' = [cursor EXCEPT ![j] = Len(log)]
          /\ missed' = [missed EXCEPT ![j] = missed[j] \cup (cursor[j] + 1)..Len(log)]
      BY <2>1, <2>3 DEF subscribeAfresh
    <3>2. i = j
      BY <2>1, <3>1
    <3>3. Len(log) = cursor[i] + 1 /\ missed[i] = missed[i] \cup (cursor[i] + 1)..Len(log)
      BY <2>1, <3>1, <3>2
    <3>4. cursor[i] + 1 \in (cursor[i] + 1)..Len(log)
      BY <2>1, <3>3
    <3>5. cursor[i] + 1 <= cursor[i]
      BY <1>1, <3>3, <3>4 DEF IInv, MissedArePast
    <3>. QED
      BY <2>1, <3>5
  <2>4. ASSUME NEW t \in Sockets, NEW r \in Rooms, NEW d \in Content, propagate(t, r, d)
        PROVE  FALSE
    BY <2>2, <2>4 DEF propagate
  <2>5. PICK j \in Instances : Consume(j) /\ cursor' # cursor
    BY <1>1, <2>2, <2>3, <2>4, Flow
  <2>6. Emitted(j)
    BY <2>5, Consumes
  <2>7. j = i
    BY <2>1, <2>6 DEF Emitted
  <2> DEFINE e == log[cursor[i] + 1]
             c == copies(i, s, e.roomId)
             l == Len(inbox[s])
  <2>8. cursor[i] + 1 \in 1..Len(log) /\ isReceiver(i, s, e) /\ DOMAIN inbox'[s] = 1..(l + c)
    BY <2>6, <2>7 DEF Emitted, isReceiver
  <2>9. e.roomId \in Rooms
    BY <2>8, Types DEF Event
  <2>10. listed(reg[i], s, e.roomId)
    BY <2>9 DEF RegistriesFit, member, listed
  <2>11. c \in Nat /\ c > 0 /\ l \in Nat
    BY <2>9, <2>10, CopiesAreUsers, Types
  <2>12. inbox'[s] \in Seq(Receipt)
    BY <2>5, Consumes
  <2>. HIDE DEF c, l
  <2>13. Len(inbox'[s]) = l + c
    BY <2>8, <2>11, <2>12
  <2>. QED
    BY <2>11, <2>13 DEF l
<1>2. IInv /\ [Next]_vars => [\A i \in Instances, s \in Sockets : Reaches(i, s)]_vars
  BY <1>1
<1>. QED
  BY <1>2, Invariance, PTL DEF Spec, ConsumeReachesMembers

-----------------------------------------------------------------------------
(* The processes together are RoomBroadcast: every step is one of its steps or changes *)
(* nothing that it shows.                                                              *)

shown == <<conn, home, joined, log, cursor, inbox>>

LEMMA ConnectRefines ==
  ASSUME NEW s \in Sockets, NEW u \in Users, NEW i \in Instances, Connect(s, u, i)
  PROVE  Abstract!Open(s, i)
BY DEF Connect, Abstract!Open, redisVars

\* What handlers return is published as RoomBroadcast has it.
LEMMA PropagateRefines ==
  ASSUME TypeOK, NEW s \in Sockets, NEW r \in Rooms, NEW d, propagate(s, r, d), connected(s),
         UNCHANGED <<conn, home>>
  PROVE  Abstract!Publish(s, r, d)
<1>1. Len(log') = Len(log) + 1
  BY DEF propagate, TypeOK
<1>. QED
  BY <1>1 DEF propagate, connected, Abstract!Publish

LEMMA JoinRefines ==
  ASSUME TypeOK, NEW s \in Sockets, NEW u \in Users, NEW r \in Rooms, JoinRoom(s, u, r)
  PROVE  Abstract!Join(s, u, r)
<1>1. Abstract!Publish(s, r, joinEvent)
  BY PropagateRefines DEF JoinRoom
<1>. QED
  BY <1>1 DEF JoinRoom, Abstract!Join

LEMMA MessageRefines ==
  ASSUME TypeOK, NEW m \in Messages, MessageSent(m)
  PROVE  Abstract!Send(sends[m].socket, sends[m].roomId, m)
         /\ sends[m].socket \in Sockets /\ sends[m].roomId \in Rooms
<1>1. sends[m].socket \in Sockets /\ sends[m].roomId \in Rooms
  BY DEF MessageSent, TypeOK, Handler
<1>2. Abstract!Publish(sends[m].socket, sends[m].roomId, m)
  BY <1>1, PropagateRefines DEF MessageSent, registryVars
<1>. QED
  BY <1>1, <1>2 DEF MessageSent, Abstract!Send

LEMMA NoticeRefines ==
  ASSUME TypeOK, NEW h \in lookups, Noticed(h)
  PROVE  Abstract!Send(h.socket, h.roomId, h.handler)
         /\ h.socket \in Sockets /\ h.roomId \in Rooms
         /\ h.handler \in UNION {handlersOf(k) : k \in Notices}
<1>1. /\ h.socket \in Sockets /\ h.roomId \in Rooms
      /\ h.handler \in UNION {handlersOf(k) : k \in Notices}
  BY DEF TypeOK, Lookup
<1>2. Abstract!Publish(h.socket, h.roomId, h.handler)
  BY <1>1, PropagateRefines DEF Noticed, registryVars
<1>. QED
  BY <1>1, <1>2 DEF Noticed, Abstract!Send

LEMMA ClosingRefines ==
  ASSUME TypeOK
  PROVE  /\ \A s \in Sockets : Disconnect(s) => Abstract!Close({s})
         /\ \A i \in Instances : Exit(i) => Abstract!Close({s \in Sockets : home[s] = i})
<1>1. conn \in [Sockets -> {"new", "open", "closed"}]
  BY DEF TypeOK
<1>2. ASSUME NEW s \in Sockets, Disconnect(s)
      PROVE  Abstract!Close({s})
  <2>1. conn' = [t \in Sockets |-> IF t \in {s} THEN "closed" ELSE conn[t]]
    BY <1>1, <1>2 DEF Disconnect
  <2>. QED
    BY <1>2, <2>1 DEF Disconnect, redisVars, Abstract!Close
<1>3. ASSUME NEW i \in Instances, Exit(i)
      PROVE  Abstract!Close({s \in Sockets : home[s] = i})
  BY <1>3 DEF Exit, redisVars, Abstract!Close
<1>. QED
  BY <1>2, <1>3

\* The array of a room lists an open socket of the process once for each join.
LEMMA CopiesAreMemberships ==
  ASSUME TypeOK, RegistriesFit, NEW i \in Instances, NEW s \in Sockets, NEW r \in Rooms,
         connected(s), home[s] = i
  PROVE  copies(i, s, r) = Abstract!memberships(s, r)
<1>1. usersListing(i, s, r) = {u \in Users : <<s, u, r>> \in joined}
  BY DEF RegistriesFit, usersListing
<1>2. \A S : Abstract!Cardinality(S) = Cardinality(S)
  BY DEF Cardinality, Abstract!Cardinality
<1>. QED
  BY <1>1, <1>2, CopiesAreUsers DEF Abstract!memberships

LEMMA ConsumeRefines ==
  ASSUME TypeOK, RegistriesFit, NEW i \in Instances, Consume(i), cursor' # cursor
  PROVE  Abstract!Deliver(i)
<1> DEFINE k == cursor[i] + 1
           e == log[k]
           receipts(s) == [n \in 1..copies(i, s, e.roomId) |-> [event |-> k, echo |-> FALSE]]
<1>1. /\ cursor[i] < Len(log) /\ cursor' = [cursor EXCEPT ![i] = k]
      /\ inbox' = [s \in Sockets |-> IF isReceiver(i, s, e)
                                     THEN inbox[s] \o receipts(s) ELSE inbox[s]]
      /\ UNCHANGED <<conn, home, joined, log>>
  BY DEF Consume
<1>2. e.roomId \in Rooms
  <2>1. k \in 1..Len(log)
    BY <1>1, Types DEF TypeOK
  <2>. QED
    BY <2>1, Types DEF Event
<1>3. ASSUME NEW s \in Sockets
      PROVE  (isReceiver(i, s, e) <=> Abstract!isToldOf(k, i, s))
             /\ (isReceiver(i, s, e) => receipts(s) = Abstract!copiesOf(k, s))
  <2>1. isReceiver(i, s, e) <=> Abstract!isToldOf(k, i, s)
    BY DEF isReceiver, connected, Abstract!isToldOf
  <2>2. ASSUME isReceiver(i, s, e)
        PROVE  receipts(s) = Abstract!copiesOf(k, s)
    <3>1. copies(i, s, e.roomId) = Abstract!memberships(s, e.roomId)
      BY <1>2, <2>2, CopiesAreMemberships DEF isReceiver
    <3>. QED
      BY <3>1 DEF Abstract!copiesOf
  <2>. QED
    BY <2>1, <2>2
<1>4. inbox' = [s \in Sockets |-> IF Abstract!isToldOf(k, i, s)
                                 THEN inbox[s] \o Abstract!copiesOf(k, s) ELSE inbox[s]]
  BY <1>1, <1>3
<1>. QED
  BY <1>1, <1>4 DEF Abstract!Deliver

\* Registries, restarts and the handlers' waiting for the database do not show: who has
\* joined is handed each event once per join, in the order of the channel, or a process
\* skips what it was not subscribed for.
THEOREM Refinement == Spec => ImplementsRoomBroadcast
<1>1. Init => Abstract!Init
  BY DEF Init, Abstract!Init
<1>2. IInv /\ [Next]_vars => [Abstract!Next]_shown
  <2> SUFFICES ASSUME IInv, [Next]_vars PROVE [Abstract!Next]_shown
    OBVIOUS
  <2>. TypeOK /\ RegistriesFit
    BY DEF IInv
  <2>1. ASSUME NEW s \in Sockets, NEW u \in Users
        PROVE  /\ \A i \in Instances : Connect(s, u, i) => Abstract!Next
               /\ \A r \in Rooms : JoinRoom(s, u, r) => Abstract!Next
    BY ConnectRefines, JoinRefines DEF Abstract!Next
  <2>2. ASSUME NEW m \in Messages, MessageSent(m)
        PROVE  Abstract!Next
    BY <2>2, MessageRefines DEF Abstract!Next
  <2>3. ASSUME NEW h \in lookups, Noticed(h)
        PROVE  Abstract!Next
    BY <2>3, NoticeRefines DEF Abstract!Next
  <2>4. ASSUME NEW s \in Sockets, Disconnect(s)
        PROVE  Abstract!Next
    BY <2>4, ClosingRefines DEF Abstract!Next
  <2>5. ASSUME NEW i \in Instances
        PROVE  /\ Exit(i) => Abstract!Next
               /\ Start(i) \/ Resubscribe(i) => Abstract!Next
               /\ Consume(i) => Abstract!Next \/ UNCHANGED shown
    <3>1. Exit(i) => Abstract!Next
      BY ClosingRefines DEF Abstract!Next
    <3>2. Start(i) \/ Resubscribe(i) => Abstract!Skip(i)
      BY DEF Start, Resubscribe, subscribeAfresh, registryVars, Abstract!Skip
    <3>3. ASSUME Consume(i), cursor' = cursor
          PROVE  UNCHANGED shown
      <4>1. cursor[i] \in Nat /\ cursor \in [Instances -> 0..Len(log)]
        BY Types DEF TypeOK
      <4>2. [cursor EXCEPT ![i] = cursor[i] + 1][i] = cursor[i] + 1 /\ cursor[i] + 1 # cursor[i]
        BY <4>1
      <4>. QED
        BY <3>3, <4>2 DEF Consume, shown
    <3>. QED
      BY <3>1, <3>2, <3>3, ConsumeRefines DEF Abstract!Next
  <2>6. ASSUME NEW s \in Sockets, NEW u \in Users, NEW r \in Rooms
        PROVE  /\ \A m \in Messages : SendMessage(s, u, r, m) => UNCHANGED shown
               /\ \A k \in Notices : Notice(s, u, r, k) => UNCHANGED shown
    BY DEF SendMessage, Notice, shown, registryVars, redisVars
  <2>7. /\ \A h \in lookups : NoticeFails(h) => UNCHANGED shown
        /\ \A m \in Messages : Created(m) \/ SendFails(m) => UNCHANGED shown
        /\ \A u \in Users, r \in Rooms : AddParticipant(u, r) => UNCHANGED shown
    BY DEF NoticeFails, Created, SendFails, AddParticipant, shown, registryVars, redisVars
  <2>8. CASE UNCHANGED vars
    BY <2>8 DEF vars, shown, registryVars, redisVars
  <2>. QED
    BY <2>1, <2>2, <2>3, <2>4, <2>5, <2>6, <2>7, <2>8 DEF Next
<1>. QED
  BY <1>1, <1>2, Invariance, PTL DEF Spec, ImplementsRoomBroadcast, Abstract!Spec, shown
=============================================================================
