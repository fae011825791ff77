----------------------------- MODULE ChatServer -----------------------------
(***************************************************************************)
(* The socket side of the backend: several server processes, each with its *)
(* own SocketStateService, that relay room events to each other over one   *)
(* Redis channel.                                                          *)
(*                                                                         *)
(* A client is connected to one process.  What a handler returns goes to   *)
(* two places: RedisPropagatorInterceptor publishes it, and then Nest      *)
(* emits it to the sender's own socket (the echo).  Every process,         *)
(* the publisher's included, consumes the published events in the order    *)
(* Redis gives them, and emits each to the sockets it lists in the room,   *)
(* except the sender's (RedisPropagatorService.consumeSendEvent).          *)
(*                                                                         *)
(* joinRoom changes nothing before its last step and reads only            *)
(* participants, which grow, so it is one action; sendMessage waits for    *)
(* the database between its steps.  The other handlers of ChatGateway only *)
(* broadcast: what they ask of the database changes nothing (the fields    *)
(* they set are not in the schema of a message).  A refused handler emits  *)
(* 'error' to its socket and changes nothing.                              *)
(***************************************************************************)
EXTENDS SocketRegistry, Sequences, FiniteSets

CONSTANTS Instances,   \* server processes subscribed to the channel
          Messages,    \* messages clients send, each once
          Notices,     \* the other packets clients send
          Packets,     \* names of their packets: bound on how many are handled at once
          MaxEvents    \* bound on the events published

ASSUME MaxEventsAssumption == MaxEvents \in Nat

VARIABLES status,        \* status[i]: "up", "failing" or "down"
          reg,           \* reg[i]: the SocketStateService of process i
          conn,          \* conn[s]: "new", "open" or "closed"
          home,          \* home[s]: the process socket s is connected to
          participants,  \* <<u, r>> of the participants collection
          sends,         \* sends[m]: the sendMessage handler of m, or undefined
          lookups,       \* handlers of notices that wait for getParticipantsByRoom
          stored,        \* messages in the messages collection
          log,           \* history: all events published, in Redis' order
          cursor,        \* cursor[i]: how many of them process i is past
          missed,        \* history: missed[i], indices published while i was not subscribed
          inbox,         \* inbox[s]: what was emitted to s, see Receipt
          joined         \* history: <<s, u, r>> for each joinRoom that got through

registryVars == <<status, reg, conn, home>>
redisVars == <<log, cursor, missed>>
vars == <<registryVars, redisVars, lookups, participants, sends, stored, inbox, joined>>

\* The methods of ChatGateway that a packet runs.  Two are subscribed to startTyping.
handlersOf(k) == IF k = "startTyping" THEN {"startTyping", "stopTyping"} ELSE {k}

ASSUME NoticesAssumption ==
  Notices \subseteq {"startTyping", "removeMessage", "readLastMessage", "makeAction"}

joinEvent == "joinRoom"
Event == [socketId : Sockets, roomId : Rooms,
          data : {joinEvent} \cup Messages \cup UNION {handlersOf(k) : k \in Notices}]
Lookup == [packet : Packets, socket : Sockets, userId : Users, roomId : Rooms,
           handler : UNION {handlersOf(k) : k \in Notices}]
Receipt == [event : 1..MaxEvents, echo : BOOLEAN]
Handler == [socket : Sockets, roomId : Rooms, stage : {"creating", "created", "done"}]

ASSUME UsersAssumption == IsFiniteSet(Users)
ASSUME MessagesAssumption ==
  /\ ({joinEvent, "startTyping", "stopTyping"} \cup Notices) \cap Messages = {}
  /\ undefined \notin Handler

Init ==
  /\ status = [i \in Instances |-> "up"]
  /\ reg = [i \in Instances |-> newRegistry]
  /\ conn = [s \in Sockets |-> "new"]
  /\ home = [s \in Sockets |-> undefined]
  /\ participants = {}
  /\ sends = [m \in Messages |-> undefined]
  /\ lookups = {}
  /\ stored = {}
  /\ log = <<>>
  /\ cursor = [i \in Instances |-> 0]
  /\ missed = [i \in Instances |-> {}]
  /\ inbox = [s \in Sockets |-> <<>>]
  /\ joined = {}

\* A process runs its event loop until it exits, also after its subscription failed.
running(i) == status[i] # "down"
connected(s) == conn[s] = "open"

-----------------------------------------------------------------------------
\* What the interceptor and Nest do with the result of a handler of socket s.
propagate(s, r, d) ==
  /\ Len(log) < MaxEvents
  /\ log' = Append(log, [socketId |-> s, roomId |-> r, data |-> d])
  /\ inbox' = [inbox EXCEPT ![s] = Append(@, [event |-> Len(log'), echo |-> TRUE])]
  /\ UNCHANGED <<cursor, missed>>

Connect(s, u, i) ==
  /\ conn[s] = "new" /\ running(i)
  /\ conn' = [conn EXCEPT ![s] = "open"]
  /\ home' = [home EXCEPT ![s] = i]
  /\ reg' = [reg EXCEPT ![i] = addSocket(@, u, s)]
  /\ UNCHANGED <<status, redisVars, lookups, participants, sends, stored, inbox, joined>>

JoinRoom(s, u, r) ==
  /\ connected(s)
  /\ <<u, r>> \in participants
  /\ reg' = [reg EXCEPT ![home[s]] = addUserJoinRoom(@, r, u, s)]
  /\ joined' = joined \cup {<<s, u, r>>}
  /\ propagate(s, r, joinEvent)
  /\ UNCHANGED <<status, conn, home, lookups, participants, sends, stored>>

\* The lookup and the check succeed and messageModel.create is called.
SendMessage(s, u, r, m) ==
  /\ connected(s)
  /\ sends[m] = undefined
  /\ <<u, r>> \in participants
  /\ sends' = [sends EXCEPT ![m] = [socket |-> s, roomId |-> r, stage |-> "creating"]]
  /\ UNCHANGED <<registryVars, redisVars, lookups, participants, stored, inbox, joined>>

\* The database inserts the document; nobody can call the insert back, so this
\* happens also when the sender has disconnected since or its process exited.
Created(m) ==
  /\ sends[m] # undefined /\ sends[m].stage = "creating"
  /\ stored' = stored \cup {m}
  /\ sends' = [sends EXCEPT ![m].stage = "created"]
  /\ UNCHANGED <<registryVars, redisVars, lookups, participants, inbox, joined>>

\* The insert, or a populate after it, fails: 'error' to the sender and no event.
SendFails(m) ==
  /\ sends[m] # undefined /\ sends[m].stage # "done"
  /\ sends' = [sends EXCEPT ![m].stage = "done"]
  /\ UNCHANGED <<registryVars, redisVars, lookups, participants, stored, inbox, joined>>

mutantNotAwaited(h) == h.stage \in {"creating", "created"}

\* The message came back from the database, populated.
hasMessage(h) == h.stage = "created"

\* The handler goes on to its result if its socket is still there: Nest's
\* takeUntil(disconnect$) has not ended it.
MessageSent(m) ==
  /\ sends[m] # undefined /\ hasMessage(sends[m])
  /\ connected(sends[m].socket)
  /\ sends' = [sends EXCEPT ![m].stage = "done"]
  /\ propagate(sends[m].socket, sends[m].roomId, m)
  /\ UNCHANGED <<registryVars, lookups, participants, stored, joined>>

\* A packet of a user who types, removes a message, reads or reacts.  Its handlers do not
\* wait for those of other packets, nor those of a socket for one another.
Notice(s, u, r, k) ==
  /\ connected(s) /\ Len(log) < MaxEvents
  /\ \E p \in Packets :
       /\ \A h \in lookups : h.packet # p
       /\ lookups' = lookups \cup {[packet |-> p, socket |-> s, userId |-> u, roomId |-> r,
                                   handler |-> n] : n \in handlersOf(k)}
  /\ UNCHANGED <<registryVars, redisVars, participants, sends, stored, inbox, joined>>

\* The room is there and the user is in it.  removeMessage and readLastMessage send an
\* update to the database here and do not wait for it.
Noticed(h) ==
  /\ h \in lookups /\ connected(h.socket)
  /\ <<h.userId, h.roomId>> \in participants
  /\ lookups' = lookups \ {h}
  /\ propagate(h.socket, h.roomId, h.handler)
  /\ UNCHANGED <<registryVars, participants, sends, stored, joined>>

\* The lookup fails or does not list the user, or the socket is gone.
NoticeFails(h) ==
  /\ h \in lookups
  /\ lookups' = lookups \ {h}
  /\ UNCHANGED <<registryVars, redisVars, participants, sends, stored, inbox, joined>>

Disconnect(s) ==
  /\ connected(s)
  /\ conn' = [conn EXCEPT ![s] = "closed"]
  /\ reg' = [reg EXCEPT ![home[s]] = removeSocket(@, s)]
  /\ UNCHANGED <<status, home, redisVars, lookups, participants, sends, stored, inbox, joined>>

\* Participants are only ever added (see Rooms).
AddParticipant(u, r) ==
  /\ participants' = participants \cup {<<u, r>>}
  /\ UNCHANGED <<registryVars, redisVars, lookups, sends, stored, inbox, joined>>

-----------------------------------------------------------------------------
mutantRemoteOnly(i, s, e) ==
  connected(s) /\ home[s] = i /\ s # e.socketId /\ home[e.socketId] # i
mutantSenderToo(i, s, e) == connected(s) /\ home[s] = i

\* .filter(socket => socket.socketId !== socketId); an emit to a socket that is not
\* open on this process is dropped.
isReceiver(i, s, e) == connected(s) /\ home[s] = i /\ s # e.socketId

mutantAllRooms(i, s, r) ==
  Cardinality(UNION {{m} \X (1..roomSockets(reg[i], m[2])[<<s, m[1]>>]) : m \in Users \X Rooms})

\* How often the room's array lists the socket, whoever as.
copies(i, s, r) == Cardinality(UNION {{u} \X (1..roomSockets(reg[i], r)[<<s, u>>]) : u \in Users})

\* consumeSendEvent.  When the room has no array, `.filter` of undefined throws,
\* which ends the subscription: its observer has no error handler.
Consume(i) ==
  /\ status[i] = "up" /\ cursor[i] < Len(log)
  /\ LET k == cursor[i] + 1
         e == log[k]
         receipts(s) == [n \in 1..copies(i, s, e.roomId) |-> [event |-> k, echo |-> FALSE]]
     IN \/ /\ getAllSocketForRoom(reg[i], e.roomId) # undefined
           /\ cursor' = [cursor EXCEPT ![i] = k]
           /\ inbox' = [s \in Sockets |-> IF isReceiver(i, s, e)
                                      THEN inbox[s] \o receipts(s) ELSE inbox[s]]
           /\ UNCHANGED status
        \/ /\ getAllSocketForRoom(reg[i], e.roomId) = undefined
           /\ status' = [status EXCEPT ![i] = "failing"]
           /\ UNCHANGED <<cursor, inbox>>
  /\ UNCHANGED <<reg, conn, home, log, missed, lookups, participants, sends, stored, joined>>

\* The process ends: rxjs rethrows the error of a failed subscription from a timer
\* and nothing handles it, or the process is stopped from outside.
Exit(i) ==
  /\ running(i)
  /\ status' = [status EXCEPT ![i] = "down"]
  /\ conn' = [s \in Sockets |-> IF home[s] = i THEN "closed" ELSE conn[s]]
  /\ UNCHANGED <<reg, home, redisVars, lookups, participants, sends, stored, inbox, joined>>

mutantReplay(i) ==
  /\ cursor' = [cursor EXCEPT ![i] = 0]
  /\ UNCHANGED <<log, missed>>
mutantOneAhead(i) ==
  /\ cursor' = [cursor EXCEPT ![i] = Len(log) + 1]
  /\ UNCHANGED <<log, missed>>

\* Pub/sub replays nothing to a new subscriber.
subscribeAfresh(i) ==
  /\ missed' = [missed EXCEPT ![i] = @ \cup (cursor[i] + 1)..Len(log)]
  /\ cursor' = [cursor EXCEPT ![i] = Len(log)]
  /\ UNCHANGED log

Start(i) ==
  /\ status[i] = "down"
  /\ status' = [status EXCEPT ![i] = "up"]
  /\ reg' = [reg EXCEPT ![i] = newRegistry]
  /\ subscribeAfresh(i)
  /\ UNCHANGED <<conn, home, lookups, participants, sends, stored, inbox, joined>>

\* The subscriber's connection drops and ioredis subscribes again.
Resubscribe(i) ==
  /\ status[i] = "up" /\ cursor[i] < Len(log)
  /\ subscribeAfresh(i)
  /\ UNCHANGED <<registryVars, lookups, participants, sends, stored, inbox, joined>>

Next ==
  \/ \E s \in Sockets, u \in Users :
       \/ \E i \in Instances : Connect(s, u, i)
       \/ \E r \in Rooms : \/ JoinRoom(s, u, r)
                          \/ \E m \in Messages : SendMessage(s, u, r, m)
                          \/ \E k \in Notices : Notice(s, u, r, k)
  \/ \E h \in lookups : Noticed(h) \/ NoticeFails(h)
  \/ \E s \in Sockets : Disconnect(s)
  \/ \E m \in Messages : Created(m) \/ SendFails(m) \/ MessageSent(m)
  \/ \E u \in Users, r \in Rooms : AddParticipant(u, r)
  \/ \E i \in Instances : Consume(i) \/ Exit(i) \/ Start(i) \/ Resubscribe(i)

Spec == Init /\ [][Next]_vars

\* An event loop that runs goes on consuming; the database answers; a process whose
\* subscription failed reaches the timer that ends it.
Fairness == /\ \A i \in Instances : WF_vars(Consume(i))
            /\ \A i \in Instances : WF_vars(status[i] = "failing" /\ Exit(i))
            /\ \A m \in Messages : WF_vars(Created(m)) /\ WF_vars(MessageSent(m))

FairSpec == Spec /\ Fairness

-----------------------------------------------------------------------------
TypeOK ==
  /\ status \in [Instances -> {"up", "failing", "down"}]
  /\ reg \in [Instances -> Registry]
  /\ conn \in [Sockets -> {"new", "open", "closed"}]
  /\ home \in [Sockets -> Instances \cup {undefined}]
  /\ participants \in SUBSET (Users \X Rooms)
  /\ sends \in [Messages -> Handler \cup {undefined}]
  /\ lookups \in SUBSET Lookup
  /\ stored \in SUBSET Messages
  /\ log \in Seq(Event) /\ Len(log) <= MaxEvents
  /\ cursor \in [Instances -> 0..Len(log)]
  /\ missed \in [Instances -> SUBSET (1..Len(log))]
  /\ inbox \in [Sockets -> Seq(Receipt)]
  /\ joined \in SUBSET (Sockets \X Users \X Rooms)

member(s, r) == \E u \in Users : <<s, u, r>> \in joined

\* A socket gets an event from Redis only if it joined the event's room and did not
\* cause it, and as an echo only if it did: no event leaks into another room, and a
\* sender does not see its own message a second time.
OnlyMembersReceive ==
  \A s \in Sockets : \A n \in DOMAIN inbox[s] :
    LET e == log[inbox[s][n].event] IN
    IF inbox[s][n].echo THEN e.socketId = s
                        ELSE e.socketId # s /\ member(s, e.roomId)

\* Nobody gets an event more often than the number of users it joined the room as;
\* joining again, on whatever process and after whatever failures, adds no copy.
NoExtraCopies ==
  \A s \in Sockets, k \in 1..Len(log) :
    Cardinality({n \in DOMAIN inbox[s] : inbox[s][n].event = k})
    <= IF log[k].socketId = s THEN 1
       ELSE Cardinality({u \in Users : <<s, u, log[k].roomId>> \in joined})

\* What comes from Redis comes to every socket in the order of publication, so that
\* any two members agree on the order of what both got; restarts and new
\* subscriptions replay nothing.
RedisOrder ==
  \A s \in Sockets : \A n, o \in DOMAIN inbox[s] :
    n < o /\ ~inbox[s][n].echo /\ ~inbox[s][o].echo => inbox[s][n].event <= inbox[s][o].event

\* A message is in the collection before anybody can see it, and is broadcast once.
BroadcastIsStored ==
  \A k \in 1..Len(log) :
    log[k].data \in Messages =>
      /\ log[k].data \in stored
      /\ \A l \in 1..Len(log) : log[l].data = log[k].data => l = k

\* When a process consumes an event, it reaches every open socket of the process
\* that joined the room and is not the sender.
ConsumeReachesMembers ==
  [][\A i \in Instances, s \in Sockets :
       LET e == log[cursor'[i]] IN
       /\ cursor'[i] = cursor[i] + 1 /\ missed'[i] = missed[i]
       /\ connected(s) /\ home[s] = i /\ s # e.socketId /\ member(s, e.roomId)
       => Len(inbox'[s]) > Len(inbox[s])]_vars

\* What the processes promise together: RoomBroadcast, in which no registry says who is in
\* a room but the joins themselves, and everybody has each event exactly as often as that.
Abstract == INSTANCE RoomBroadcast
              WITH Data <- Messages \cup UNION {handlersOf(k) : k \in Notices}
ImplementsRoomBroadcast == Abstract!Spec

published(m) == {k \in 1..Len(log) : log[k].data = m}

\* A message that is being sent reaches every socket that is in the room already,
\* unless that socket or the sender disconnects, the database refuses it, or the
\* receiver's process was not subscribed when it was published.  (The last
\* disjunct is the bound on events.)
MembersGetMessages ==
  \A m \in Messages, s \in Sockets :
    /\ sends[m] # undefined /\ sends[m].stage # "done"
    /\ s # sends[m].socket /\ connected(s) /\ member(s, sends[m].roomId)
    ~> /\ sends[m] # undefined
       /\ \/ \E n \in DOMAIN inbox[s] : inbox[s][n].event \in published(m)
          \/ ~connected(s) \/ ~connected(sends[m].socket)
          \/ sends[m].stage = "done" /\ published(m) = {}
          \/ published(m) \cap missed[home[s]] # {}
          \/ Len(log) = MaxEvents /\ published(m) = {}

\* getAllSocketForRoom is declared to return Array<IUserameSocket>: whenever an
\* event is consumed there should be an array to filter.
RoomArrayExists ==
  \A i \in Instances : status[i] # "failing"

-----------------------------------------------------------------------------
(* What makes the invariants above inductive, for ChatServerProofs. *)

\* A connected socket is with a process that runs; a new one has done nothing yet.
ConnectedAreHome ==
  \A s \in Sockets :
    /\ connected(s) => home[s] \in Instances /\ running(home[s])
    /\ conn[s] = "new" => /\ inbox[s] = <<>>
                          /\ \A u \in Users, r \in Rooms : <<s, u, r>> \notin joined

\* What SocketState shows of one process, kept while others exit and start again.
RegistriesFit ==
  \A i \in Instances :
    /\ \A r \in Rooms, e \in Entry : roomSockets(reg[i], r)[e] <= 1
    /\ \A s \in Sockets, r \in Rooms :
         reg[i].socketRoomState[s] = r => listed(reg[i], s, r)
    /\ \A s \in Sockets, u \in Users, r \in Rooms :
         /\ listedAs(reg[i], s, u, r) => <<s, u, r>> \in joined
         /\ connected(s) /\ home[s] = i /\ <<s, u, r>> \in joined => listedAs(reg[i], s, u, r)

\* What a socket got was published, and comes from Redis only if its process is past it.
ReceiptsArePast ==
  \A s \in Sockets : \A n \in DOMAIN inbox[s] :
    /\ home[s] \in Instances
    /\ inbox[s][n].event <= Len(log)
    /\ ~inbox[s][n].echo => inbox[s][n].event <= cursor[home[s]]

MissedArePast == \A i \in Instances : \A k \in missed[i] : k <= cursor[i]

\* A message is published in the step that ends its handler.
SendsEndOnce ==
  \A m \in Messages :
    /\ sends[m] # undefined /\ sends[m].stage = "created" => m \in stored
    /\ \A k \in 1..Len(log) : log[k].data = m => sends[m] # undefined /\ sends[m].stage = "done"

IInv == /\ TypeOK
        /\ ConnectedAreHome
        /\ RegistriesFit
        /\ ReceiptsArePast
        /\ MissedArePast
        /\ OnlyMembersReceive
        /\ NoExtraCopies
        /\ RedisOrder
        /\ SendsEndOnce
        /\ BroadcastIsStored
=============================================================================
