-------------------------------- MODULE Rooms -------------------------------
(***************************************************************************)
(* Rooms and their participants: RoomService and ParticipantService on the *)
(* database, with the cache RoomService keeps in its process.              *)
(*                                                                         *)
(* Each HTTP request runs a method of RoomService whose awaits let others  *)
(* in between.  A step of a request is one database operation at the       *)
(* moment the database does it, or what the method does when it goes on.   *)
(* Participants are inserted by ParticipantService on an event, and nobody *)
(* waits for the insert.                                                   *)
(***************************************************************************)
EXTENDS Naturals, Sequences, FiniteSets

CONSTANTS Requests,   \* HTTP requests, each made once
          Users, Rooms,
          Names, Avatars,
          newAvatar,  \* the avatarUrl of a room that is made
          null        \* no document; no request

VARIABLES rooms,         \* rooms[r]: the document in the rooms collection, or null
          participants,  \* how many documents the participants collection has for <<u, r>>
          req,           \* req[p]: the request's arguments and progress
          inserts,       \* requests whose insertMany was sent and is not done
          cache,         \* cache[r]: the cached document, or null
          disturbed      \* history: rooms with two requests at a time, or a failed one

vars == <<rooms, participants, req, inserts, cache, disturbed>>

Room == [name : Names, isGroup : BOOLEAN, avatarUrl : Avatars \cup {newAvatar}]
Request == [op        : {"save", "inviteUserIntoRoom", "updateRoom", "updateAvatar"},
            roomId    : Rooms,
            userIds   : SUBSET Users,
            name      : Names \cup {null},
            avatarUrl : Avatars \cup {null},
            pc        : 1..6,                \* index of the next of its steps
            doc       : Room \cup {null}]    \* const room, savedRoom or roomDB

ASSUME RoomsAssumption ==
  /\ IsFiniteSet(Requests)
  /\ null \notin Names /\ null \notin Avatars /\ null \notin Room /\ null \notin Request

mutantCacheFirst(op) ==
  CASE op = "save"               -> <<"save", "add">>
    [] op = "inviteUserIntoRoom" -> <<"find", "add", "reread", "cache">>
    [] op = "updateRoom"         -> <<"find", "add", "reread", "cache", "save">>
    [] op = "updateAvatar"       -> <<"find", "save", "cache">>

\* The awaits of the methods, in order.
stepsOf(op) ==
  CASE op = "save"               -> <<"save", "add">>
    [] op = "inviteUserIntoRoom" -> <<"find", "add", "reread", "cache">>
    [] op = "updateRoom"         -> <<"find", "save", "add", "reread", "cache">>
    [] op = "updateAvatar"       -> <<"find", "save", "cache">>

inProgress(p) == req[p] # null /\ req[p].pc <= Len(stepsOf(req[p].op))
at(p, step) == inProgress(p) /\ stepsOf(req[p].op)[req[p].pc] = step

\* The request goes on to its next step, holding document d.
advance(p, d) == req' = [req EXCEPT ![p].pc = @ + 1, ![p].doc = d]
\* The request is answered with an error.
ended(r) == [r EXCEPT !.pc = Len(stepsOf(r.op)) + 1]

Init ==
  /\ rooms = [r \in Rooms |-> null]
  /\ participants = [m \in Users \X Rooms |-> 0]
  /\ req = [p \in Requests |-> null]
  /\ inserts = {}
  /\ cache = [r \in Rooms |-> null]
  /\ disturbed = {}

-----------------------------------------------------------------------------
\* The check for a room with the same participants before `save` filters on a
\* virtual path, which no document has, so it matches none; it is left out.
\* An id is never given to two rooms.
Arrives(p, op, r, us, n, a) ==
  /\ req[p] = null
  /\ op = "save" => \A q \in Requests : req[q] # null => req[q].roomId # r
  /\ op \in {"save", "inviteUserIntoRoom"} => us # {}
  /\ op = "updateAvatar" => us = {}
  /\ op \in {"save", "updateRoom"} <=> n # null
  /\ op = "updateAvatar" <=> a # null
  /\ req' = [req EXCEPT ![p] = [op |-> op, roomId |-> r, userIds |-> us, name |-> n,
                                avatarUrl |-> a, pc |-> 1, doc |-> null]]
  /\ disturbed' = IF \E q \in Requests : inProgress(q) /\ req[q].roomId = r
                  THEN disturbed \cup {r} ELSE disturbed
  /\ UNCHANGED <<rooms, participants, inserts, cache>>

found(r) == rooms[r] # null

mayGoOn(q) == found(q.roomId) /\ (q.op = "inviteUserIntoRoom" => rooms[q.roomId].isGroup)

\* findById: not found, or a pair where a group is needed, ends the request.
Find(p) ==
  /\ at(p, "find")
  /\ \/ mayGoOn(req[p]) /\ advance(p, rooms[req[p].roomId])
     \/ ~mayGoOn(req[p]) /\ req' = [req EXCEPT ![p] = ended(@)]
  /\ UNCHANGED <<rooms, participants, inserts, cache, disturbed>>

\* What the method changed of the document it holds.
changed(q, d) ==
  CASE q.op = "save"         -> [name |-> q.name, isGroup |-> Cardinality(q.userIds) > 2,
                                 avatarUrl |-> newAvatar]
    [] q.op = "updateRoom"   -> [d EXCEPT !.name = q.name]
    [] q.op = "updateAvatar" -> [d EXCEPT !.avatarUrl = q.avatarUrl]

mutantNoGroup(q, d) == [name |-> q.name, avatarUrl |-> newAvatar]
mutantWholeDocument(q, d) == changed(q, q.doc)

\* save() of a document that was read writes the modified fields only.
written(q, d) == changed(q, d)

Save(p) ==
  /\ at(p, "save")
  /\ rooms' = [rooms EXCEPT ![req[p].roomId] = written(req[p], @)]
  /\ advance(p, changed(req[p], req[p].doc))
  /\ UNCHANGED <<participants, inserts, cache, disturbed>>

\* emit('addUserToRoom'), whose listener calls insertMany at once.  The check for
\* users who are in the room already compares ids with par.userId, which is not selected
\* or is a populated user, so it stops no request.  save() caches its room here as well.
AddUsers(p) ==
  /\ at(p, "add")
  /\ inserts' = inserts \cup {p}
  /\ cache' = IF req[p].op = "save" THEN [cache EXCEPT ![req[p].roomId] = req[p].doc] ELSE cache
  /\ advance(p, req[p].doc)
  /\ UNCHANGED <<rooms, participants, disturbed>>

Reread(p) ==
  /\ at(p, "reread")
  /\ advance(p, rooms[req[p].roomId])
  /\ UNCHANGED <<rooms, participants, inserts, cache, disturbed>>

SetCache(p) ==
  /\ at(p, "cache")
  /\ cache' = [cache EXCEPT ![req[p].roomId] = req[p].doc]
  /\ advance(p, req[p].doc)
  /\ UNCHANGED <<rooms, participants, inserts, disturbed>>

\* The database refuses an operation of the request.
Fails(p) ==
  /\ at(p, "find") \/ at(p, "save") \/ at(p, "reread")
  /\ req' = [req EXCEPT ![p] = ended(@)]
  /\ disturbed' = disturbed \cup {req[p].roomId}
  /\ UNCHANGED <<rooms, participants, inserts, cache>>

mutantNotDone(p) == inserts
remaining(p) == inserts \ {p}

\* There is no unique index: each insert adds its documents.
InsertMany(p) ==
  /\ p \in inserts
  /\ inserts' = remaining(p)
  /\ participants' = [m \in Users \X Rooms |->
                        IF m[1] \in req[p].userIds /\ m[2] = req[p].roomId
                        THEN participants[m] + 1 ELSE participants[m]]
  /\ UNCHANGED <<rooms, req, cache, disturbed>>

\* The process exits and is started again; what it sent to the database is sent.
\* A rejected insertMany, which nobody handles, is one way to get here.
Crash ==
  /\ \E lost \in SUBSET inserts : inserts' = inserts \ lost
  /\ req' = [p \in Requests |-> IF req[p] = null THEN null ELSE ended(req[p])]
  /\ cache' = [r \in Rooms |-> null]
  /\ UNCHANGED <<rooms, participants, disturbed>>

\* deletedAt is not in the schema of a room, so nothing is set; then the listener
\* of removeRoom looks for a participant whose own _id is the room's.
Delete(r) == found(r) /\ UNCHANGED vars

Next ==
  \/ \E p \in Requests, op \in {"save", "inviteUserIntoRoom", "updateRoom", "updateAvatar"},
        r \in Rooms, us \in SUBSET Users, n \in Names \cup {null}, a \in Avatars \cup {null} :
       Arrives(p, op, r, us, n, a)
  \/ \E p \in Requests : \/ Find(p) \/ Save(p) \/ AddUsers(p) \/ Reread(p) \/ SetCache(p)
                         \/ Fails(p) \/ InsertMany(p)
  \/ Crash
  \/ \E r \in Rooms : Delete(r)

Spec == Init /\ [][Next]_vars

-----------------------------------------------------------------------------
TypeOK ==
  /\ rooms \in [Rooms -> Room \cup {null}]
  /\ participants \in [Users \X Rooms -> Nat]
  /\ req \in [Requests -> Request \cup {null}]
  /\ inserts \in SUBSET Requests
  /\ cache \in [Rooms -> Room \cup {null}]
  /\ disturbed \in SUBSET Rooms

\* A room gets a new name or avatar only in the step in which a request for just
\* that saves: requests that overlap do not undo each other's changes, although
\* each saves a document it read before the other saved.
NoLostUpdate ==
  [][\A r \in Rooms : rooms[r] # null =>
       /\ rooms'[r].name # rooms[r].name =>
            \E p \in Requests : /\ at(p, "save") /\ req'[p].pc > req[p].pc
                                /\ req[p].op = "updateRoom" /\ req[p].roomId = r
       /\ rooms'[r].avatarUrl # rooms[r].avatarUrl =>
            \E p \in Requests : /\ at(p, "save") /\ req'[p].pc > req[p].pc
                                /\ req[p].op = "updateAvatar" /\ req[p].roomId = r]_vars

\* Users are inserted once for each request that names them and got through its
\* checks, not more: also when the process exits with the insert under way.
InsertedAsAsked ==
  \A u \in Users, r \in Rooms :
    participants[<<u, r>>] + Cardinality({p \in inserts : req[p].roomId = r /\ u \in req[p].userIds})
    <= Cardinality({p \in Requests : /\ req[p] # null /\ req[p].doc # null
                                     /\ req[p].roomId = r /\ u \in req[p].userIds})

\* When the requests for a room come one at a time and none fails, what is cached
\* is what the database has, whatever happens in other rooms.
CacheFollowsRoom ==
  \A r \in Rooms :
    /\ r \notin disturbed /\ cache[r] # null
    /\ \A p \in Requests : inProgress(p) => req[p].roomId # r
    => cache[r] = rooms[r]

\* inviteUserIntoRoom and updateRoom: "user exist in room"
NobodyIsInRoomTwice == \A u \in Users, r \in Rooms : participants[<<u, r>>] <= 1

-----------------------------------------------------------------------------
(* What makes the invariants above inductive, for RoomsProofs. *)

\* A request that has to write a name or an avatar has one.
ArgumentsFit ==
  \A p \in Requests : req[p] # null =>
    /\ req[p].op \in {"save", "updateRoom"} => req[p].name # null
    /\ req[p].op = "updateAvatar" => req[p].avatarUrl # null

\* A request that got through its first step holds a document of a room there is.
HeldRoomsExist ==
  \A p \in Requests : inProgress(p) /\ req[p].pc > 1 =>
    req[p].doc # null /\ rooms[req[p].roomId] # null

\* Every room is of one request that makes it, and not there before that saves it.
RoomsAreMadeOnce ==
  /\ \A r \in Rooms : rooms[r] # null => \E p \in Requests : req[p] # null /\ req[p].roomId = r
  /\ \A p \in Requests : req[p] # null /\ req[p].op = "save" =>
       /\ req[p].pc = 1 => rooms[req[p].roomId] = null
       /\ \A q \in Requests \ {p} : req[q] # null /\ req[q].op = "save"
                                  => req[q].roomId # req[p].roomId

\* Requests that name the user and will not insert again.
hasAdded(p) ==
  /\ req[p] # null /\ req[p].doc # null
  /\ \A i \in req[p].pc .. Len(stepsOf(req[p].op)) : stepsOf(req[p].op)[i] # "add"
names(p, u, r) == req[p].roomId = r /\ u \in req[p].userIds

InsertedOnce ==
  /\ \A p \in inserts : hasAdded(p)
  /\ \A u \in Users, r \in Rooms :
       participants[<<u, r>>] + Cardinality({p \in inserts : names(p, u, r)})
       <= Cardinality({p \in Requests : hasAdded(p) /\ names(p, u, r)})

\* A request that is alone with its room holds what the database has; and the cache differs
\* from that only after it has written, and before it is done.
AloneIsCurrent ==
  \A r \in Rooms \ disturbed :
    /\ \A p \in Requests : inProgress(p) /\ req[p].roomId = r =>
         /\ req[p].pc > 1 => req[p].doc = rooms[r]
         /\ \A q \in Requests \ {p} : inProgress(q) => req[q].roomId # r
    /\ cache[r] # null /\ cache[r] # rooms[r] =>
         \E p \in Requests : inProgress(p) /\ req[p].roomId = r /\ req[p].pc > 1

IInv == /\ TypeOK
        /\ ArgumentsFit
        /\ HeldRoomsExist
        /\ RoomsAreMadeOnce
        /\ InsertedOnce
        /\ AloneIsCurrent
=============================================================================
