------------------------------ MODULE MCBrowser ------------------------------
(* On small sets: Session, in a browser; RoomList, in one of its tabs; and    *)
(* Registration, on the server.  None reads the state of another (a login     *)
(* says itself whether its password is right, and the tab of the list stays   *)
(* logged in), so a behaviour takes the steps of one of the three.            *)
EXTENDS Session, TLC

CONSTANTS Requests, Usernames, Emails,
          Rooms, Keywords, FirstRooms, none, MaxClicks

VARIABLES form, step, status, users,
          exists, participants, matches, state, closure, crashed, typed, fetches,
          creating, asked, joined, clicks, exempt, wanted, disturbed,
          part

R == INSTANCE Registration
L == INSTANCE RoomList WITH MaxInputs <- MaxClicks, inputs <- clicks

ASSUME RoomListAssumption == L!RoomListAssumption

server == <<form, step, status, users>>
list == <<exists, participants, matches, state, closure, crashed, typed, fetches,
          creating, asked, joined, clicks, exempt, wanted, disturbed>>
mcVars == <<sessionVars, server, list, part>>

first(S) == CHOOSE x \in S : TRUE

\* Keywords each find another room.  The forms, and the user's rooms, are only varied
\* for the part they matter to.
MCInit ==
  /\ Init /\ R!Init /\ L!Init /\ part \in {"session", "list", "server"}
  /\ part # "server" => form = [q \in Requests |-> [username |-> first(Usernames),
                                                    email |-> first(Emails)]]
  /\ part # "list" => participants = {}
  /\ \A k \in Keywords : Cardinality({r \in Rooms : <<k, r>> \in matches}) = 1
  /\ \A r \in Rooms : Cardinality({k \in Keywords : <<k, r>> \in matches}) = 1
  /\ <<first(Keywords), first(FirstRooms)>> \in matches

\* Session's properties say nothing once persons are mixed, which they stay.
MCNext ==
  \/ part = "session" /\ ~mixed /\ Next /\ UNCHANGED <<server, list, part>>
  \/ part = "server" /\ R!Next /\ UNCHANGED <<sessionVars, list, part>>
  \/ part = "list" /\ L!Next /\ UNCHANGED <<sessionVars, server, part>>
MCSpec == MCInit /\ [][MCNext]_mcVars /\ Fairness

\* The types of the part that takes steps.
MCTypeOK ==
  CASE part = "session" -> TypeOK
    [] part = "server"  -> R!TypeOK
    [] part = "list"    -> L!TypeOK

\* Registrations that run side by side: see Registration.
AccountsAreUnique == R!AccountsAreUnique

\* The list of rooms: see RoomList.
RowsAreJoined == L!RowsAreJoined
SearchIsOfKeyword == L!SearchIsOfKeyword
=============================================================================
