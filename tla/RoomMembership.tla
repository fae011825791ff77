--------------------------- MODULE RoomMembership ---------------------------
(***************************************************************************)
(* What a process has to know to broadcast in a room, and nothing of how   *)
(* it is stored: which open socket is in which room, as which user.  A     *)
(* socket enters rooms one at a time while it is open and leaves all of    *)
(* them when it closes; nothing else changes who is in a room.             *)
(***************************************************************************)
CONSTANTS Sockets, Users, Rooms

VARIABLES conn, members

Init == /\ conn = [s \in Sockets |-> "new"]
        /\ members = {}

Open(s) == /\ conn[s] = "new"
           /\ conn' = [conn EXCEPT ![s] = "open"]
           /\ UNCHANGED members

Enter(s, u, r) == /\ conn[s] = "open"
                  /\ members' = members \cup {<<s, u, r>>}
                  /\ UNCHANGED conn

Close(s) == /\ conn[s] = "open"
            /\ conn' = [conn EXCEPT ![s] = "closed"]
            /\ members' = {m \in members : m[1] # s}

Next == \E s \in Sockets : \/ Open(s)
                           \/ \E u \in Users, r \in Rooms : Enter(s, u, r)
                           \/ Close(s)

Spec == Init /\ [][Next]_<<conn, members>>
=============================================================================
