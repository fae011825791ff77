---------------------------- MODULE RoomBroadcast ---------------------------
(***************************************************************************)
(* What the socket side of the backend promises, with nothing of the       *)
(* registries, the database or the life of a process: events have one      *)
(* order, and a process that goes past an event either hands it to exactly *)
(* the open sockets that joined its room, the sender's left out, or skips  *)
(* everything published so far.                                            *)
(***************************************************************************)
EXTENDS Naturals, Sequences, FiniteSets

CONSTANTS Sockets, Users, Rooms, Instances,
          Data,        \* what events carry, beside joinEvent
          joinEvent, undefined

VARIABLES conn, home, joined, log, cursor, inbox

Init == /\ conn = [s \in Sockets |-> "new"]
        /\ home = [s \in Sockets |-> undefined]
        /\ joined = {}
        /\ log = <<>>
        /\ cursor = [i \in Instances |-> 0]
        /\ inbox = [s \in Sockets |-> <<>>]

Open(s, i) == /\ conn[s] = "new"
              /\ conn' = [conn EXCEPT ![s] = "open"]
              /\ home' = [home EXCEPT ![s] = i]
              /\ UNCHANGED <<joined, log, cursor, inbox>>

\* One socket, or all of a process.
Close(S) == /\ conn' = [s \in Sockets |-> IF s \in S THEN "closed" ELSE conn[s]]
            /\ UNCHANGED <<home, joined, log, cursor, inbox>>

\* The sender has its event at once.
Publish(s, r, d) ==
  /\ conn[s] = "open"
  /\ log' = Append(log, [socketId |-> s, roomId |-> r, data |-> d])
  /\ inbox' = [inbox EXCEPT ![s] = Append(@, [event |-> Len(log) + 1, echo |-> TRUE])]
  /\ UNCHANGED <<conn, home, cursor>>

Join(s, u, r) == /\ Publish(s, r, joinEvent)
                 /\ joined' = joined \cup {<<s, u, r>>}

Send(s, r, d) == Publish(s, r, d) /\ UNCHANGED joined

\* A member has an event as often as it is in the room.
memberships(s, r) == Cardinality({u \in Users : <<s, u, r>> \in joined})
copiesOf(k, s) == [n \in 1..memberships(s, log[k].roomId) |-> [event |-> k, echo |-> FALSE]]
isToldOf(k, i, s) == conn[s] = "open" /\ home[s] = i /\ s # log[k].socketId

Deliver(i) ==
  /\ cursor[i] < Len(log)
  /\ cursor' = [cursor EXCEPT ![i] = @ + 1]
  /\ inbox' = [s \in Sockets |-> IF isToldOf(cursor[i] + 1, i, s)
                                 THEN inbox[s] \o copiesOf(cursor[i] + 1, s) ELSE inbox[s]]
  /\ UNCHANGED <<conn, home, joined, log>>

Skip(i) == /\ cursor' = [cursor EXCEPT ![i] = Len(log)]
           /\ UNCHANGED <<conn, home, joined, log, inbox>>

Next == \/ \E s \in Sockets : \/ \E i \in Instances : Open(s, i)
                              \/ \E u \in Users, r \in Rooms : Join(s, u, r)
                              \/ \E r \in Rooms, d \in Data : Send(s, r, d)
        \/ \E S \in SUBSET Sockets : Close(S)
        \/ \E i \in Instances : Deliver(i) \/ Skip(i)

Spec == Init /\ [][Next]_<<conn, home, joined, log, cursor, inbox>>
=============================================================================
