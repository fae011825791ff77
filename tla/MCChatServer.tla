---------------------------- MODULE MCChatServer ----------------------------
(* ChatServer on small sets.  Symmetry is used for safety only. *)
EXTENDS ChatServer, TLC

Symmetry == Permutations(Sockets) \cup Permutations(Users) \cup Permutations(Rooms)
              \cup Permutations(Instances) \cup Permutations(Messages)
              \cup Permutations(Packets)

idle(i) == \A s \in Sockets : home[s] # i
oneProcess == /\ Cardinality({i \in Instances : ~idle(i)}) <= 1
              /\ \A i \in Instances : status[i] = "up" /\ missed[i] = {}
                                      /\ (idle(i) => cursor[i] = 0)
oneUser == /\ Cardinality(participants) <= 1
           /\ \E u \in Users : \A v \in Users \ {u} :
                /\ \A r \in Rooms : <<v, r>> \notin participants
                /\ \A i \in Instances, s \in Sockets : ~existingSocket(reg[i], v, s)
oneSocket == Cardinality({s \in Sockets : conn[s] # "new"}) <= 1
noMessages == \A m \in Messages : sends[m] = undefined
noNotices == /\ lookups = {}
             /\ \A k \in 1..Len(log) : log[k].data \in {joinEvent} \cup Messages

\* While both processes may fail and restart, only one does so with events to miss.
oneMisses == \E i \in Instances : missed[i] = {}

\* The states whose successors are explored.  Several processes relay messages of one
\* user in one room, and one of them misses events; one process that does not fail tells
\* users and rooms apart; or it handles the notices of one socket.
Scope == \/ oneUser /\ oneMisses /\ noNotices
         \/ oneProcess /\ noMessages /\ noNotices
         \/ oneProcess /\ noMessages /\ oneUser /\ oneSocket
=============================================================================
