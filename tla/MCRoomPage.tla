----------------------------- MODULE MCRoomPage -----------------------------
(* RoomPage on small sets.  The run has a liveness property, so there is no *)
(* symmetry; the first page is that of one room instead, which has the past. *)
EXTENDS RoomPage, TLC

MCInit == Init /\ room = (CHOOSE r \in Rooms : TRUE) /\ stored = [m \in 1..Past |-> room]
MCSpec == MCInit /\ [][Next]_vars /\ Fairness
=============================================================================
