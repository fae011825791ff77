---------------------------- MODULE MCSocketState ---------------------------
(* SocketState on small sets; the names of sockets, users and rooms are      *)
(* interchangeable and no liveness is checked, so they may be symmetric.     *)
EXTENDS SocketState, TLC

Symmetry == Permutations(Sockets) \cup Permutations(Users) \cup Permutations(Rooms)
=============================================================================
