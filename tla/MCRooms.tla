------------------------------- MODULE MCRooms ------------------------------
(* Rooms on small sets.                                                      *)
EXTENDS Rooms, TLC

Symmetry == Permutations(Requests) \cup Permutations(Users) \cup Permutations(Rooms)
              \cup Permutations(Names) \cup Permutations(Avatars)
=============================================================================
