---------------------------- MODULE MCDriveTree ----------------------------
(* Instances of DriveTree for TLC. *)
EXTENDS DriveTree, TLC

MCIds == Permutations(Folders) \cup Permutations(Files)

(* The walk a row at a time meets what the walk is defined to: for every   *)
(* way four rows may name their parents, circles and missing rows too.     *)
ASSUME \A up \in [1..4 -> 0..4], n \in 1..4 : Climb(up, n) = Chain(up, n)
=============================================================================
