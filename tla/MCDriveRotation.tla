--------------------------- MODULE MCDriveRotation --------------------------
(* Model-checking instances of DriveRotation. *)
EXTENDS DriveRotation, TLC

CONSTANTS w1, w2

(* The two devices are alike. *)
MCDevices == Permutations({w1, w2})

(* A folder with one file in it. *)
MCShort == <<0, 1, 2>>

(* A folder, and an id left for what is created. *)
MCFolder == <<0, 1>>
=============================================================================
