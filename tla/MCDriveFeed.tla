---------------------------- MODULE MCDriveFeed ----------------------------
(* Model-checking instances of DriveFeed. *)
EXTENDS DriveFeed, TLC

CONSTANTS t1, t2

(* A folder, and a file in it. *)
MCPair == <<0, 1>>
=============================================================================
