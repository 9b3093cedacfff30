--------------------------- MODULE MCDriveObjects ---------------------------
(* Small instances of DriveObjects.  Object ids are numbers because their  *)
(* rows are listed in the order they were created.                         *)
EXTENDS DriveObjects

OneObject == {1}
TwoObjects == {1, 2}
LastIsStray == {2}
OnlyFirst == {1}
None == {}
Lost == {"lost"}
Short == {"short"}
=============================================================================
