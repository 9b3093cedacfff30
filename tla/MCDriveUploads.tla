--------------------------- MODULE MCDriveUploads ---------------------------
(* Model-checking instances of DriveUploads. *)
EXTENDS DriveUploads, TLC

CONSTANTS f1, f2, u1, u2, u3, r1, r2, c1

(* Object sizes that no two sums of uploads confuse. *)
MCSizeOf == [u \in Uploads |-> IF u = u1 THEN 1 ELSE IF u = u2 THEN 2 ELSE 4]

MCSymmetry == Permutations(Files) \cup Permutations(Requests)

(* A workspace in use: u1 made file f1 and u2 gave it a second version.    *)
SettledInit ==
    /\ dir = [epoch |-> 0, trashed |-> FALSE, purged |-> FALSE]
    /\ node = [f \in Files |-> IF f = f1 THEN [NoNode EXCEPT !.row = "live", !.current = u2]
                                         ELSE NoNode]
    /\ version = [v \in Versions |->
          IF v \in {u1, u2} THEN [status |-> "ready", node |-> f1, object |-> v,
                                  superseded |-> v = u1]
                            ELSE NoVersion]
    /\ object = [u \in Uploads |-> IF u \in {u1, u2} THEN "ready" ELSE "none"]
    /\ outbox = [u \in Uploads |-> "none"]
    /\ upload = [u \in Uploads |->
          IF u \in {u1, u2} THEN [NoUpload EXCEPT !.status = "completed", !.node = f1,
                                      !.newNode = (u = u1),
                                      !.expected = IF u = u1 THEN None ELSE u1]
                            ELSE NoUpload]
    /\ used = SizeOf[u1] + SizeOf[u2]
    /\ reserved = 0
    /\ expired = {}
    /\ multipart = [u \in Uploads |-> IF u \in {u1, u2} THEN "closed" ELSE "none"]
    /\ stored = [u \in Uploads |-> IF u \in {u1, u2} THEN "full" ELSE "none"]
    /\ req = [r \in Requests |-> Idle]
    /\ sweep = Idle
    /\ drain = Idle

SettledSpec == SettledInit /\ [][Next]_vars
=============================================================================
