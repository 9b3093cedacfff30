---------------------------- MODULE MCStoragePool ----------------------------
(* A family of two with one folder, a file there from the start and two   *)
(* uploads; the member's own workspace has the lower id.                   *)
EXTENDS StoragePool, TLC

CONSTANTS p1, p2, area, old1, u1, u2, x1, x2

MCRank == (p2 :> 1) @@ (area :> 2) @@ (p1 :> 3)
MCSize == (old1 :> 2) @@ (u1 :> 3) @@ (u2 :> 2)
MCKinds == (u1 :> {"move", "new"}) @@ (u2 :> {"move", "version", "copy"})
MCTxs == Permutations(Txs)
=============================================================================
