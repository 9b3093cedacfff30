----------------------------- MODULE DriveWalks -----------------------------
(***************************************************************************)
(* The tree walks of Drive's database code, over a function `up` that takes*)
(* each node to its parent and the root to something that is no node.  The *)
(* code's recursive queries go one row at a time until nothing is added;   *)
(* what they return is the least set closed under that step.               *)
(***************************************************************************)
EXTENDS FiniteSets, Integers

(* The sets a walk up from n may not leave. *)
RisingFrom(up, n) ==
    {S \in SUBSET DOMAIN up : n \in S /\ \A m \in S : up[m] \in DOMAIN up => up[m] \in S}

(* walk: a node and its ancestors. *)
Chain(up, n) ==
    LET rising == RisingFrom(up, n) IN {m \in DOMAIN up : \A S \in rising : m \in S}

(* The same walk, a row at a time: what the modules use. *)
Climb(up, n) ==
    LET rows == Cardinality(DOMAIN up)
        at[k \in 0..rows] ==
            IF k = 0 THEN n
            ELSE LET below == at[k - 1] IN IF below \in DOMAIN up THEN up[below] ELSE below
    IN {at[k] : k \in 0..rows} \cap DOMAIN up

(* The sets that hold r and, with a node, its children among `kept`. *)
FallingFrom(up, kept, r) ==
    {S \in SUBSET DOMAIN up : r \in S /\ \A m \in kept : up[m] \in S => m \in S}

(* subtree: r, whatever its state, and every node reached through `kept`. *)
Subtree(up, kept, r) ==
    LET falling == FallingFrom(up, kept, r) IN {m \in DOMAIN up : \A S \in falling : m \in S}

(* Every set of nodes has one whose parent is outside it: no node is above *)
(* itself, and every walk ends.                                            *)
Acyclic(up) == \A S \in SUBSET DOMAIN up : S # {} => \E m \in S : up[m] \notin S
=============================================================================
