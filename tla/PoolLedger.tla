------------------------------ MODULE PoolLedger ------------------------------
(***************************************************************************)
(* What a family's pool promises, without locks, transactions or files:    *)
(* every change of the family or of what a workspace takes happens at one  *)
(* instant, and is judged by the ledger as it stands at that instant.      *)
(* Here a quota may be used after its period has run out: a reservation    *)
(* may have read the clock before, and the ledger has no clock.  That only *)
(* such a one uses it is SpendsWithin's to say (StoragePool).              *)
(***************************************************************************)
EXTENDS PoolCount

CONSTANT Most   \* bytes of one version, at most

Ledger == <<member, plan, used, reserved>>

\* A member draws from the pool while its plan runs, and a folder always does.
Fits(w, n) ==
    LET drawing == w \in People => Active(w)
    IN  \/ drawing /\ n <= PoolFree(w, plan.quota)
        \/ ~(drawing /\ plan.live) /\ w \in People /\ n <= OwnFree(w)
        \/ n = 0

\* An upload reserves; a copy takes at once.
Reserve(w, n) ==
    /\ Fits(w, n)
    /\ reserved' = [reserved EXCEPT ![w] = @ + n]
    /\ UNCHANGED <<family, used>>

Take(w, n) ==
    /\ Fits(w, n)
    /\ used' = [used EXCEPT ![w] = @ + n]
    /\ UNCHANGED <<family, reserved>>

\* What was reserved lands (a version it displaced may go) or is given back; files are deleted.
Land(w, n, freed) ==
    /\ reserved' = [reserved EXCEPT ![w] = @ - n]
    /\ used' = [used EXCEPT ![w] = @ + n - freed]
    /\ UNCHANGED family

GiveBack(w, n, freed) ==
    /\ reserved' = [reserved EXCEPT ![w] = @ - n]
    /\ used' = [used EXCEPT ![w] = @ - freed]
    /\ UNCHANGED family

\* A move lands a copy and deletes its source at one instant.  Only within the pool may the copy
\* take more than was reserved for it, and then no more than its source gives back (LedgerNext).
Move(w, source, n, size, freed) ==
    /\ w # source
    /\ \/ size = n
       \/ \A x \in {w, source} \cap People : Active(x)
    /\ reserved' = [reserved EXCEPT ![w] = @ - n]
    /\ used' = [used EXCEPT ![w] = @ + size, ![source] = @ - freed]
    /\ UNCHANGED family

\* Someone joins with what they store, if the pool has room for it; or changes standing otherwise.
Admit(p) ==
    /\ member[p] = "accepted" /\ AdmissionFits(p)
    /\ member' = [member EXCEPT ![p] = "active"]
    /\ UNCHANGED <<plan, storage>>

Stand(p, m) ==
    /\ member[p] # "gone" /\ (m \in {"active", "held"} => Active(p))
    /\ member' = [member EXCEPT ![p] = m]
    /\ UNCHANGED <<plan, storage>>

Delete(p) ==
    /\ member' = [member EXCEPT ![p] = "gone"]
    /\ used' = [used EXCEPT ![p] = 0]
    /\ reserved' = [reserved EXCEPT ![p] = 0]
    /\ UNCHANGED plan

SetPlan ==
    /\ plan' \in Plans \cup {[plan EXCEPT !.live = FALSE]}
    /\ UNCHANGED <<member, storage>>

LedgerInit ==
    /\ member \in [People -> {"out", "active"}]
    /\ plan \in Plans
    /\ used \in [Workspaces -> Nat]
    /\ reserved = [w \in Workspaces |-> 0]

LedgerNext ==
    \/ \E w \in Workspaces, n \in 0..Most : Reserve(w, n) \/ Take(w, n)
    \/ \E w \in Workspaces : \E n \in 0..reserved[w], freed \in 0..used[w] :
           Land(w, n, freed) \/ GiveBack(w, n, freed)
    \/ \E w, source \in Workspaces : \E n \in 0..reserved[w], freed \in 0..used[source] :
           \E size \in n..(n + freed) : Move(w, source, n, size, freed)
    \/ \E p \in People : Admit(p) \/ Delete(p)
    \/ \E p \in People, m \in {"out", "accepted", "active", "held"} : Stand(p, m)
    \/ SetPlan

LedgerSpec == LedgerInit /\ [][LedgerNext]_Ledger
=============================================================================
