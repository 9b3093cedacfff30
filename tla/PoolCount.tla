------------------------------ MODULE PoolCount ------------------------------
(***************************************************************************)
(* What a family's storage pool counts (packages/db/src/pool.ts): who      *)
(* draws from it, what each workspace takes, and what is free for one.     *)
(* Billing is on, and the family has its group_storage row, as every one   *)
(* has that was made since there is billing (createGroup).                 *)
(***************************************************************************)
EXTENDS Sums

CONSTANTS People,   \* the accounts; each stands for their own workspace too
          Areas,    \* the family's folders
          Gib,      \* bytes of a GiB
          Base,     \* a workspace's own allowance
          Quotas    \* the plans a family may buy

Workspaces == Areas \cup People

ASSUME PoolAssumption ==
    /\ Areas \cap People = {} /\ IsFiniteSet(Areas) /\ IsFiniteSet(People)
    /\ Gib \in Nat \ {0} /\ Base \in Nat /\ Quotas \subseteq Nat

VARIABLES
    member,    \* membership of each account: out, accepted, active, held (active, on hold), gone
    plan,      \* the group_storage row: its quota, and whether its period still runs
    used,      \* workspace_storage.used_bytes
    reserved   \* workspace_storage.reserved_bytes

family == <<member, plan>>
storage == <<used, reserved>>

Plans == {[quota |-> 0, live |-> FALSE]} \cup {[quota |-> q, live |-> TRUE] : q \in Quotas}

Alive(w) == w \in People => member[w] # "gone"

\* activeFamilyId: a held member is still an active one
Active(p) == member[p] \in {"active", "held"}

\* holdsWorkspace
HoldsWorkspace(p, w) == Alive(w) /\ (p = w \/ (w \in Areas /\ Active(p)))

\* mayStillRemove, and requireStillWriter's rule for a group's area
MayStillRemove(p, w) == HoldsWorkspace(p, w) /\ (w \in Areas => member[p] # "held")

Total(w) == used[w] + reserved[w]
SumOver(S) == SumOf([w \in S |-> Total(w)], S)
WholeGibUp(b) == IF b <= 0 THEN 0 ELSE ((b + Gib - 1) \div Gib) * Gib

\* poolParts: each member's own files are a part, and the family folders together are one.
Drawing == {p \in People : Active(p)}
PoolBytes == SumOver(Areas) + SumOver(Drawing)
CountedReserved ==
    WholeGibUp(SumOver(Areas)) + SumOf([p \in Drawing |-> WholeGibUp(Total(p))], Drawing)

OwnFree(w) == Base - Total(w)

\* poolFigures, against an allowance: the others in whole GiB, one's own files to the byte
PoolFree(w, allowance) ==
    LET own == IF w \in Areas THEN SumOver(Areas) ELSE IF Active(w) THEN Total(w) ELSE 0
        mine == IF w \in Areas THEN WholeGibUp(own) ELSE own
    IN  allowance - (CountedReserved - WholeGibUp(own)) - mine

\* storageFigures: a folder's figures are always the pool's, a member's own while its plan runs
Pooled(w, fam) == w \in Areas \/ (fam /\ plan.live)
\* Mutant: a plan that has ended is not looked at.
SpendableEnded(w, fam) ==
    IF Pooled(w, fam) THEN PoolFree(w, plan.quota) ELSE OwnFree(w)

Spendable(w, fam) ==
    IF Pooled(w, fam) THEN PoolFree(w, IF plan.live THEN plan.quota ELSE 0) ELSE OwnFree(w)
SamePool(w, fam, source) ==
    Pooled(w, fam) /\ Pooled(source, source \in People => Active(source))

AdmissionFits(p) ==
    plan.live => CountedReserved + WholeGibUp(Total(p)) <= plan.quota
=============================================================================
