-------------------------- MODULE StoragePool_proofs --------------------------
(***************************************************************************)
(* What is proved of the family's pool, for any family, folders, files,    *)
(* uploads and number of transactions open at once.  The inductive         *)
(* invariant says, of every transaction, how far it is by the locks it     *)
(* has and wants, and what it has established under the locks it has:      *)
(* nobody else can undo it while they are held.                            *)
(***************************************************************************)
EXTENDS StoragePool, Sums_proofs

-----------------------------------------------------------------------------
(* Whole GiB. *)

(* The quotient is the greatest that fits. *)
LEMMA DivFacts ==
    ASSUME NEW b \in Nat
    PROVE  /\ (b \div Gib) \in Nat
           /\ (b \div Gib) * Gib <= b /\ b < (b \div Gib) * Gib + Gib
<1>1. Gib \in Nat /\ Gib > 0
  BY PoolAssumption
<1> QED
  BY <1>1

(* A count in whole GiB is the least multiple that is not below. *)
LEMMA WholeGibFacts ==
    ASSUME NEW b \in Nat
    PROVE  /\ WholeGibUp(b) \in Nat /\ b <= WholeGibUp(b)
           /\ WholeGibUp(b) < b + Gib
           /\ \E k \in Nat : WholeGibUp(b) = k * Gib
<1>1. Gib \in Nat /\ Gib > 0
  BY PoolAssumption
<1>2. CASE b = 0
  BY <1>1, <1>2 DEF WholeGibUp
<1>3. CASE b > 0
  <2> DEFINE k == (b + Gib - 1) \div Gib
  <2>1. b + Gib - 1 \in Nat
    BY <1>1
  <2>2. k \in Nat /\ k * Gib <= b + Gib - 1 /\ b + Gib - 1 < k * Gib + Gib
    BY <2>1, DivFacts
  <2>3. WholeGibUp(b) = k * Gib
    BY <1>3 DEF WholeGibUp
  <2> HIDE DEF k
  <2>4. k * Gib \in Nat
    BY <1>1, <2>2
  <2> QED
    BY <1>1, <2>2, <2>3, <2>4
<1> QED
  BY <1>2, <1>3

(* Multiples of a GiB are a GiB apart. *)
LEMMA GibApart ==
    ASSUME NEW j \in Nat, NEW k \in Nat, j * Gib < k * Gib + Gib
    PROVE  j * Gib <= k * Gib
<1>1. Gib \in Nat /\ Gib > 0
  BY PoolAssumption
<1>2. CASE j <= k
  BY <1>1, <1>2
<1>3. CASE j > k
  <2>1. PICK d \in Nat : j = k + 1 + d
    BY <1>3
  <2>2. j * Gib = k * Gib + Gib + d * Gib /\ d * Gib \in Nat /\ k * Gib \in Nat
    BY <1>1, <2>1
  <2> QED
    BY <1>1, <2>2
<1> QED
  BY <1>2, <1>3

(* More bytes never count less. *)
LEMMA WholeGibMono ==
    ASSUME NEW a \in Nat, NEW b \in Nat, a <= b
    PROVE  WholeGibUp(a) <= WholeGibUp(b)
<1>1. Gib \in Nat /\ Gib > 0
  BY PoolAssumption
<1>2. PICK j \in Nat : WholeGibUp(a) = j * Gib
  BY WholeGibFacts
<1>3. PICK k \in Nat : WholeGibUp(b) = k * Gib
  BY WholeGibFacts
<1>4. WholeGibUp(a) < a + Gib /\ b <= WholeGibUp(b) /\ WholeGibUp(a) \in Nat /\ WholeGibUp(b) \in Nat
  BY WholeGibFacts
<1>5. j * Gib < k * Gib + Gib
  BY <1>1, <1>2, <1>3, <1>4
<1> QED
  BY <1>2, <1>3, <1>5, GibApart

-----------------------------------------------------------------------------
(* Counts. *)

(* The rows the counts read. *)
CountRows ==
    /\ member \in [People -> {"out", "accepted", "active", "held", "gone"}]
    /\ plan \in [quota : Nat, live : BOOLEAN]
    /\ used \in [Workspaces -> Nat] /\ reserved \in [Workspaces -> Nat]

(* Whose bytes are the pool's: a folder's, and an active member's.         *)
Draws(w) == w \in People => Active(w)

(* Every count is a number. *)
LEMMA CountTypes ==
    ASSUME CountRows
    PROVE  /\ \A w \in Workspaces : Total(w) \in Nat /\ WholeGibUp(Total(w)) \in Nat
           /\ IsFiniteSet(Areas) /\ IsFiniteSet(People)
           /\ Drawing \subseteq People /\ IsFiniteSet(Drawing)
           /\ \A S \in SUBSET Workspaces : SumOver(S) \in Nat
           /\ WholeGibUp(SumOver(Areas)) \in Nat /\ SumOver(Areas) <= WholeGibUp(SumOver(Areas))
           /\ CountedReserved \in Nat /\ PoolBytes \in Nat
<1>1. /\ IsFiniteSet(Areas) /\ IsFiniteSet(People) /\ Drawing \subseteq People
      /\ IsFiniteSet(Workspaces)
  BY PoolAssumption, FS_Union DEF Drawing, Workspaces
<1>2. \A w \in Workspaces : Total(w) \in Nat /\ WholeGibUp(Total(w)) \in Nat
  <2> SUFFICES ASSUME NEW w \in Workspaces PROVE Total(w) \in Nat /\ WholeGibUp(Total(w)) \in Nat
    OBVIOUS
  <2>1. Total(w) \in Nat
    BY DEF CountRows, Total
  <2> QED
    BY <2>1, WholeGibFacts
<1>3. ASSUME NEW S \in SUBSET Workspaces PROVE SumOver(S) \in Nat
  <2>1. IsFiniteSet(S) /\ \A w \in S : [x \in S |-> Total(x)][w] \in Nat
    BY <1>1, <1>2, FS_Subset
  <2> QED
    BY <2>1, SumNat DEF SumOver
<1>4. IsFiniteSet(Drawing) /\ Drawing \subseteq Workspaces /\ Areas \subseteq Workspaces
  BY <1>1, FS_Subset DEF Workspaces
<1>5. SumOver(Areas) \in Nat /\ SumOver(Drawing) \in Nat
  BY <1>3, <1>4
<1>6. WholeGibUp(SumOver(Areas)) \in Nat /\ SumOver(Areas) <= WholeGibUp(SumOver(Areas))
  BY <1>5, WholeGibFacts
<1>7. SumOf([p \in Drawing |-> WholeGibUp(Total(p))], Drawing) \in Nat
  <2>1. \A p \in Drawing : [x \in Drawing |-> WholeGibUp(Total(x))][p] \in Nat
    BY <1>2, <1>4
  <2> QED
    BY <1>4, <2>1, SumNat
<1>8. CountedReserved \in Nat /\ PoolBytes \in Nat
  BY <1>5, <1>6, <1>7 DEF CountedReserved, PoolBytes
<1> QED
  BY <1>1, <1>2, <1>3, <1>4, <1>6, <1>8

(* What the others of a member's pool count. *)
Others(p) == WholeGibUp(SumOver(Areas)) + SumOf([x \in Drawing |-> WholeGibUp(Total(x))], Drawing \ {p})

(* The pool, with one member apart. *)
LEMMA CountApart ==
    ASSUME CountRows, NEW p \in Drawing
    PROVE  CountedReserved = Others(p) + WholeGibUp(Total(p)) /\ Others(p) \in Nat
<1> DEFINE f == [x \in Drawing |-> WholeGibUp(Total(x))]
<1>1. IsFiniteSet(Drawing) /\ \A x \in Drawing : f[x] \in Nat
  BY CountTypes DEF Workspaces
<1>2. SumOf(f, Drawing) = f[p] + SumOf(f, Drawing \ {p})
  BY <1>1, SumRemove
<1>3. SumOf(f, Drawing \ {p}) \in Nat /\ f[p] \in Nat
  BY <1>1, FS_RemoveElement, SumNat
<1>4. WholeGibUp(SumOver(Areas)) \in Nat
  BY CountTypes
<1>5. f[p] = WholeGibUp(Total(p))
  OBVIOUS
<1>6. /\ CountedReserved = WholeGibUp(SumOver(Areas)) + SumOf(f, Drawing)
      /\ Others(p) = WholeGibUp(SumOver(Areas)) + SumOf(f, Drawing \ {p})
  BY DEF CountedReserved, Others
<1> HIDE DEF f
<1> QED
  BY <1>2, <1>3, <1>4, <1>5, <1>6

(* What is free for one who draws. *)
LEMMA FreeShape ==
    ASSUME CountRows, NEW w \in Workspaces, Draws(w), NEW q \in Nat
    PROVE  /\ w \in Areas => PoolFree(w, q) = q - CountedReserved
           /\ w \in People => PoolFree(w, q) = q - Others(w) - Total(w) /\ w \in Drawing
           /\ PoolFree(w, q) \in Int
<1>1. /\ CountedReserved \in Nat /\ WholeGibUp(SumOver(Areas)) \in Nat /\ Total(w) \in Nat
      /\ WholeGibUp(Total(w)) \in Nat
  BY CountTypes
<1>2. CASE w \in Areas
  <2>1. w \notin People
    BY <1>2, PoolAssumption
  <2>2. PoolFree(w, q) = q - (CountedReserved - WholeGibUp(SumOver(Areas))) - WholeGibUp(SumOver(Areas))
    BY <1>2 DEF PoolFree
  <2> QED
    BY <1>1, <2>1, <2>2
<1>3. CASE w \notin Areas
  <2>1. w \in People /\ w \in Drawing /\ Active(w)
    BY <1>3 DEF Workspaces, Draws, Drawing
  <2>2. PoolFree(w, q) = q - (CountedReserved - WholeGibUp(Total(w))) - Total(w)
    BY <1>3, <2>1 DEF PoolFree
  <2>3. CountedReserved = Others(w) + WholeGibUp(Total(w)) /\ Others(w) \in Nat
    BY <2>1, CountApart
  <2> QED
    BY <1>1, <1>3, <2>1, <2>2, <2>3
<1> QED
  BY <1>2, <1>3

(* What is so of the counts, whatever the rows are. *)
Counts ==
    /\ \A w \in Workspaces : Total(w) \in Nat /\ WholeGibUp(Total(w)) \in Nat
    /\ Drawing \subseteq People /\ IsFiniteSet(Drawing)
    /\ SumOver(Areas) \in Nat /\ SumOver(Drawing) \in Nat
    /\ WholeGibUp(SumOver(Areas)) \in Nat /\ SumOver(Areas) <= WholeGibUp(SumOver(Areas))
    /\ CountedReserved \in Nat /\ PoolBytes \in Nat
    /\ \A p \in Drawing : CountedReserved = Others(p) + WholeGibUp(Total(p)) /\ Others(p) \in Nat
    /\ \A w \in Workspaces, q \in Nat : Draws(w) =>
          /\ w \in Areas => PoolFree(w, q) = q - CountedReserved
          /\ w \in People => PoolFree(w, q) = q - Others(w) - Total(w) /\ w \in Drawing
          /\ PoolFree(w, q) \in Int

(* They are, of the pool as it stands. *)
LEMMA CountsHold == CountRows => Counts
<1> SUFFICES ASSUME CountRows PROVE Counts
  OBVIOUS
<1>1. Drawing \subseteq Workspaces /\ Areas \subseteq Workspaces
  BY DEF Drawing, Workspaces
<1>2. \A w \in Workspaces, q \in Nat : Draws(w) =>
          /\ w \in Areas => PoolFree(w, q) = q - CountedReserved
          /\ w \in People => PoolFree(w, q) = q - Others(w) - Total(w) /\ w \in Drawing
          /\ PoolFree(w, q) \in Int
  BY FreeShape
<1>3. \A p \in Drawing : CountedReserved = Others(p) + WholeGibUp(Total(p)) /\ Others(p) \in Nat
  BY CountApart
<1> QED
  BY <1>1, <1>2, <1>3, CountTypes DEF Counts

(* And of the counts after a step. *)
LEMMA CountsHoldNext == CountRows' => Counts'
BY CountsHold, PTL

(* The folders, each of which takes no more than before. *)
LEMMA AreasMono ==
    ASSUME CountRows, CountRows', \A w \in Areas : Total(w)' <= Total(w)
    PROVE  SumOver(Areas)' <= SumOver(Areas)
<1> DEFINE a == [w \in Areas |-> Total(w)]
           b == [w \in Areas |-> Total(w)']
<1>1. Counts /\ Counts' /\ Areas \subseteq Workspaces /\ IsFiniteSet(Areas)
  BY CountsHold, CountsHoldNext, PoolAssumption DEF Workspaces
<1>2. \A w \in Areas : b[w] \in Int /\ a[w] \in Int /\ b[w] <= a[w]
  BY <1>1 DEF Counts
<1>3. SumOver(Areas) = SumOf(a, Areas) /\ SumOver(Areas)' = SumOf(b, Areas)
  BY DEF SumOver
<1> HIDE DEF a, b
<1>4. SumOf(b, Areas) <= SumOf(a, Areas)
  BY <1>1, <1>2, SumLe
<1> QED
  BY <1>3, <1>4

(* A step after which no one draws who did not, and no one who does takes  *)
(* more than before, raises no count.                                      *)
LEMMA CountMono ==
    ASSUME CountRows, CountRows', Drawing' \subseteq Drawing,
           \A w \in Areas \cup Drawing' : Total(w)' <= Total(w)
    PROVE  /\ SumOver(Areas)' <= SumOver(Areas)
           /\ CountedReserved' <= CountedReserved /\ PoolBytes' <= PoolBytes
           /\ \A p \in Drawing' : Others(p)' <= Others(p)
<1> DEFINE f == [p \in Drawing |-> WholeGibUp(Total(p))]
           g == [p \in Drawing' |-> WholeGibUp(Total(p)')]
<1>1. Counts /\ Counts'
  BY CountsHold, CountsHoldNext
<1>2. /\ Areas \subseteq Workspaces /\ Drawing \subseteq Workspaces
      /\ IsFiniteSet(Areas) /\ IsFiniteSet(Drawing) /\ IsFiniteSet(Drawing')
  BY <1>1, PoolAssumption DEF Counts, Workspaces
<1>3. \A w \in Workspaces : Total(w) \in Nat /\ Total(w)' \in Nat /\ WholeGibUp(Total(w)) \in Nat
                            /\ WholeGibUp(Total(w)') \in Nat
  BY <1>1 DEF Counts, WholeGibUp
<1>4. SumOver(Areas)' <= SumOver(Areas)
  BY AreasMono
<1>5. SumOver(Drawing)' <= SumOver(Drawing)
  <2> DEFINE a == [w \in Drawing |-> Total(w)]
             b == [w \in Drawing' |-> Total(w)']
  <2>1. /\ \A w \in Drawing' : b[w] \in Nat /\ b[w] <= a[w]
        /\ \A w \in Drawing : a[w] \in Nat
    BY <1>2, <1>3
  <2>2. SumOver(Drawing) = SumOf(a, Drawing) /\ SumOver(Drawing)' = SumOf(b, Drawing')
    BY DEF SumOver
  <2> HIDE DEF a, b
  <2>3. SumOf(b, Drawing') <= SumOf(a, Drawing)
    BY <1>2, <2>1, SumLeOver
  <2> QED
    BY <2>2, <2>3
<1>6. WholeGibUp(SumOver(Areas))' <= WholeGibUp(SumOver(Areas))
  <2>1. SumOver(Areas) \in Nat /\ SumOver(Areas)' \in Nat
    BY <1>1 DEF Counts
  <2>2. WholeGibUp(SumOver(Areas)') <= WholeGibUp(SumOver(Areas))
    BY <1>4, <2>1, WholeGibMono
  <2>3. WholeGibUp(SumOver(Areas))' = WholeGibUp(SumOver(Areas)')
    BY DEF WholeGibUp
  <2> QED
    BY <2>2, <2>3
<1>7. /\ \A p \in Drawing' : g[p] \in Nat /\ g[p] <= f[p]
      /\ \A p \in Drawing : f[p] \in Nat
  BY <1>2, <1>3, WholeGibMono
<1>8. /\ CountedReserved = WholeGibUp(SumOver(Areas)) + SumOf(f, Drawing)
      /\ CountedReserved' = WholeGibUp(SumOver(Areas))' + SumOf(g, Drawing')
  BY DEF CountedReserved, WholeGibUp
<1>9. \A p \in Drawing' : /\ Others(p) = WholeGibUp(SumOver(Areas)) + SumOf(f, Drawing \ {p})
                          /\ Others(p)' = WholeGibUp(SumOver(Areas))' + SumOf(g, Drawing' \ {p})
  BY DEF Others, WholeGibUp
<1>10. WholeGibUp(SumOver(Areas)) \in Nat /\ WholeGibUp(SumOver(Areas))' \in Nat
  BY <1>1 DEF Counts
<1> HIDE DEF f, g
<1>11. SumOf(g, Drawing') <= SumOf(f, Drawing)
  BY <1>2, <1>7, SumLeOver
<1>12. SumOf(g, Drawing') \in Nat /\ SumOf(f, Drawing) \in Nat
  BY <1>2, <1>7, SumNat
<1>13. CountedReserved' <= CountedReserved
  BY <1>6, <1>8, <1>10, <1>11, <1>12
<1>14. PoolBytes' <= PoolBytes
  <2>1. /\ SumOver(Areas) \in Nat /\ SumOver(Areas)' \in Nat
        /\ SumOver(Drawing) \in Nat /\ SumOver(Drawing)' \in Nat
    BY <1>1 DEF Counts
  <2>2. PoolBytes = SumOver(Areas) + SumOver(Drawing) /\ PoolBytes' = SumOver(Areas)' + SumOver(Drawing)'
    BY DEF PoolBytes
  <2> QED
    BY <1>4, <1>5, <2>1, <2>2
<1>15. ASSUME NEW p \in Drawing' PROVE Others(p)' <= Others(p)
  <2>1. Drawing' \ {p} \in SUBSET (Drawing \ {p}) /\ IsFiniteSet(Drawing \ {p}) /\ IsFiniteSet(Drawing' \ {p})
    BY <1>2, FS_RemoveElement
  <2>2. SumOf(g, Drawing' \ {p}) <= SumOf(f, Drawing \ {p})
    BY <1>7, <2>1, SumLeOver
  <2>3. SumOf(g, Drawing' \ {p}) \in Nat /\ SumOf(f, Drawing \ {p}) \in Nat
    BY <1>7, <2>1, SumNat
  <2> QED
    BY <1>6, <1>9, <1>10, <2>2, <2>3
<1> QED
  BY <1>4, <1>13, <1>14, <1>15

-----------------------------------------------------------------------------
(* What a workspace can take. *)

(* The pool has room for n more bytes of w; or w does not draw on a plan   *)
(* that runs, and has room of its own; or there is nothing to take.        *)
Affords(w, n) ==
    \/ Draws(w) /\ n <= PoolFree(w, plan.quota)
    \/ ~(Draws(w) /\ plan.live) /\ w \in People /\ n <= OwnFree(w)
    \/ n = 0

(* What the figures say may be taken can be.                               *)
LEMMA SpendableAffords ==
    ASSUME CountRows, NEW w \in Workspaces, NEW n \in Nat, NEW fam \in BOOLEAN,
           fam <=> Draws(w), n <= Spendable(w, fam)
    PROVE  Affords(w, n)
<1>1. Counts /\ plan.quota \in Nat /\ plan.live \in BOOLEAN
  BY CountsHold DEF CountRows
<1>2. w \in Areas => w \notin People /\ Draws(w)
  BY PoolAssumption DEF Draws
<1>3. CASE Pooled(w, fam)
  <2>1. Draws(w)
    BY <1>2, <1>3 DEF Pooled
  <2>2. CASE plan.live
    BY <1>3, <2>1, <2>2 DEF Spendable, Affords
  <2>3. CASE ~plan.live
    <3>1. n <= PoolFree(w, 0)
      BY <1>3, <2>3 DEF Spendable
    <3>2. CASE w \in Areas
      <4>1. PoolFree(w, 0) = 0 - CountedReserved /\ PoolFree(w, plan.quota) = plan.quota - CountedReserved
        BY <1>1, <2>1, <3>2 DEF Counts
      <4>2. n <= PoolFree(w, plan.quota)
        BY <1>1, <3>1, <4>1 DEF Counts
      <4> QED
        BY <2>1, <4>2 DEF Affords
    <3>3. CASE w \in People
      <4>1. /\ PoolFree(w, 0) = 0 - Others(w) - Total(w) /\ w \in Drawing
            /\ PoolFree(w, plan.quota) = plan.quota - Others(w) - Total(w)
        BY <1>1, <2>1, <3>3 DEF Counts
      <4>2. Others(w) \in Nat /\ Total(w) \in Nat
        BY <1>1, <4>1 DEF Counts
      <4>3. n <= PoolFree(w, plan.quota)
        BY <1>1, <3>1, <4>1, <4>2
      <4> QED
        BY <2>1, <4>3 DEF Affords
    <3> QED
      BY <3>2, <3>3 DEF Workspaces
  <2> QED
    BY <1>1, <2>2, <2>3
<1>4. CASE ~Pooled(w, fam)
  <2>1. w \in People /\ ~(Draws(w) /\ plan.live)
    BY <1>1, <1>4 DEF Pooled, Workspaces
  <2> QED
    BY <1>4, <2>1 DEF Spendable, Affords
<1> QED
  BY <1>3, <1>4

(* What may be taken once the plan has ended: nothing by a folder, and by  *)
(* a person what is within their own allowance.                            *)
Bare(w, n) == n = 0 \/ (w \in People /\ n <= OwnFree(w))

(* The figures read then say no more. *)
LEMMA SpendableBare ==
    ASSUME CountRows, NEW w \in Workspaces, NEW n \in Nat, NEW fam \in BOOLEAN,
           fam <=> Draws(w), ~plan.live, n <= Spendable(w, fam)
    PROVE  Bare(w, n)
<1>1. Counts
  BY CountsHold
<1>2. CASE w \in Areas
  <2>1. Draws(w) /\ Spendable(w, fam) = PoolFree(w, 0)
    BY <1>2, PoolAssumption DEF Draws, Spendable, Pooled
  <2>2. PoolFree(w, 0) = 0 - CountedReserved /\ CountedReserved \in Nat
    BY <1>1, <1>2, <2>1 DEF Counts
  <2> QED
    BY <2>1, <2>2 DEF Bare
<1>3. CASE w \notin Areas
  BY <1>3 DEF Workspaces, Spendable, Pooled, Bare
<1> QED
  BY <1>2, <1>3

(* It still can after a step that lets no one else take more. *)
LEMMA AffordsKept ==
    ASSUME CountRows, CountRows', NEW w \in Workspaces, NEW n \in Nat, Affords(w, n),
           Draws(w)' <=> Draws(w), Total(w)' <= Total(w),
           Draws(w) => /\ Drawing' \subseteq Drawing
                       /\ \A x \in Areas \cup Drawing' : Total(x)' <= Total(x)
                       /\ plan'.quota = plan.quota /\ (plan'.live => plan.live)
    PROVE  Affords(w, n)'
<1>1. Counts /\ Counts' /\ plan.quota \in Nat /\ plan'.quota \in Nat
  BY CountsHold, CountsHoldNext DEF CountRows
<1>2. Total(w) \in Nat /\ Total(w)' \in Nat
  BY <1>1 DEF Counts
<1>3. CASE Draws(w) /\ n <= PoolFree(w, plan.quota)
  <2>1. /\ CountedReserved' <= CountedReserved
        /\ \A p \in Drawing' : Others(p)' <= Others(p)
    BY <1>3, CountMono
  <2>2. Drawing' \subseteq Drawing /\ Draws(w)' /\ plan'.quota = plan.quota
    BY <1>3
  <2>3. CASE w \in Areas
    <3>1. /\ PoolFree(w, plan.quota) = plan.quota - CountedReserved
          /\ PoolFree(w, plan.quota)' = plan'.quota - CountedReserved'
      BY <1>1, <1>3, <2>2, <2>3 DEF Counts
    <3>2. CountedReserved \in Nat /\ CountedReserved' \in Nat
      BY <1>1 DEF Counts
    <3>3. n <= PoolFree(w, plan.quota)'
      BY <1>1, <1>3, <2>1, <2>2, <3>1, <3>2
    <3> QED
      BY <2>2, <3>3 DEF Affords
  <2>4. CASE w \in People
    <3>1. /\ PoolFree(w, plan.quota) = plan.quota - Others(w) - Total(w)
          /\ PoolFree(w, plan.quota)' = plan'.quota - Others(w)' - Total(w)'
          /\ w \in Drawing'
      BY <1>1, <1>3, <2>2, <2>4 DEF Counts
    <3>2. Others(w) \in Nat /\ Others(w)' \in Nat /\ Others(w)' <= Others(w)
      BY <1>1, <2>1, <2>2, <3>1 DEF Counts
    <3>3. n <= PoolFree(w, plan.quota)'
      BY <1>1, <1>2, <1>3, <2>2, <3>1, <3>2
    <3> QED
      BY <2>2, <3>3 DEF Affords
  <2> QED
    BY <2>3, <2>4 DEF Workspaces
<1>4. CASE ~(Draws(w) /\ plan.live) /\ w \in People /\ n <= OwnFree(w)
  <2>1. ~(Draws(w)' /\ plan'.live)
    BY <1>4
  <2>2. OwnFree(w) = Base - Total(w) /\ OwnFree(w)' = Base - Total(w)' /\ Base \in Nat
    BY PoolAssumption DEF OwnFree
  <2>3. n <= OwnFree(w)'
    BY <1>2, <1>4, <2>2
  <2> QED
    BY <1>4, <2>1, <2>3 DEF Affords
<1>5. CASE n = 0
  BY <1>5 DEF Affords
<1> QED
  BY <1>3, <1>4, <1>5 DEF Affords

(* Counted in whole GiB, a pool holds no less. *)
LEMMA BytesUnder ==
    ASSUME CountRows
    PROVE  /\ PoolBytes <= CountedReserved
           /\ \A p \in Drawing : PoolBytes <= Others(p) + Total(p)
<1> DEFINE f == [p \in Drawing |-> WholeGibUp(Total(p))]
           t == [p \in Drawing |-> Total(p)]
<1>1. Counts /\ Drawing \subseteq Workspaces /\ IsFiniteSet(Drawing)
  BY CountsHold DEF Counts, Workspaces, Drawing
<1>2. \A p \in Drawing : t[p] \in Nat /\ f[p] \in Nat /\ t[p] <= f[p]
  BY <1>1, WholeGibFacts DEF Counts
<1>3. /\ CountedReserved = WholeGibUp(SumOver(Areas)) + SumOf(f, Drawing)
      /\ PoolBytes = SumOver(Areas) + SumOf(t, Drawing)
      /\ \A p \in Drawing : Others(p) = WholeGibUp(SumOver(Areas)) + SumOf(f, Drawing \ {p})
  BY DEF CountedReserved, PoolBytes, SumOver, Others
<1>4. \A p \in Drawing : t[p] = Total(p)
  OBVIOUS
<1>5. /\ SumOver(Areas) \in Nat /\ WholeGibUp(SumOver(Areas)) \in Nat
      /\ SumOver(Areas) <= WholeGibUp(SumOver(Areas))
  BY <1>1 DEF Counts
<1> HIDE DEF f, t
<1>6. SumOf(t, Drawing) <= SumOf(f, Drawing) /\ SumOf(t, Drawing) \in Nat /\ SumOf(f, Drawing) \in Nat
  BY <1>1, <1>2, SumLe, SumNat
<1>7. ASSUME NEW p \in Drawing PROVE PoolBytes <= Others(p) + Total(p)
  <2>1. IsFiniteSet(Drawing \ {p})
    BY <1>1, FS_RemoveElement
  <2>2. SumOf(t, Drawing) = t[p] + SumOf(t, Drawing \ {p})
    BY <1>1, <1>2, SumRemove
  <2>3. SumOf(t, Drawing \ {p}) <= SumOf(f, Drawing \ {p})
    BY <1>2, <2>1, SumLe
  <2>4. SumOf(t, Drawing \ {p}) \in Nat /\ SumOf(f, Drawing \ {p}) \in Nat
    BY <1>2, <2>1, SumNat
  <2> QED
    BY <1>2, <1>3, <1>4, <1>5, <2>2, <2>3, <2>4
<1> QED
  BY <1>3, <1>5, <1>6, <1>7

-----------------------------------------------------------------------------
(* The inductive invariant. *)

FileRow == [at : Workspaces \cup {Nothing}, there : BOOLEAN, bytes : Nat, cur : Nat, seq : Nat]
UpRow == [st : {"none", "asked", "open", "over"}, kind : {"new", "version", "move", "copy"},
          at : Workspaces \cup {Nothing}, of : Files \cup {Nothing}, by : People \cup {Nothing},
          seq : Nat, freed : Nat, res : Nat]
TxRow == [op : {"none", "begin", "finish", "admit", "leave", "delete", "plan"},
          u : Uploads \cup {Nothing}, p : People \cup {Nothing}, writer : BOOLEAN, fam : BOOLEAN,
          tries : Nat, verdict : {"none", "figures", "reserve", "publish", "release"}, cost : Nat,
          live : BOOLEAN, want : Seq(Locks), have : SUBSET Locks]

(* The rows, but for the counters' signs, which Exact implies. *)
Rows ==
    /\ member \in [People -> {"out", "accepted", "active", "held", "gone"}]
    /\ plan \in [quota : Nat, live : BOOLEAN]
    /\ used \in [Workspaces -> Int] /\ reserved \in [Workspaces -> Int]
    /\ file \in [Files -> FileRow] /\ up \in [Uploads -> UpRow] /\ tx \in [Txs -> TxRow]

(* A lock has one holder. *)
Exclusive == \A s, t \in Txs : s # t => tx[s].have \cap tx[t].have = {}

Exact == CountersExact

(* A file that is there is somewhere, and one that is not takes nothing. *)
FileOK(f) ==
    /\ file[f].there => file[f].at \in Workspaces
    /\ ~file[f].there => file[f].bytes = 0
    /\ file[f].cur <= file[f].bytes

(* An upload asked for or open: whose, where, and the file it is of. *)
Under(u) ==
    LET r == up[u]
    IN  /\ r.at \in Workspaces /\ r.by \in People /\ (r.at \in People => r.by = r.at)
        /\ r.kind = "new" <=> r.of = Nothing
        /\ r.of # Nothing => file[r.of].at \in Workspaces /\ (r.kind = "move" <=> file[r.of].at # r.at)
        /\ r.kind # "move" => r.freed = 0

(* One end of a move that got past its begin is the mover's own or both are folders. *)
OwnEnd(u) == IsMove(u) => Source(u) = up[u].by \/ Source(u) \in Areas

UploadOK(u) ==
    LET r == up[u]
    IN  /\ r.st = "none" => r = NoUpload
        /\ r.st = "over" => r = Over
        /\ r.st \in {"none", "asked", "open"} => file[u].at = Nothing /\ ~file[u].there
        /\ r.st \in {"asked", "open"} => Under(u)
        /\ r.st = "asked" => r.res = 0
        /\ r.st = "open" => r.kind # "copy" /\ r.res <= Size[u] /\ Size[u] <= r.res + r.freed /\ OwnEnd(u)

(* The locks a transaction has and wants, and the order it takes them in. *)
Wanted(x) == {x.want[i] : i \in 1..Len(x.want)}
Mine(x) == x.have \cup Wanted(x)
AreaRows == {Ws(a) : a \in Areas}
Grade(l) ==
    IF l[1] = "group" THEN 0 ELSE IF l[1] = "pool" THEN 2 ELSE IF l[1] = "person" THEN 3
    ELSE IF l[1] = "store" THEN 5 ELSE IF l[2] \in Areas THEN 1 ELSE 4
Earlier(k, l) == Grade(k) < Grade(l) \/ (k[1] = "ws" /\ l[1] = "ws" /\ Before(k[2], l[2]))
InTurn(x) ==
    /\ \A i, j \in 1..Len(x.want) : i < j => Earlier(x.want[i], x.want[j])
    /\ \A l \in x.have, i \in 1..Len(x.want) : Earlier(l, x.want[i])

(* The figures are read, or still to be read, under the locks they call for. *)
Figures(x, w, rows) ==
    \/ x.want = <<Pool, Store(w)>> /\ x.have = rows /\ x.fam
    \/ x.want = <<Store(w)>> /\ x.have = rows /\ ~x.fam /\ w \in People
    \/ x.want = <<Store(w)>> /\ x.have = rows \cup {Pool} /\ x.fam /\ Draws(w)

BeginOK(x) ==
    LET u == x.u
        w == up[u].at
    IN  /\ u \in Uploads /\ up[u].st = "asked"
        /\ x.verdict # "none" => MayAct(up[u].by, w) /\ OwnEnd(u)
        /\ \/ x.verdict = "none" /\ x.want = <<Ws(w)>> /\ x.have = {}
           \/ x.verdict = "figures" /\ Figures(x, w, {Ws(w)})
           \/ /\ x.verdict = "reserve" /\ x.want = <<>>
              /\ {Ws(w), Store(w)} \subseteq x.have /\ (x.fam => Pool \in x.have)
              /\ x.fam <=> Draws(w)
              /\ Affords(w, x.cost) /\ (~x.live => Bare(w, x.cost))
              /\ x.cost <= Size[u] /\ Size[u] <= x.cost + up[u].freed

EndRows(u) == {Ws(up[u].at)} \cup (IF IsMove(u) THEN {Ws(Source(u))} ELSE {})
StoreRows(u) == {Store(up[u].at)} \cup (IF IsMove(u) THEN {Store(Source(u))} ELSE {})
MoverMay(u) == IsMove(u) => MayAct(up[u].by, up[u].at) /\ MayAct(up[u].by, Source(u))

(* Still taking its workspaces; the upload may be settled meanwhile. *)
Entering(x) ==
    LET u == x.u
    IN  /\ x.verdict = "none" /\ x.want # <<>> /\ InTurn(x)
        /\ Mine(x) \subseteq {Ws(w) : w \in Workspaces}
        /\ up[u].st \in {"open", "over"}
        /\ up[u].st = "open" =>
              /\ Mine(x) = EndRows(u)
              /\ x.writer /\ Ws(up[u].at) \in x.have => MayAct(up[u].by, up[u].at)

(* In all its workspaces: what is to become of the upload is settled. *)
Inside(x) ==
    LET u == x.u
    IN  /\ up[u].st = "open" /\ EndRows(u) \subseteq x.have
        /\ x.writer => MayAct(up[u].by, up[u].at)
        /\ \/ /\ x.verdict = "figures" /\ IsMove(u) /\ MoverMay(u)
              /\ Figures(x, up[u].at, EndRows(u))
           \/ /\ x.verdict = "publish" /\ MoverMay(u)
              /\ Wanted(x) \subseteq StoreRows(u) /\ StoreRows(u) \subseteq Mine(x)
              /\ x.have \subseteq EndRows(u) \cup StoreRows(u) \cup {Pool}
              /\ up[u].kind = "version" => file[up[u].of].there
              /\ IsMove(u) => SourceAsBegun(u)
              /\ IsMove(u) /\ Lean(u) => Pool \in x.have /\ Draws(up[u].at) /\ Draws(Source(u))
              /\ IsMove(u) /\ Lean(u) /\ ~x.live => {up[u].at, Source(u)} \subseteq Areas
           \/ /\ x.verdict = "release"
              /\ Wanted(x) \subseteq StoreRows(u) /\ Store(up[u].at) \in Mine(x)
              /\ x.have \subseteq EndRows(u) \cup StoreRows(u) \cup {Pool}

FinishOK(x) == x.u \in Uploads /\ (Entering(x) \/ Inside(x))

FamilyLocks(x) ==
    CASE x.op = "admit" -> {Group, Pool, Person(x.p), Store(x.p)} \cup AreaRows
      [] x.op = "leave" -> {Group, Pool} \cup AreaRows
      [] x.op = "plan" -> {Group, Pool}
      [] x.op = "delete" -> {Person(x.p), Ws(x.p), Store(x.p)}
                                \cup (IF Group \in Mine(x) THEN {Group} \cup AreaRows ELSE {})
FamilyOK(x) ==
    /\ x.op # "plan" => x.p \in People
    /\ x.verdict = "none" /\ InTurn(x) /\ Mine(x) = FamilyLocks(x)
    /\ x.op = "admit" /\ Store(x.p) \in x.have => member[x.p] = "accepted" /\ AdmissionFits(x.p)

TxOK(x) ==
    /\ x.op = "none" => x = NoTx
    /\ x.op = "begin" => BeginOK(x)
    /\ x.op = "finish" => FinishOK(x)
    /\ x.op \in {"admit", "leave", "delete", "plan"} => FamilyOK(x)

(* A request is one transaction. *)
AskedOnce == \A s, t \in Txs : tx[s].op = "begin" /\ tx[t].op = "begin" /\ tx[s].u = tx[t].u => s = t

IInv ==
    /\ Rows /\ Exclusive /\ Exact /\ AskedOnce
    /\ \A f \in Files : FileOK(f)
    /\ \A u \in Uploads : UploadOK(u)
    /\ \A t \in Txs : TxOK(tx[t])

-----------------------------------------------------------------------------
(* Locks. *)

(* Kinds of locks are apart, and a lock names its workspace or person. *)
LEMMA LockFacts ==
    /\ Group \in Locks /\ Pool \in Locks
    /\ \A w \in Workspaces : Ws(w) \in Locks /\ Store(w) \in Locks
    /\ \A p \in People : Person(p) \in Locks /\ p \in Workspaces
    /\ \A l \in Locks : \/ l = Group \/ l = Pool
                        \/ \E w \in Workspaces : l = Ws(w) \/ l = Store(w)
                        \/ \E p \in People : l = Person(p)
    /\ \A v, w : /\ Ws(v) # Store(w) /\ Ws(v) # Person(w) /\ Store(v) # Person(w)
                 /\ Ws(v) = Ws(w) <=> v = w
                 /\ Store(v) = Store(w) <=> v = w
                 /\ Person(v) = Person(w) <=> v = w
                 /\ Ws(v) # Group /\ Ws(v) # Pool /\ Store(v) # Group /\ Store(v) # Pool
                 /\ Person(v) # Group /\ Person(v) # Pool
                 /\ Ws(v)[1] = "ws" /\ Store(v)[1] = "store" /\ Person(v)[1] = "person"
                 /\ Ws(v)[2] = v /\ Store(v)[2] = v /\ Person(v)[2] = v
    /\ Group # Pool /\ Group[1] = "group" /\ Pool[1] = "pool"
BY DEF Locks, Group, Pool, Ws, Store, Person, Workspaces

(* A lock taken goes from the wanted to the held. *)
LEMMA TookFacts ==
    ASSUME Rows, NEW t \in Txs, tx[t].want # <<>>
    PROVE  /\ Took(t) \in TxRow
           /\ Took(t).op = tx[t].op /\ Took(t).u = tx[t].u /\ Took(t).p = tx[t].p
           /\ Took(t).writer = tx[t].writer /\ Took(t).fam = tx[t].fam
           /\ Took(t).verdict = tx[t].verdict /\ Took(t).cost = tx[t].cost
           /\ Took(t).tries = tx[t].tries /\ Took(t).live = tx[t].live
           /\ Took(t).want = Tail(tx[t].want)
           /\ Took(t).have = tx[t].have \cup {Head(tx[t].want)}
           /\ Head(tx[t].want) \in Locks
<1>1. tx[t] \in TxRow /\ tx[t].want \in Seq(Locks)
  BY DEF Rows, TxRow
<1>2. Head(tx[t].want) \in Locks /\ Tail(tx[t].want) \in Seq(Locks)
  BY <1>1
<1> QED
  BY <1>1, <1>2 DEF Took, TxRow

(* The first wanted and the rest. *)
LEMMA WantFacts ==
    ASSUME NEW s \in Seq(Locks), s # <<>>
    PROVE  /\ Head(s) = s[1] /\ Len(s) \in Nat /\ Len(s) >= 1 /\ Len(Tail(s)) = Len(s) - 1
           /\ Tail(s) \in Seq(Locks)
           /\ \A i \in 1..Len(Tail(s)) : Tail(s)[i] = s[i + 1] /\ i + 1 \in 1..Len(s)
           /\ \A i \in 1..Len(s) : i = 1 \/ (i - 1 \in 1..Len(Tail(s)) /\ Tail(s)[i - 1] = s[i])
OBVIOUS

(* Taking a lock changes neither which are wanted or held nor their order. *)
LEMMA TookTurn ==
    ASSUME Rows, NEW t \in Txs, tx[t].want # <<>>
    PROVE  /\ Mine(Took(t)) = Mine(tx[t])
           /\ InTurn(tx[t]) => InTurn(Took(t))
           /\ Wanted(Took(t)) \subseteq Wanted(tx[t])
           /\ Wanted(tx[t]) = {Head(tx[t].want)} \cup Wanted(Took(t))
<1> DEFINE s == tx[t].want
           y == Took(t)
<1>1. s \in Seq(Locks) /\ s # <<>>
  BY DEF Rows, TxRow
<1>2. y.want = Tail(s) /\ y.have = tx[t].have \cup {Head(s)}
  BY TookFacts
<1> HIDE DEF y
<1>3. /\ Head(s) = s[1] /\ Len(s) \in Nat /\ Len(s) >= 1 /\ Len(Tail(s)) = Len(s) - 1
      /\ \A i \in 1..Len(Tail(s)) : Tail(s)[i] = s[i + 1] /\ i + 1 \in 1..Len(s)
      /\ \A i \in 1..Len(s) : i = 1 \/ (i - 1 \in 1..Len(Tail(s)) /\ Tail(s)[i - 1] = s[i])
  BY <1>1, WantFacts
<1>4. Wanted(tx[t]) = {Head(s)} \cup Wanted(y)
  <2>1. \A l \in Wanted(tx[t]) : l = Head(s) \/ l \in Wanted(y)
    BY <1>2, <1>3 DEF Wanted
  <2>2. Wanted(y) \subseteq Wanted(tx[t])
    BY <1>2, <1>3 DEF Wanted
  <2>3. Head(s) \in Wanted(tx[t])
    BY <1>3 DEF Wanted
  <2> QED
    BY <2>1, <2>2, <2>3
<1>5. Mine(y) = Mine(tx[t])
  BY <1>2, <1>4 DEF Mine
<1>6. ASSUME InTurn(tx[t]) PROVE InTurn(y)
  <2>1. ASSUME NEW i \in 1..Len(y.want), NEW j \in 1..Len(y.want), i < j
        PROVE  Earlier(y.want[i], y.want[j])
    <3>1. i + 1 \in 1..Len(s) /\ j + 1 \in 1..Len(s) /\ i + 1 < j + 1
      BY <1>2, <1>3, <2>1
    <3> QED
      BY <1>2, <1>3, <1>6, <3>1 DEF InTurn
  <2>2. ASSUME NEW l \in y.have, NEW i \in 1..Len(y.want)
        PROVE  Earlier(l, y.want[i])
    <3>1. i + 1 \in 1..Len(s) /\ 1 < i + 1 /\ 1 \in 1..Len(s) /\ y.want[i] = s[i + 1]
      BY <1>2, <1>3
    <3> QED
      BY <1>2, <1>3, <1>6, <3>1 DEF InTurn
  <2> QED
    BY <2>1, <2>2 DEF InTurn
<1> QED
  BY <1>4, <1>5, <1>6 DEF y

-----------------------------------------------------------------------------
(* What a step leaves alone. *)

(* Whatever is locked, a file stays where it is and an upload that was     *)
(* opened is never opened again.                                           *)
Settles ==
    /\ \A f \in Files : file[f].at \in Workspaces => file'[f].at = file[f].at
    /\ \A u \in Uploads : up[u].st \in {"open", "over"} => up'[u] = up[u] \/ up'[u].st = "over"

(* What a step leaves alone of what another transaction has locked by h.   *)
Respects(h) ==
    /\ \A f \in Files : file[f].at \in Workspaces /\ Ws(file[f].at) \in h =>
          /\ file'[f] = file[f]
          /\ \A v \in Uploads : up'[v].st = "open" /\ up'[v].kind = "version" /\ up'[v].of = f =>
                up[v].st = "open" /\ up[v].kind = "version" /\ up[v].of = f
    /\ \A u \in Uploads : up[u].st = "open" /\ Ws(up[u].at) \in h => up'[u] = up[u]
    /\ \A p \in People, w \in Workspaces : Ws(w) \in h /\ MayAct(p, w) => MayAct(p, w)'
    /\ \A w \in Workspaces : {Ws(w), Pool} \subseteq h /\ Draws(w) => Draws(w)'
    /\ \A w \in Workspaces : {Ws(w), Store(w)} \subseteq h /\ ~Draws(w) => ~Draws(w)'
    /\ \A w \in Workspaces : Store(w) \in h => Total(w)' <= Total(w)
    /\ Pool \in h => /\ Drawing' \subseteq Drawing
                     /\ \A w \in Areas \cup Drawing' : Total(w)' <= Total(w)
                     /\ plan'.quota = plan.quota /\ (plan'.live => plan.live)
    /\ \A p \in People : {Group, Person(p)} \subseteq h /\ member[p] = "accepted" => member'[p] = "accepted"

(* One row of tx is replaced. *)
LEMMA RowPut ==
    ASSUME Rows, Exclusive, AskedOnce, NEW t \in Txs, NEW r \in TxRow, tx' = [tx EXCEPT ![t] = r],
           \A s \in Txs \ {t} : r.have \cap tx[s].have = {},
           \A s \in Txs \ {t} : r.op = "begin" /\ tx[s].op = "begin" => tx[s].u # r.u,
           TxOK(r)', \A s \in Txs \ {t}, x \in TxRow : x = tx[s] => TxOK(x)'
    PROVE  /\ tx' \in [Txs -> TxRow] /\ Exclusive' /\ AskedOnce'
           /\ \A s \in Txs : TxOK(tx[s])'
<1>1. tx \in [Txs -> TxRow] /\ tx' \in [Txs -> TxRow]
  BY DEF Rows
<1>2. tx'[t] = r /\ \A s \in Txs \ {t} : tx'[s] = tx[s] /\ tx[s] \in TxRow
  BY <1>1
<1>3. Exclusive'
  BY <1>2 DEF Exclusive
<1>4. AskedOnce'
  BY <1>2 DEF AskedOnce
<1>5. ASSUME NEW s \in Txs PROVE TxOK(tx[s])'
  <2>1. CASE s = t
    <3>1. tx'[s] = r
      BY <1>2, <2>1
    <3> QED
      BY <3>1
  <2>2. CASE s # t
    <3>1. PICK x \in TxRow : x = tx[s]
      BY <1>2, <2>2
    <3>2. TxOK(x)' /\ tx'[s] = x
      BY <1>2, <2>2, <3>1
    <3> QED
      BY <3>2
  <2> QED
    BY <2>1, <2>2
<1> QED
  BY <1>1, <1>3, <1>4, <1>5

(* Exact counters are numbers, so the pool can be counted. *)
LEMMA RowsCount == Rows /\ Exact => CountRows
<1> SUFFICES ASSUME Rows, Exact PROVE CountRows
  OBVIOUS
<1>1. IsFiniteSet(Files) /\ IsFiniteSet(Uploads)
  BY InstanceAssumption, FS_Subset DEF Files
<1>2. ASSUME NEW w \in Workspaces PROVE used[w] \in Nat /\ reserved[w] \in Nat
  <2> DEFINE F == {f \in Files : file[f].at = w}
             U == {u \in Uploads : up[u].at = w}
             b == [f \in Files |-> file[f].bytes]
             c == [u \in Uploads |-> up[u].res]
  <2>1. \A f \in Files : b[f] \in Nat
    BY DEF Rows, FileRow
  <2>2. \A u \in Uploads : c[u] \in Nat
    BY DEF Rows, UpRow
  <2>3. IsFiniteSet(F) /\ IsFiniteSet(U) /\ F \subseteq Files /\ U \subseteq Uploads
    BY <1>1, FS_Subset
  <2>4. used[w] = SumOf(b, F) /\ reserved[w] = SumOf(c, U)
    BY DEF Exact, CountersExact, BytesAt, ReservedAt
  <2> HIDE DEF F, U, b, c
  <2>5. SumOf(b, F) \in Nat
    BY <2>1, <2>3, SumNat
  <2>6. SumOf(c, U) \in Nat
    BY <2>2, <2>3, SumNat
  <2> QED
    BY <2>4, <2>5, <2>6
<1> QED
  BY <1>2 DEF Rows, CountRows

(* And after a step. *)
LEMMA RowsCountNext == (Rows /\ Exact)' => CountRows'
BY RowsCount, PTL

(* What is known of an upload that was asked for or is open. *)
LEMMA UnderFacts ==
    ASSUME Rows, NEW u \in Uploads, UploadOK(u), up[u].st \in {"asked", "open"}
    PROVE  /\ up[u].at \in Workspaces /\ up[u].by \in People
           /\ up[u].kind # "new" => up[u].of \in Files /\ file[up[u].of].at \in Workspaces
           /\ IsMove(u) => Source(u) \in Workspaces /\ Source(u) # up[u].at /\ up[u].of \in Files
           /\ up[u].kind = "version" => file[up[u].of].at = up[u].at
           /\ up[u].at \in People => up[u].by = up[u].at
BY DEF UploadOK, Under, Rows, UpRow, IsMove, Source

(* A begin goes on as it was. *)
LEMMA BeginKept ==
    ASSUME Rows, CountRows, CountRows', NEW x \in TxRow, BeginOK(x),
           \A u \in Uploads : UploadOK(u),
           Settles, Respects(x.have), up'[x.u] = up[x.u]
    PROVE  BeginOK(x)'
<1> DEFINE u == x.u
           w == up[u].at
<1>1. u \in Uploads /\ up[u].st = "asked" /\ up'[u] = up[u] /\ UploadOK(u)
  BY DEF BeginOK
<1>2. /\ w \in Workspaces /\ up[u].by \in People
      /\ IsMove(u) => up[u].of \in Files /\ file[up[u].of].at \in Workspaces
  BY <1>1, UnderFacts DEF IsMove
<1>3. OwnEnd(u) => OwnEnd(u)'
  BY <1>1, <1>2 DEF OwnEnd, IsMove, Source, Settles
<1>4. CASE x.verdict = "none"
  BY <1>1, <1>4 DEF BeginOK
<1>5. CASE x.verdict = "figures"
  <2>1. MayAct(up[u].by, w) /\ OwnEnd(u) /\ Figures(x, w, {Ws(w)})
    BY <1>5 DEF BeginOK
  <2>2. Ws(w) \in x.have
    BY <2>1 DEF Figures
  <2>3. MayAct(up[u].by, w)'
    BY <1>1, <1>2, <2>1, <2>2 DEF Respects
  <2>4. Figures(x, w, {Ws(w)})'
    BY <1>1, <1>2, <2>1 DEF Figures, Respects
  <2> QED
    BY <1>1, <1>3, <1>5, <2>1, <2>3, <2>4 DEF BeginOK
<1>6. CASE x.verdict = "reserve"
  <2>1. /\ MayAct(up[u].by, w) /\ OwnEnd(u) /\ x.want = <<>>
        /\ {Ws(w), Store(w)} \subseteq x.have /\ (x.fam => Pool \in x.have)
        /\ (x.fam <=> Draws(w)) /\ Affords(w, x.cost) /\ (~x.live => Bare(w, x.cost))
        /\ x.cost <= Size[u] /\ Size[u] <= x.cost + up[u].freed
    BY <1>6 DEF BeginOK
  <2>2. MayAct(up[u].by, w)'
    BY <1>1, <1>2, <2>1 DEF Respects
  <2>3. Draws(w)' <=> Draws(w)
    BY <1>2, <2>1 DEF Respects
  <2>4. Affords(w, x.cost)'
    <3>1. x.cost \in Nat
      BY DEF TxRow
    <3>2. Total(w)' <= Total(w)
      BY <1>2, <2>1 DEF Respects
    <3>3. Draws(w) => /\ Drawing' \subseteq Drawing
                      /\ \A v \in Areas \cup Drawing' : Total(v)' <= Total(v)
                      /\ plan'.quota = plan.quota /\ (plan'.live => plan.live)
      BY <2>1 DEF Respects
    <3> QED
      BY <1>2, <2>1, <2>3, <3>1, <3>2, <3>3, AffordsKept
  <2>5. Bare(w, x.cost) => Bare(w, x.cost)'
    <3>1. Total(w)' <= Total(w)
      BY <1>2, <2>1 DEF Respects
    <3>2. Total(w) \in Nat /\ Total(w)' \in Nat /\ Base \in Nat /\ x.cost \in Nat
      BY <1>2, CountsHold, CountsHoldNext, PoolAssumption DEF Counts, TxRow
    <3>3. OwnFree(w) = Base - Total(w) /\ OwnFree(w)' = Base - Total(w)'
      BY DEF OwnFree
    <3>4. x.cost <= OwnFree(w) => x.cost <= OwnFree(w)'
      BY <3>1, <3>2, <3>3
    <3> QED
      BY <1>1, <3>4 DEF Bare
  <2> QED
    BY <1>1, <1>3, <1>6, <2>1, <2>2, <2>3, <2>4, <2>5 DEF BeginOK
<1> QED
  BY <1>4, <1>5, <1>6 DEF BeginOK

(* A completion goes on as it was. *)
LEMMA FinishKept ==
    ASSUME Rows, NEW x \in TxRow, FinishOK(x),
           \A u \in Uploads : UploadOK(u),
           Settles, Respects(x.have)
    PROVE  FinishOK(x)'
<1> DEFINE u == x.u
           w == up[u].at
<1>1. u \in Uploads /\ UploadOK(u) /\ up[u].st \in {"open", "over"}
  BY DEF FinishOK, Entering, Inside
<1>2. up[u].st = "open" =>
          /\ w \in Workspaces /\ up[u].by \in People
          /\ up[u].kind = "version" => up[u].of \in Files /\ file[up[u].of].at = w
          /\ IsMove(u) => Source(u) \in Workspaces /\ up[u].of \in Files
  BY <1>1, UnderFacts DEF IsMove
<1>3. up[u].st = "open" /\ up'[u] = up[u] =>
          /\ (IsMove(u)' <=> IsMove(u)) /\ (IsMove(u) => Source(u)' = Source(u))
          /\ EndRows(u)' = EndRows(u) /\ StoreRows(u)' = StoreRows(u)
  BY <1>2 DEF IsMove, Source, EndRows, StoreRows, Settles
<1>4. CASE Entering(x)
  <2>1. up'[u] = up[u] \/ up'[u].st = "over"
    BY <1>1 DEF Settles
  <2>2. up'[u].st \in {"open", "over"}
    BY <1>1, <2>1
  <2>3. ASSUME up'[u].st = "open"
        PROVE  /\ Mine(x) = EndRows(u)'
               /\ x.writer /\ Ws(up'[u].at) \in x.have => MayAct(up[u].by, up[u].at)'
    <3>1. up'[u] = up[u] /\ up[u].st = "open"
      BY <2>1, <2>3
    <3>2. Mine(x) = EndRows(u) /\ (x.writer /\ Ws(w) \in x.have => MayAct(up[u].by, w))
      BY <1>4, <3>1 DEF Entering
    <3>3. x.writer /\ Ws(w) \in x.have => MayAct(up[u].by, w)'
      BY <1>2, <3>1, <3>2 DEF Respects
    <3> QED
      BY <1>3, <3>1, <3>2, <3>3
  <2>4. /\ x.verdict = "none" /\ x.want # <<>> /\ InTurn(x)
        /\ Mine(x) \subseteq {Ws(v) : v \in Workspaces}
    BY <1>4 DEF Entering
  <2>5. Entering(x)'
    BY <2>2, <2>3, <2>4 DEF Entering
  <2> QED
    BY <1>1, <2>5 DEF FinishOK
<1>5. CASE Inside(x)
  <2>1. up[u].st = "open" /\ EndRows(u) \subseteq x.have /\ (x.writer => MayAct(up[u].by, w))
    BY <1>5 DEF Inside
  <2>2. Ws(w) \in x.have /\ (IsMove(u) => Ws(Source(u)) \in x.have)
    BY <2>1 DEF EndRows
  <2>3. up'[u] = up[u]
    BY <1>1, <2>1, <2>2 DEF Respects
  <2>4. /\ (IsMove(u)' <=> IsMove(u)) /\ (IsMove(u) => Source(u)' = Source(u))
        /\ EndRows(u)' = EndRows(u) /\ StoreRows(u)' = StoreRows(u)
    BY <1>3, <2>1, <2>3
  <2>5. MayAct(up[u].by, w) => MayAct(up[u].by, w)'
    BY <1>2, <2>1, <2>2, <2>3 DEF Respects
  <2>6. IsMove(u) /\ MayAct(up[u].by, Source(u)) => MayAct(up[u].by, Source(u))'
    <3> SUFFICES ASSUME IsMove(u), MayAct(up[u].by, Source(u)) PROVE MayAct(up[u].by, Source(u))'
      OBVIOUS
    <3>1. PICK v \in Workspaces : v = Source(u)
      BY <1>2, <2>1
    <3>2. MayAct(up[u].by, v)'
      BY <1>2, <2>1, <2>2, <2>3, <3>1 DEF Respects
    <3> QED
      BY <2>4, <3>1, <3>2
  <2>7. MoverMay(u) => MoverMay(u)'
    BY <2>4, <2>5, <2>6 DEF MoverMay
  <2>8. ASSUME x.verdict = "figures", IsMove(u), MoverMay(u), Figures(x, w, EndRows(u))
        PROVE  Figures(x, w, EndRows(u))'
    BY <1>2, <2>1, <2>2, <2>3, <2>4, <2>8 DEF Figures, Respects
  <2>9. IsMove(u) /\ SourceAsBegun(u) => SourceAsBegun(u)'
    <3> SUFFICES ASSUME IsMove(u), SourceAsBegun(u) PROVE SourceAsBegun(u)'
      OBVIOUS
    <3> DEFINE f == up[u].of
    <3>1. f \in Files /\ file[f].at \in Workspaces /\ Ws(file[f].at) \in x.have
      BY <1>2, <2>1, <2>2 DEF Source
    <3>2. /\ file'[f] = file[f]
          /\ \A v \in Uploads : up'[v].st = "open" /\ up'[v].kind = "version" /\ up'[v].of = f =>
                up[v].st = "open" /\ up[v].kind = "version" /\ up[v].of = f
      BY <3>1 DEF Respects
    <3> QED
      BY <2>3, <3>2 DEF SourceAsBegun
  <2>10. up[u].kind = "version" /\ file[up[u].of].there => file'[up[u].of].there
    BY <1>2, <2>1, <2>2 DEF Respects
  <2>11. Pool \in x.have /\ Draws(w) => Draws(w)'
    BY <1>2, <2>1, <2>2, <2>3 DEF Respects
  <2>12. IsMove(u) /\ Pool \in x.have /\ Draws(Source(u)) => Draws(Source(u))'
    <3> SUFFICES ASSUME IsMove(u), Pool \in x.have, Draws(Source(u)) PROVE Draws(Source(u))'
      OBVIOUS
    <3>1. PICK v \in Workspaces : v = Source(u)
      BY <1>2, <2>1
    <3>2. Draws(v)'
      BY <2>2, <3>1 DEF Respects
    <3> QED
      BY <2>4, <3>1, <3>2
  <2>13. Lean(u)' <=> Lean(u)
    BY <2>3 DEF Lean
  <2>14. Inside(x)'
    <3>1. CASE x.verdict = "figures"
      <4>1. IsMove(u) /\ MoverMay(u) /\ Figures(x, w, EndRows(u))
        BY <1>5, <3>1 DEF Inside
      <4>2. IsMove(u)' /\ MoverMay(u)' /\ Figures(x, w, EndRows(u))'
        BY <2>4, <2>7, <2>8, <3>1, <4>1
      <4> QED
        BY <2>1, <2>3, <2>4, <2>5, <3>1, <4>2 DEF Inside
    <3>2. CASE x.verdict = "publish"
      <4>1. /\ MoverMay(u) /\ Wanted(x) \subseteq StoreRows(u) /\ StoreRows(u) \subseteq Mine(x)
            /\ x.have \subseteq EndRows(u) \cup StoreRows(u) \cup {Pool}
            /\ up[u].kind = "version" => file[up[u].of].there
            /\ IsMove(u) => SourceAsBegun(u)
            /\ IsMove(u) /\ Lean(u) => Pool \in x.have /\ Draws(w) /\ Draws(Source(u))
            /\ IsMove(u) /\ Lean(u) /\ ~x.live => {w, Source(u)} \subseteq Areas
        BY <1>5, <3>2 DEF Inside
      <4>2. /\ MoverMay(u)' /\ Wanted(x) \subseteq StoreRows(u)' /\ StoreRows(u)' \subseteq Mine(x)
            /\ x.have \subseteq EndRows(u)' \cup StoreRows(u)' \cup {Pool}
            /\ up'[u].kind = "version" => file'[up'[u].of].there
            /\ IsMove(u)' => SourceAsBegun(u)'
        BY <2>3, <2>4, <2>7, <2>9, <2>10, <4>1
      <4>3. /\ IsMove(u)' /\ Lean(u)' => Pool \in x.have /\ Draws(w)' /\ Draws(Source(u))'
            /\ IsMove(u)' /\ Lean(u)' /\ ~x.live => {up'[u].at, Source(u)'} \subseteq Areas
        BY <2>3, <2>4, <2>11, <2>12, <2>13, <4>1
      <4> QED
        BY <2>1, <2>3, <2>4, <2>5, <3>2, <4>2, <4>3 DEF Inside
    <3>3. CASE x.verdict = "release"
      BY <1>5, <2>1, <2>3, <2>4, <2>5, <3>3 DEF Inside
    <3> QED
      BY <1>5, <3>1, <3>2, <3>3 DEF Inside
  <2> QED
    BY <1>1, <2>14 DEF FinishOK
<1> QED
  BY <1>4, <1>5 DEF FinishOK

(* A lock by its grade. *)
LEMMA Grades ==
    /\ Grade(Group) = 0 /\ Grade(Pool) = 2
    /\ \A w : Grade(Person(w)) = 3 /\ Grade(Store(w)) = 5
    /\ \A w : Grade(Ws(w)) = IF w \in Areas THEN 1 ELSE 4
    /\ \A l \in Locks : Grade(l) \in 0..5
<1>1. /\ Grade(Group) = 0 /\ Grade(Pool) = 2
      /\ \A w : Grade(Person(w)) = 3 /\ Grade(Store(w)) = 5
      /\ \A w : Grade(Ws(w)) = IF w \in Areas THEN 1 ELSE 4
  BY DEF Grade, Group, Pool, Person, Store, Ws
<1>2. \A l \in Locks : Grade(l) \in 0..5
  BY DEF Grade
<1> QED
  BY <1>1, <1>2

(* A storage row is taken last of what the family's transactions take. *)
LEMMA StoreLast ==
    ASSUME NEW x \in TxRow, InTurn(x), NEW w, Store(w) \in x.have
    PROVE  Wanted(x) = {} /\ Mine(x) = x.have
<1>1. x.want \in Seq(Locks)
  BY DEF TxRow
<1>2. ASSUME NEW i \in 1..Len(x.want) PROVE FALSE
  <2>1. Earlier(Store(w), x.want[i]) /\ x.want[i] \in Locks
    BY <1>1 DEF InTurn
  <2>2. Grade(Store(w)) = 5 /\ Grade(x.want[i]) \in 0..5
    BY <2>1, Grades
  <2>3. ~(Grade(Store(w)) < Grade(x.want[i]))
    BY <2>2
  <2>4. Store(w)[1] # "ws"
    BY LockFacts
  <2> QED
    BY <2>1, <2>3, <2>4 DEF Earlier
<1> QED
  BY <1>2 DEF Wanted, Mine

(* A transaction of the family's goes on as it was. *)
LEMMA FamilyKept ==
    ASSUME CountRows, CountRows', NEW x \in TxRow, Respects(x.have), FamilyOK(x)
    PROVE  FamilyOK(x)'
<1>1. /\ x.op # "plan" => x.p \in People
      /\ x.verdict = "none" /\ InTurn(x) /\ Mine(x) = FamilyLocks(x)
  BY DEF FamilyOK
<1>2. ASSUME x.op = "admit", Store(x.p) \in x.have
      PROVE  member'[x.p] = "accepted" /\ AdmissionFits(x.p)'
  <2> DEFINE p == x.p
  <2>1. p \in People /\ member[p] = "accepted" /\ AdmissionFits(p)
    BY <1>1, <1>2 DEF FamilyOK
  <2>2. {Group, Pool, Person(p), Store(p)} \subseteq x.have
    BY <1>1, <1>2, StoreLast DEF FamilyLocks
  <2>3. member'[p] = "accepted"
    BY <2>1, <2>2 DEF Respects
  <2>4. /\ Total(p)' <= Total(p) /\ Drawing' \subseteq Drawing
        /\ \A w \in Areas \cup Drawing' : Total(w)' <= Total(w)
        /\ plan'.quota = plan.quota /\ (plan'.live => plan.live)
    BY <2>1, <2>2 DEF Respects, Workspaces
  <2>5. CountedReserved' <= CountedReserved
    BY <2>4, CountMono
  <2>6. /\ Counts /\ Counts' /\ p \in Workspaces
    BY <2>1, CountsHold, CountsHoldNext DEF Workspaces
  <2>7. /\ CountedReserved \in Nat /\ CountedReserved' \in Nat /\ Total(p) \in Nat /\ Total(p)' \in Nat
        /\ WholeGibUp(Total(p)) \in Nat /\ WholeGibUp(Total(p)') \in Nat
    BY <2>6 DEF Counts, WholeGibUp
  <2>8. WholeGibUp(Total(p)') <= WholeGibUp(Total(p))
    BY <2>4, <2>7, WholeGibMono
  <2>9. WholeGibUp(Total(p))' = WholeGibUp(Total(p)')
    BY DEF WholeGibUp
  <2>10. plan.quota \in Nat /\ plan'.quota \in Nat
    BY DEF CountRows
  <2>11. ASSUME plan'.live PROVE CountedReserved' + WholeGibUp(Total(p))' <= plan'.quota
    <3>1. CountedReserved + WholeGibUp(Total(p)) <= plan.quota
      BY <2>1, <2>4, <2>11 DEF AdmissionFits
    <3> QED
      BY <2>4, <2>5, <2>7, <2>8, <2>9, <2>10, <3>1
  <2>12. AdmissionFits(p)'
    BY <2>11 DEF AdmissionFits
  <2> QED
    BY <2>3, <2>12
<1>3. FamilyLocks(x)' = FamilyLocks(x)
  BY DEF FamilyLocks
<1> QED
  BY <1>1, <1>2, <1>3 DEF FamilyOK

(* What a transaction has established stays so while its locks are         *)
(* respected.                                                              *)
LEMMA RowKept ==
    ASSUME Rows, CountRows, CountRows', NEW x \in TxRow, TxOK(x),
           \A u \in Uploads : UploadOK(u),
           Settles, Respects(x.have), x.op = "begin" => up'[x.u] = up[x.u]
    PROVE  TxOK(x)'
<1>1. CASE x.op = "begin"
  BY <1>1, BeginKept DEF TxOK
<1>2. CASE x.op = "finish"
  BY <1>2, FinishKept DEF TxOK
<1>3. CASE x.op \in {"admit", "leave", "delete", "plan"}
  BY <1>3, FamilyKept DEF TxOK
<1>4. CASE x.op = "none"
  BY <1>4 DEF TxOK
<1> QED
  BY <1>1, <1>2, <1>3, <1>4 DEF TxRow

-----------------------------------------------------------------------------
(* Rows in the order they are locked in. *)

(* Workspaces are strictly ordered. *)
LEMMA BeforeFacts ==
    /\ \A v, w \in Workspaces : v # w => Before(v, w) \/ Before(w, v)
    /\ \A v, w \in Workspaces : ~(Before(v, w) /\ Before(w, v))
    /\ \A u, v, w \in Workspaces : Before(u, v) /\ Before(v, w) => Before(u, w)
BY InstanceAssumption DEF Before

(* Of finitely many workspaces, one is locked last. *)
LEMMA LastBefore ==
    ASSUME NEW S \in SUBSET Workspaces, IsFiniteSet(S), S # {}
    PROVE  \E m \in S : \A w \in S \ {m} : Before(w, m)
<1> DEFINE F == {T \in SUBSET S : T = {} \/ \E m \in T : \A w \in T \ {m} : Before(w, m)}
<1>1. {} \in F
  OBVIOUS
<1>2. ASSUME NEW T \in SUBSET S, NEW x \in S \ T, T \in F PROVE T \cup {x} \in F
  <2>1. CASE T = {}
    BY <2>1
  <2>2. CASE T # {}
    <3>1. PICK m \in T : \A w \in T \ {m} : Before(w, m)
      BY <1>2, <2>2
    <3>2. CASE Before(m, x)
      <4>1. \A w \in (T \cup {x}) \ {x} : Before(w, x)
        BY <3>1, <3>2, BeforeFacts
      <4> QED
        BY <4>1
    <3>3. CASE Before(x, m)
      <4>1. m \in T \cup {x} /\ \A w \in (T \cup {x}) \ {m} : Before(w, m)
        BY <3>1, <3>3
      <4> QED
        BY <4>1
    <3> QED
      BY <3>2, <3>3, BeforeFacts
  <2> QED
    BY <2>1, <2>2
<1>3. S \in F
  <2> HIDE DEF F
  <2> QED
    BY <1>1, <1>2, FiniteInduction
<1> QED
  BY <1>3

Sorted(q, ws) ==
    /\ q \in [1..Cardinality(ws) -> ws]
    /\ \A i, j \in 1..Cardinality(ws) : i < j => Before(q[i], q[j])

(* Finitely many workspaces can be put in order. *)
LEMMA SortedExists ==
    ASSUME NEW S \in SUBSET Workspaces, IsFiniteSet(S)
    PROVE  \E q : Sorted(q, S)
<1> DEFINE P == {n \in Nat : \A T \in SUBSET S : Cardinality(T) = n => \E q : Sorted(q, T)}
<1>1. \A T \in SUBSET S : IsFiniteSet(T) /\ Cardinality(T) \in Nat
  BY FS_Subset, FS_CardinalityType
<1>2. 0 \in P
  <2>1. ASSUME NEW T \in SUBSET S, Cardinality(T) = 0 PROVE \E q : Sorted(q, T)
    <3>1. [i \in {} |-> i] \in [1..Cardinality(T) -> T]
      BY <2>1
    <3>2. Sorted([i \in {} |-> i], T)
      BY <2>1, <3>1 DEF Sorted
    <3> QED
      BY <3>2
  <2> QED
    BY <2>1
<1>3. ASSUME NEW n \in Nat, n \in P PROVE n + 1 \in P
  <2>1. ASSUME NEW T \in SUBSET S, Cardinality(T) = n + 1 PROVE \E q : Sorted(q, T)
    <3>1. T # {} /\ IsFiniteSet(T) /\ T \in SUBSET Workspaces
      BY <1>1, <2>1, FS_EmptySet
    <3>2. PICK m \in T : \A w \in T \ {m} : Before(w, m)
      BY <3>1, LastBefore
    <3>3. Cardinality(T \ {m}) = n /\ T \ {m} \in SUBSET S
      <4>1. Cardinality(T \ {m}) = Cardinality(T) - 1
        BY <3>1, FS_RemoveElement
      <4> QED
        BY <2>1, <4>1
    <3>4. PICK q : Sorted(q, T \ {m})
      BY <1>3, <3>3
    <3> DEFINE r == [i \in 1..(n + 1) |-> IF i = n + 1 THEN m ELSE q[i]]
    <3>5. q \in [1..n -> T \ {m}] /\ \A i, j \in 1..n : i < j => Before(q[i], q[j])
      BY <3>3, <3>4 DEF Sorted
    <3>6. r \in [1..(n + 1) -> T]
      BY <3>5
    <3>7. ASSUME NEW i \in 1..(n + 1), NEW j \in 1..(n + 1), i < j PROVE Before(r[i], r[j])
      <4>1. i \in 1..n /\ r[i] = q[i] /\ q[i] \in T \ {m}
        BY <3>5, <3>7
      <4>2. CASE j = n + 1
        BY <3>2, <4>1, <4>2
      <4>3. CASE j # n + 1
        <5>1. j \in 1..n /\ r[j] = q[j]
          BY <4>3
        <5> QED
          BY <3>5, <3>7, <4>1, <5>1
      <4> QED
        BY <4>2, <4>3
    <3>8. Sorted(r, T)
      BY <2>1, <3>6, <3>7 DEF Sorted
    <3> QED
      BY <3>8
  <2> QED
    BY <2>1
<1>4. Nat \subseteq P
  <2> HIDE DEF P
  <2> QED
    BY <1>2, <1>3, NatSetInduction
<1> QED
  BY <1>1, <1>4

(* The rows of workspaces to lock are those workspaces', each before the   *)
(* next.                                                                   *)
LEMMA RowLocksFacts ==
    ASSUME NEW ws \in SUBSET Workspaces, IsFiniteSet(ws)
    PROVE  /\ RowLocks(ws) \in Seq(Locks)
           /\ Len(RowLocks(ws)) = Cardinality(ws)
           /\ {RowLocks(ws)[i] : i \in 1..Len(RowLocks(ws))} = {Ws(w) : w \in ws}
           /\ \A i, j \in 1..Len(RowLocks(ws)) :
                 i < j => Earlier(RowLocks(ws)[i], RowLocks(ws)[j])
<1> DEFINE n == Cardinality(ws)
           q == InOrder(ws)
<1>1. n \in Nat
  BY FS_CardinalityType
<1>2. q \in [1..n -> ws] /\ \A i, j \in 1..n : i < j => Before(q[i], q[j])
  <2>1. \E r \in [1..n -> ws] : \A i, j \in 1..n : i < j => Before(r[i], r[j])
    BY SortedExists DEF Sorted
  <2> QED
    BY <2>1 DEF InOrder
<1> HIDE DEF q
<1>3. \A i, j \in 1..n : q[i] = q[j] => i = j
  <2> SUFFICES ASSUME NEW i \in 1..n, NEW j \in 1..n, q[i] = q[j], i # j PROVE FALSE
    OBVIOUS
  <2>1. q[i] \in Workspaces /\ (i < j \/ j < i)
    BY <1>1, <1>2
  <2> QED
    BY <1>2, <2>1, BeforeFacts
<1>4. \A w \in ws : \E i \in 1..n : q[i] = w
  <2>1. q \in Injection(1..n, ws)
    BY <1>2, <1>3 DEF Injection, IsInjective
  <2>2. IsFiniteSet(1..n) /\ Cardinality(1..n) = n
    BY <1>1, FS_Interval
  <2>3. q \in Surjection(1..n, ws)
    BY <2>1, <2>2, FS_Injection
  <2> QED
    BY <2>3 DEF Surjection
<1>5. RowLocks(ws) = [i \in 1..n |-> Ws(q[i])]
  BY DEF RowLocks, q
<1>6. \A i \in 1..n : Ws(q[i]) \in Locks
  BY <1>2, LockFacts
<1>7. RowLocks(ws) \in Seq(Locks) /\ Len(RowLocks(ws)) = n
  BY <1>1, <1>5, <1>6
<1>8. {RowLocks(ws)[i] : i \in 1..n} = {Ws(w) : w \in ws}
  BY <1>2, <1>4, <1>5
<1>9. ASSUME NEW i \in 1..n, NEW j \in 1..n, i < j PROVE Earlier(RowLocks(ws)[i], RowLocks(ws)[j])
  <2>1. RowLocks(ws)[i] = Ws(q[i]) /\ RowLocks(ws)[j] = Ws(q[j]) /\ Before(q[i], q[j])
    BY <1>2, <1>5, <1>9
  <2> QED
    BY <2>1, LockFacts DEF Earlier
<1> QED
  BY <1>7, <1>8, <1>9

(* Locks listed one after the other, each before the next. *)
Listed(s) == {s[i] : i \in 1..Len(s)}
Steps(s) == s \in Seq(Locks) /\ \A i, j \in 1..Len(s) : i < j => Earlier(s[i], s[j])

(* Two lists, one after the other. *)
LEMMA ListedAfter ==
    ASSUME NEW a, NEW b, Steps(a), Steps(b), \A k \in Listed(a), l \in Listed(b) : Earlier(k, l)
    PROVE  Steps(a \o b) /\ Listed(a \o b) = Listed(a) \cup Listed(b)
<1> DEFINE c == a \o b
<1>1. a \in Seq(Locks) /\ b \in Seq(Locks)
  BY DEF Steps
<1>2. /\ c \in Seq(Locks) /\ Len(c) = Len(a) + Len(b) /\ Len(a) \in Nat /\ Len(b) \in Nat
      /\ \A i \in 1..Len(c) : c[i] = IF i <= Len(a) THEN a[i] ELSE b[i - Len(a)]
  BY <1>1
<1> HIDE DEF c
<1>3. ASSUME NEW i \in 1..Len(c), NEW j \in 1..Len(c), i < j PROVE Earlier(c[i], c[j])
  <2>1. CASE j <= Len(a)
    <3>1. i \in 1..Len(a) /\ j \in 1..Len(a) /\ c[i] = a[i] /\ c[j] = a[j]
      BY <1>2, <1>3, <2>1
    <3> QED
      BY <1>3, <3>1 DEF Steps
  <2>2. CASE i > Len(a)
    <3>1. /\ i - Len(a) \in 1..Len(b) /\ j - Len(a) \in 1..Len(b) /\ i - Len(a) < j - Len(a)
          /\ c[i] = b[i - Len(a)] /\ c[j] = b[j - Len(a)]
      BY <1>2, <1>3, <2>2
    <3> QED
      BY <3>1 DEF Steps
  <2>3. CASE i <= Len(a) /\ j > Len(a)
    <3>1. /\ i \in 1..Len(a) /\ j - Len(a) \in 1..Len(b) /\ c[i] = a[i] /\ c[j] = b[j - Len(a)]
      BY <1>2, <2>3
    <3>2. c[i] \in Listed(a) /\ c[j] \in Listed(b)
      BY <3>1 DEF Listed
    <3> QED
      BY <3>2
  <2> QED
    BY <1>2, <2>1, <2>2, <2>3
<1>4. \A i \in 1..Len(a) : i \in 1..Len(c) /\ c[i] = a[i]
  BY <1>2
<1>5. \A i \in 1..Len(b) : i + Len(a) \in 1..Len(c) /\ c[i + Len(a)] = b[i]
  <2> SUFFICES ASSUME NEW i \in 1..Len(b) PROVE i + Len(a) \in 1..Len(c) /\ c[i + Len(a)] = b[i]
    OBVIOUS
  <2>1. i + Len(a) \in 1..Len(c) /\ ~(i + Len(a) <= Len(a)) /\ i + Len(a) - Len(a) = i
    BY <1>2
  <2> QED
    BY <1>2, <2>1
<1>6. \A i \in 1..Len(c) : c[i] \in Listed(a) \cup Listed(b)
  <2> SUFFICES ASSUME NEW i \in 1..Len(c) PROVE c[i] \in Listed(a) \cup Listed(b)
    OBVIOUS
  <2>1. CASE i <= Len(a)
    BY <1>2, <2>1 DEF Listed
  <2>2. CASE i > Len(a)
    <3>1. i - Len(a) \in 1..Len(b) /\ c[i] = b[i - Len(a)]
      BY <1>2, <2>2
    <3> QED
      BY <3>1 DEF Listed
  <2> QED
    BY <1>2, <2>1, <2>2
<1>7. Listed(c) = Listed(a) \cup Listed(b)
  BY <1>4, <1>5, <1>6 DEF Listed
<1> QED
  BY <1>2, <1>3, <1>7 DEF Steps, c

(* A list of one, two or three. *)
LEMMA ShortLists ==
    ASSUME NEW k \in Locks, NEW l \in Locks, NEW m \in Locks
    PROVE  /\ Steps(<<k>>) /\ Listed(<<k>>) = {k}
           /\ Earlier(k, l) => Steps(<<k, l>>) /\ Listed(<<k, l>>) = {k, l}
           /\ Earlier(k, l) /\ Earlier(l, m) /\ Earlier(k, m) =>
                 Steps(<<k, l, m>>) /\ Listed(<<k, l, m>>) = {k, l, m}
BY DEF Steps, Listed

(* The family's folders are locked after its row and before all else. *)
LEMMA AreaSteps ==
    /\ Steps(AreaLocks) /\ Listed(AreaLocks) = AreaRows
    /\ \A l \in AreaRows : Earlier(Group, l) /\ Earlier(l, Pool)
    /\ \A l \in AreaRows, p \in People : Earlier(l, Person(p)) /\ Earlier(l, Ws(p)) /\ Earlier(l, Store(p))
<1>1. Areas \in SUBSET Workspaces /\ IsFiniteSet(Areas)
  BY PoolAssumption DEF Workspaces
<1>2. Steps(AreaLocks) /\ Listed(AreaLocks) = AreaRows
  BY <1>1, RowLocksFacts DEF AreaLocks, AreaRows, Steps, Listed
<1>3. \A l \in AreaRows : Grade(l) = 1
  BY Grades DEF AreaRows
<1>4. \A p \in People : Grade(Person(p)) = 3 /\ Grade(Ws(p)) = 4 /\ Grade(Store(p)) = 5
  BY Grades, PoolAssumption
<1>5. Grade(Group) = 0 /\ Grade(Pool) = 2
  BY Grades
<1> QED
  BY <1>2, <1>3, <1>4, <1>5 DEF Earlier

(* What a transaction that has the first of these locks wants of the rest. *)
LEMMA OpenedTurn ==
    ASSUME NEW r \in TxRow, Steps(r.want), \A l \in r.have, k \in Listed(r.want) : Earlier(l, k)
    PROVE  InTurn(r) /\ Wanted(r) = Listed(r.want) /\ Mine(r) = r.have \cup Listed(r.want)
BY DEF InTurn, Wanted, Mine, Listed, Steps

-----------------------------------------------------------------------------
(* Steps. *)

(* A step of one transaction that respects what the others have locked.    *)
LEMMA StepOfOne ==
    ASSUME IInv, NEW t \in Txs, NEW r \in TxRow, tx' = [tx EXCEPT ![t] = r],
           \A s \in Txs \ {t} : r.have \cap tx[s].have = {},
           r.op = "begin" => \A s \in Txs \ {t} : tx[s].op = "begin" => tx[s].u # r.u,
           member' \in [People -> {"out", "accepted", "active", "held", "gone"}],
           plan' \in [quota : Nat, live : BOOLEAN],
           used' \in [Workspaces -> Int], reserved' \in [Workspaces -> Int],
           file' \in [Files -> FileRow], up' \in [Uploads -> UpRow],
           Exact', \A f \in Files : FileOK(f)', \A u \in Uploads : UploadOK(u)',
           Settles, \A s \in Txs \ {t} : Respects(tx[s].have),
           \A s \in Txs \ {t} : tx[s].op = "begin" => up'[tx[s].u] = up[tx[s].u],
           TxOK(r)'
    PROVE  IInv'
<1>1. /\ Rows /\ Exclusive /\ Exact /\ AskedOnce /\ (\A u \in Uploads : UploadOK(u))
      /\ \A s \in Txs : TxOK(tx[s])
  BY DEF IInv
<1>2. tx' \in [Txs -> TxRow] /\ tx \in [Txs -> TxRow]
  BY <1>1 DEF Rows
<1>3. Rows'
  BY <1>2 DEF Rows
<1>4. CountRows /\ CountRows'
  BY <1>1, <1>3, RowsCount, RowsCountNext
<1>5. ASSUME NEW s \in Txs \ {t}, NEW x \in TxRow, x = tx[s] PROVE TxOK(x)'
  <2>1. TxOK(x) /\ Respects(x.have) /\ (x.op = "begin" => up'[x.u] = up[x.u])
    BY <1>1, <1>5
  <2> QED
    BY <1>1, <1>4, <2>1, RowKept
<1>6. Exclusive' /\ AskedOnce' /\ \A s \in Txs : TxOK(tx[s])'
  BY <1>1, <1>5, RowPut
<1> QED
  BY <1>3, <1>6 DEF IInv

(* A step of none.                                                         *)
LEMMA StepOfNone ==
    ASSUME IInv, tx' = tx,
           member' \in [People -> {"out", "accepted", "active", "held", "gone"}],
           plan' \in [quota : Nat, live : BOOLEAN],
           used' \in [Workspaces -> Int], reserved' \in [Workspaces -> Int],
           file' \in [Files -> FileRow], up' \in [Uploads -> UpRow],
           Exact', \A f \in Files : FileOK(f)', \A u \in Uploads : UploadOK(u)',
           Settles, \A s \in Txs : Respects(tx[s].have),
           \A s \in Txs : tx[s].op = "begin" => up'[tx[s].u] = up[tx[s].u]
    PROVE  IInv'
<1>1. /\ Rows /\ Exclusive /\ Exact /\ AskedOnce /\ (\A u \in Uploads : UploadOK(u))
      /\ \A s \in Txs : TxOK(tx[s])
  BY DEF IInv
<1>2. tx \in [Txs -> TxRow]
  BY <1>1 DEF Rows
<1>3. Rows'
  BY <1>2 DEF Rows
<1>4. CountRows /\ CountRows'
  BY <1>1, <1>3, RowsCount, RowsCountNext
<1>5. ASSUME NEW s \in Txs PROVE TxOK(tx[s])'
  <2>1. PICK x \in TxRow : x = tx[s]
    BY <1>2
  <2>2. TxOK(x) /\ Respects(x.have) /\ (x.op = "begin" => up'[x.u] = up[x.u])
    BY <1>1, <2>1
  <2>3. TxOK(x)'
    BY <1>1, <1>4, <2>2, RowKept
  <2>4. tx'[s] = x
    BY <2>1
  <2> QED
    BY <2>3, <2>4
<1>6. Exclusive' /\ AskedOnce'
  BY <1>1 DEF Exclusive, AskedOnce
<1> QED
  BY <1>3, <1>5, <1>6 DEF IInv

(* A step that only takes, wants or drops locks. *)
Quiet == UNCHANGED <<family, storage, file, up, missed>>

(* It leaves everyone what they have locked. *)
LEMMA QuietRespects ==
    ASSUME Rows, Quiet
    PROVE  Settles /\ \A h : Respects(h)
<1>1. member' = member /\ plan' = plan /\ used' = used /\ reserved' = reserved /\ file' = file
      /\ up' = up /\ missed' = missed
  BY DEF Quiet, family, storage
<1>2. Settles
  BY <1>1 DEF Settles
<1>3. \A w : Draws(w)' <=> Draws(w)
  BY <1>1 DEF Draws, Active
<1>4. \A p, w : MayAct(p, w)' <=> MayAct(p, w)
  BY <1>1 DEF MayAct, HoldsWorkspace, Alive, Active
<1>5. Drawing' = Drawing
  BY <1>1 DEF Drawing, Active
<1>6. \A w \in Workspaces : Total(w)' <= Total(w)
  BY <1>1 DEF Total, Rows
<1>7. Areas \subseteq Workspaces /\ Drawing \subseteq Workspaces
  BY DEF Workspaces, Drawing
<1> QED
  BY <1>1, <1>2, <1>3, <1>4, <1>5, <1>6, <1>7 DEF Respects

(* Such a step of one transaction. *)
LEMMA QuietStep ==
    ASSUME IInv, Quiet, NEW t \in Txs, NEW r \in TxRow, tx' = [tx EXCEPT ![t] = r],
           \A s \in Txs \ {t} : r.have \cap tx[s].have = {},
           r.op = "begin" => \A s \in Txs \ {t} : tx[s].op = "begin" => tx[s].u # r.u,
           TxOK(r)
    PROVE  IInv'
<1>1. /\ Rows /\ Exclusive /\ Exact /\ (\A u \in Uploads : UploadOK(u))
      /\ (\A f \in Files : FileOK(f)) /\ \A s \in Txs : TxOK(tx[s])
  BY DEF IInv
<1>2. member' = member /\ plan' = plan /\ used' = used /\ reserved' = reserved /\ file' = file
      /\ up' = up /\ missed' = missed
  BY DEF Quiet, family, storage
<1>3. Settles /\ \A h : Respects(h)
  BY <1>1, QuietRespects
<1>4. Exact'
  BY <1>1, <1>2 DEF Exact, CountersExact, BytesAt, ReservedAt
<1>5. \A f \in Files : FileOK(f)'
  BY <1>1, <1>2 DEF FileOK
<1>6. \A u \in Uploads : UploadOK(u)'
  <2> SUFFICES ASSUME NEW u \in Uploads PROVE UploadOK(u)'
    OBVIOUS
  <2>1. UploadOK(u)
    BY <1>1
  <2> QED
    BY <1>2, <2>1 DEF UploadOK, Under, OwnEnd, IsMove, Source
<1>7. CountRows /\ CountRows'
  <2>1. CountRows
    BY <1>1, RowsCount
  <2> QED
    BY <1>2, <2>1 DEF CountRows
<1>8. TxOK(r)'
  BY <1>1, <1>2, <1>3, <1>7, RowKept
<1>9. /\ member \in [People -> {"out", "accepted", "active", "held", "gone"}]
      /\ plan \in [quota : Nat, live : BOOLEAN]
      /\ used \in [Workspaces -> Int] /\ reserved \in [Workspaces -> Int]
      /\ file \in [Files -> FileRow] /\ up \in [Uploads -> UpRow]
  BY <1>1 DEF Rows
<1> QED
  BY <1>2, <1>3, <1>4, <1>5, <1>6, <1>8, <1>9, StepOfOne

(* A transaction goes on: it takes at most the lock it wants next, which   *)
(* is free, and begins nothing else.                                       *)
LEMMA GoStep ==
    ASSUME IInv, Quiet, NEW t \in Txs, NEW r \in TxRow, tx' = [tx EXCEPT ![t] = r],
           NEW l, Free(l), r.have \subseteq tx[t].have \cup {l},
           r.op = "begin" => tx[t].op = "begin" /\ r.u = tx[t].u,
           TxOK(r)
    PROVE  IInv'
<1>1. Exclusive /\ AskedOnce
  BY DEF IInv
<1>2. \A s \in Txs \ {t} : r.have \cap tx[s].have = {}
  BY <1>1 DEF Exclusive, Free
<1>3. r.op = "begin" => \A s \in Txs \ {t} : tx[s].op = "begin" => tx[s].u # r.u
  BY <1>1 DEF AskedOnce
<1> QED
  BY <1>2, <1>3, QuietStep

(* No lock is held by the row of no transaction.                           *)
LEMMA NoTxFacts ==
    /\ NoTx \in TxRow /\ NoTx.op = "none" /\ NoTx.have = {} /\ NoTx.want = <<>> /\ NoTx.verdict = "none"
    /\ NoTx.u = Nothing /\ NoTx.p = Nothing
    /\ NoTx.writer = FALSE /\ NoTx.fam = FALSE /\ NoTx.tries = 0 /\ NoTx.cost = 0
BY DEF NoTx, TxRow

(* A transaction that ends without a word has changed nothing. *)
LEMMA EndStep ==
    ASSUME IInv, Quiet, NEW t \in Txs, Ends(t)
    PROVE  IInv'
<1>1. Exclusive /\ AskedOnce
  BY DEF IInv
<1>2. NoTx \in TxRow /\ NoTx.have = {} /\ NoTx.op = "none"
  BY NoTxFacts
<1>3. TxOK(NoTx)
  BY NoTxFacts DEF TxOK
<1>4. tx' = [tx EXCEPT ![t] = NoTx]
  BY DEF Ends
<1>5. /\ \A s \in Txs \ {t} : NoTx.have \cap tx[s].have = {}
      /\ NoTx.op = "begin" => \A s \in Txs \ {t} : tx[s].op = "begin" => tx[s].u # NoTx.u
  BY <1>2
<1> HIDE DEF NoTx
<1> QED
  BY <1>2, <1>3, <1>4, <1>5, QuietStep

(* The locks of a completion are those of its ends, in order.              *)
LEMMA CompletionFacts ==
    ASSUME Rows, NEW u \in Uploads, UploadOK(u), up[u].st = "open"
    PROVE  /\ Steps(CompletionLocks(u)) /\ Listed(CompletionLocks(u)) = EndRows(u)
           /\ CompletionLocks(u) # <<>>
           /\ EndRows(u) \subseteq {Ws(w) : w \in Workspaces}
<1> DEFINE ws == {up[u].at} \cup (IF IsMove(u) THEN {Source(u)} ELSE {})
<1>1. up[u].at \in Workspaces /\ (IsMove(u) => Source(u) \in Workspaces)
  BY UnderFacts
<1>2. IsFiniteSet(ws) /\ ws \in SUBSET Workspaces /\ ws # {}
  <2>1. IsFiniteSet(Workspaces)
    BY PoolAssumption, FS_Union DEF Workspaces
  <2>2. ws \in SUBSET Workspaces /\ ws # {}
    BY <1>1
  <2> HIDE DEF ws
  <2> QED
    BY <2>1, <2>2, FS_Subset
<1>3. CompletionLocks(u) = RowLocks(ws)
  BY DEF CompletionLocks
<1>4. {Ws(w) : w \in ws} = EndRows(u)
  BY DEF EndRows
<1>5. EndRows(u) \subseteq {Ws(w) : w \in Workspaces}
  BY <1>1 DEF EndRows
<1>6. up[u].at \in ws
  OBVIOUS
<1> HIDE DEF ws
<1>7. /\ RowLocks(ws) \in Seq(Locks)
      /\ Listed(RowLocks(ws)) = {Ws(w) : w \in ws}
      /\ \A i, j \in 1..Len(RowLocks(ws)) : i < j => Earlier(RowLocks(ws)[i], RowLocks(ws)[j])
  BY <1>2, RowLocksFacts DEF Listed
<1>8. Steps(RowLocks(ws))
  BY <1>7 DEF Steps
<1>9. RowLocks(ws) # <<>>
  <2>1. Ws(up[u].at) \in Listed(RowLocks(ws))
    BY <1>6, <1>7
  <2>2. PICK i \in 1..Len(RowLocks(ws)) : RowLocks(ws)[i] = Ws(up[u].at)
    BY <2>1 DEF Listed
  <2>3. Len(<<>>) = 0
    OBVIOUS
  <2> QED
    BY <2>2, <2>3
<1> QED
  BY <1>3, <1>4, <1>5, <1>7, <1>8, <1>9

(* A completion that starts, or starts over. *)
LEMMA RequestFinish ==
    ASSUME Rows, NEW u \in Uploads, UploadOK(u), up[u].st = "open", NEW writer \in BOOLEAN,
           NEW tries \in Nat
    PROVE  LET r == Request("finish", u, writer, tries)
           IN  r \in TxRow /\ r.have = {} /\ r.op = "finish" /\ TxOK(r)
<1> DEFINE r == Request("finish", u, writer, tries)
<1>1. /\ Steps(CompletionLocks(u)) /\ Listed(CompletionLocks(u)) = EndRows(u)
      /\ CompletionLocks(u) # <<>> /\ EndRows(u) \subseteq {Ws(w) : w \in Workspaces}
  BY CompletionFacts
<1>2. /\ r.op = "finish" /\ r.u = u /\ r.writer = writer /\ r.want = CompletionLocks(u) /\ r.have = {}
      /\ r.verdict = "none"
  BY DEF Request, NoTx
<1>3. r \in TxRow
  BY <1>1 DEF Request, NoTx, TxRow, Steps
<1> HIDE DEF r
<1>4. InTurn(r) /\ Mine(r) = EndRows(u)
  BY <1>1, <1>2, <1>3, OpenedTurn
<1>5. Entering(r)
  BY <1>1, <1>2, <1>4 DEF Entering
<1>6. TxOK(r)
  BY <1>2, <1>5 DEF TxOK, FinishOK
<1> QED
  BY <1>2, <1>3, <1>6 DEF r

(* Who may still write or remove in a workspace may act there. *)
LEMMA MayStill ==
    /\ \A p, w : MayStillRemove(p, w) => MayAct(p, w)
    /\ \A u \in Uploads : MoverStillHolds(u) => MoverMay(u)
    /\ \A u \in Uploads : Rows /\ UploadOK(u) /\ up[u].st \in {"asked", "open"}
          /\ Alive(up[u].at) /\ StillWriter(up[u].by, up[u].at) => MayAct(up[u].by, up[u].at)
<1>1. \A p, w : MayStillRemove(p, w) => MayAct(p, w)
  BY DEF MayStillRemove, MayAct
<1>2. \A u \in Uploads : MoverStillHolds(u) => MoverMay(u)
  BY <1>1 DEF MoverStillHolds, MoverMay
<1>3. ASSUME NEW u \in Uploads, Rows, UploadOK(u), up[u].st \in {"asked", "open"},
             Alive(up[u].at), StillWriter(up[u].by, up[u].at)
      PROVE  MayAct(up[u].by, up[u].at)
  <2>1. up[u].at \in Workspaces /\ (up[u].at \in People => up[u].by = up[u].at)
    BY <1>3, UnderFacts
  <2>2. CASE up[u].at \in Areas
    BY <1>1, <1>3, <2>2 DEF StillWriter
  <2>3. CASE up[u].at \in People
    BY <1>3, <2>1, <2>3 DEF MayAct, HoldsWorkspace
  <2> QED
    BY <2>1, <2>2, <2>3 DEF Workspaces
<1> QED
  BY <1>1, <1>2, <1>3

(* A lock taken, by a row that still is what it should be. *)
LEMMA TakeStep ==
    ASSUME IInv, Quiet, NEW t \in Txs, NEW kind, MayTake(t, kind), GoesOn(t, Took(t)), TxOK(Took(t))
    PROVE  IInv'
<1> DEFINE l == Head(tx[t].want)
           r == Took(t)
<1>1. Rows /\ tx[t].want # <<>> /\ Free(l) /\ tx' = [tx EXCEPT ![t] = r]
  BY DEF IInv, MayTake, GoesOn
<1>2. r \in TxRow /\ r.have = tx[t].have \cup {l} /\ r.op = tx[t].op /\ r.u = tx[t].u
  BY <1>1, TookFacts
<1>3. TxOK(r)
  OBVIOUS
<1> HIDE DEF r
<1> QED
  BY <1>1, <1>2, <1>3, GoStep

(* Figures are called for by the family's membership as it is now. *)
LEMMA FigureFacts ==
    ASSUME NEW r \in TxRow, NEW w \in Workspaces
    PROVE  LET y == FigureLocks(r, w)
           IN  /\ y \in TxRow /\ y.op = r.op /\ y.u = r.u /\ y.writer = r.writer /\ y.have = r.have
               /\ y.verdict = "figures" /\ (y.fam <=> Draws(w))
               /\ y.want = IF Draws(w) THEN <<Pool, Store(w)>> ELSE <<Store(w)>>
               /\ Figures(y, w, r.have)
<1> DEFINE y == FigureLocks(r, w)
<1>1. Pool \in Locks /\ Store(w) \in Locks
  BY LockFacts
<1>2. /\ y.op = r.op /\ y.u = r.u /\ y.writer = r.writer /\ y.have = r.have
      /\ y.verdict = "figures" /\ y.fam = (w \in People => Active(w))
      /\ y.want = IF Draws(w) THEN <<Pool, Store(w)>> ELSE <<Store(w)>>
      /\ y.p = r.p /\ y.tries = r.tries /\ y.cost = r.cost
  BY DEF FigureLocks, TxRow, Draws
<1>3. y \in TxRow
  <2>1. PICK fam \in BOOLEAN : fam = (w \in People => Active(w))
    OBVIOUS
  <2>2. PICK want \in Seq(Locks) : want = IF fam THEN <<Pool, Store(w)>> ELSE <<Store(w)>>
    <3>1. <<Pool, Store(w)>> \in Seq(Locks) /\ <<Store(w)>> \in Seq(Locks)
      BY <1>1
    <3> QED
      BY <3>1
  <2>3. y = [r EXCEPT !.fam = fam, !.verdict = "figures", !.want = want]
    BY <2>1, <2>2 DEF FigureLocks
  <2>4. [r EXCEPT !.fam = fam, !.verdict = "figures", !.want = want] \in TxRow
    BY DEF TxRow
  <2> QED
    BY <2>3, <2>4
<1>4. y.fam <=> Draws(w)
  BY <1>2 DEF Draws
<1> HIDE DEF y
<1>5. Figures(y, w, r.have)
  BY <1>2, <1>4 DEF Figures, Draws
<1> QED
  BY <1>2, <1>3, <1>4, <1>5 DEF y

(* FinishCompleting: the completion of an open upload. *)
LEMMA StepFinishCompleting ==
    ASSUME IInv, NEW t \in Txs, NEW u \in Uploads, NEW writer \in BOOLEAN, FinishCompleting(t, u, writer)
    PROVE  IInv'
<1> DEFINE r == Request("finish", u, writer, 0)
<1>1. /\ Rows /\ UploadOK(u) /\ up[u].st = "open" /\ tx' = [tx EXCEPT ![t] = r] /\ Quiet
      /\ Free(CompletionLocks(u)[1])
  BY DEF IInv, FinishCompleting, Opens, Quiet, history
<1>2. r \in TxRow /\ r.have = {} /\ r.op = "finish" /\ TxOK(r)
  BY <1>1, RequestFinish
<1> HIDE DEF r
<1> QED
  BY <1>1, <1>2, GoStep

(* Storage rows are wanted, the destination's first, and the upload is to  *)
(* be published or released.                                               *)
LEMMA StoresWanted ==
    ASSUME Rows, NEW u \in Uploads, UploadOK(u), up[u].st = "open", NEW r \in TxRow
    PROVE  LET stores == [r EXCEPT !.want = <<Store(up[u].at)>>]
           IN  /\ stores \in TxRow /\ stores.want = <<Store(up[u].at)>> /\ stores.have = r.have
               /\ stores.op = r.op /\ stores.u = r.u /\ stores.writer = r.writer
<1>1. Store(up[u].at) \in Locks
  BY UnderFacts, LockFacts
<1>2. <<Store(up[u].at)>> \in Seq(Locks)
  BY <1>1
<1> QED
  BY <1>2 DEF TxRow

(* To publish: the storage rows the row wants already, then the source's.  *)
LEMMA PublishesFacts ==
    ASSUME Rows, NEW u \in Uploads, UploadOK(u), up[u].st = "open", NEW r \in TxRow,
           \/ r.want = <<Store(up[u].at)>>
           \/ r.want = <<>> /\ Store(up[u].at) \in r.have
    PROVE  LET y == Publishes(r, u)
           IN  /\ y \in TxRow /\ y.op = r.op /\ y.u = r.u /\ y.writer = r.writer /\ y.have = r.have
               /\ y.verdict = "publish" /\ y.live = r.live
               /\ Wanted(y) \subseteq StoreRows(u) /\ StoreRows(u) \subseteq Mine(y)
<1> DEFINE y == Publishes(r, u)
           k == Store(up[u].at)
           m == IF IsMove(u) THEN <<Store(Source(u))>> ELSE <<>>
           want == r.want \o m
<1>1. k \in Locks /\ (IsMove(u) => Store(Source(u)) \in Locks)
  BY UnderFacts, LockFacts
<1>2. m \in Seq(Locks) /\ r.want \in Seq(Locks) /\ want \in Seq(Locks)
  <2>1. m \in Seq(Locks)
    BY <1>1
  <2>2. r.want \in Seq(Locks)
    BY DEF TxRow
  <2> HIDE DEF m
  <2> QED
    BY <2>1, <2>2
<1>3. y = [r EXCEPT !.verdict = "publish", !.want = want]
  BY DEF Publishes, TxRow
<1>4. y \in TxRow
  <2> HIDE DEF want
  <2> QED
    BY <1>2, <1>3 DEF TxRow
<1>5. /\ y.op = r.op /\ y.u = r.u /\ y.writer = r.writer /\ y.have = r.have
      /\ y.verdict = "publish" /\ y.want = want /\ y.live = r.live
  <2> HIDE DEF want
  <2> QED
    BY <1>2, <1>3 DEF TxRow
<1>6. Listed(want) = (IF r.want = <<>> THEN {} ELSE {k})
                         \cup (IF IsMove(u) THEN {Store(Source(u))} ELSE {})
  <2>1. CASE r.want = <<>> /\ IsMove(u)
    <3>1. want = <<Store(Source(u))>>
      BY <2>1
    <3> HIDE DEF want
    <3> QED
      BY <2>1, <3>1 DEF Listed
  <2>2. CASE r.want = <<>> /\ ~IsMove(u)
    <3>1. want = <<>>
      BY <2>2
    <3> HIDE DEF want
    <3> QED
      BY <2>2, <3>1 DEF Listed
  <2>3. CASE r.want = <<k>> /\ IsMove(u)
    <3>1. m = <<Store(Source(u))>>
      BY <2>3
    <3>2. Len(want) = 2 /\ want[1] = k /\ want[2] = Store(Source(u))
      <4>1. want = <<k>> \o <<Store(Source(u))>>
        BY <2>3, <3>1
      <4>2. <<k>> \in Seq(Locks) /\ <<Store(Source(u))>> \in Seq(Locks)
        BY <1>1, <2>3
      <4>3. Len(<<k>>) = 1 /\ Len(<<Store(Source(u))>>) = 1 /\ <<k>>[1] = k
            /\ <<Store(Source(u))>>[1] = Store(Source(u))
        OBVIOUS
      <4> HIDE DEF want, k
      <4> QED
        BY <4>1, <4>2, <4>3
    <3> HIDE DEF want
    <3> QED
      BY <2>3, <3>2 DEF Listed
  <2>4. CASE r.want = <<k>> /\ ~IsMove(u)
    <3>1. want = <<k>>
      BY <2>4
    <3> HIDE DEF want
    <3> QED
      BY <2>4, <3>1 DEF Listed
  <2> QED
    BY <2>1, <2>2, <2>3, <2>4
<1>7. Wanted(y) = Listed(want)
  BY <1>5 DEF Wanted, Listed
<1> HIDE DEF want, y
<1>8. r.want = <<>> => k \in r.have
  OBVIOUS
<1> HIDE DEF k
<1>9. Wanted(y) \subseteq StoreRows(u) /\ StoreRows(u) \subseteq Mine(y)
  BY <1>8, <1>5, <1>6, <1>7 DEF StoreRows, Mine, k
<1> QED
  BY <1>4, <1>5, <1>9 DEF y

(* To release: the destination's storage row only. *)
LEMMA ReleasesFacts ==
    ASSUME Rows, NEW u \in Uploads, UploadOK(u), up[u].st = "open", NEW r \in TxRow,
           \/ r.want = <<Store(up[u].at)>>
           \/ r.want = <<>> /\ Store(up[u].at) \in r.have
    PROVE  LET y == Releases(r)
           IN  /\ y \in TxRow /\ y.op = r.op /\ y.u = r.u /\ y.writer = r.writer /\ y.have = r.have
               /\ y.verdict = "release"
               /\ Wanted(y) \subseteq StoreRows(u) /\ Store(up[u].at) \in Mine(y)
<1> DEFINE y == Releases(r)
<1>1. /\ y \in TxRow /\ y.op = r.op /\ y.u = r.u /\ y.writer = r.writer /\ y.have = r.have
      /\ y.verdict = "release" /\ y.want = r.want
  BY DEF Releases, TxRow
<1> HIDE DEF y
<1>2. r.want = <<>> => Store(up[u].at) \in r.have
  OBVIOUS
<1>3. Wanted(y) = IF r.want = <<>> THEN {} ELSE {Store(up[u].at)}
  BY <1>1 DEF Wanted
<1> QED
  BY <1>2, <1>1, <1>3 DEF StoreRows, Mine, y

(* What is decided in all the workspaces of a completion. *)
LEMMA DecidedOK ==
    ASSUME Rows, NEW u \in Uploads, UploadOK(u), ~NothingToFinish(u),
           NEW r \in TxRow, r.op = "finish", r.u = u, r.have = EndRows(u),
           r.writer => MayAct(up[u].by, up[u].at)
    PROVE  LET y == Decided(r, u)
           IN  y \in TxRow /\ y.op = "finish" /\ y.have = r.have /\ TxOK(y)
<1> DEFINE stores == [r EXCEPT !.want = <<Store(up[u].at)>>]
           y == Decided(r, u)
<1>1. up[u].st = "open" /\ up[u].at \in Workspaces
  BY UnderFacts DEF NothingToFinish, Rows, UpRow
<1>2. PICK s \in TxRow : s = stores
  BY <1>1, StoresWanted
<1>3. s.want = <<Store(up[u].at)>> /\ s.have = r.have /\ s.op = "finish" /\ s.u = u /\ s.writer = r.writer
  BY <1>1, <1>2, StoresWanted
<1>4. ASSUME y = Releases(s) PROVE y \in TxRow /\ y.op = "finish" /\ y.have = r.have /\ TxOK(y)
  <2> HIDE DEF y
  <2>1. /\ y \in TxRow /\ y.op = s.op /\ y.u = s.u /\ y.writer = s.writer /\ y.have = s.have
        /\ y.verdict = "release"
        /\ Wanted(y) \subseteq StoreRows(u) /\ Store(up[u].at) \in Mine(y)
    BY <1>1, <1>3, <1>4, ReleasesFacts
  <2>2. Inside(y)
    BY <1>1, <1>3, <2>1 DEF Inside
  <2> QED
    BY <1>3, <2>1, <2>2 DEF TxOK, FinishOK
<1>5. ASSUME y = Publishes(s, u),
             up[u].kind = "version" => file[up[u].of].there,
             IsMove(u) => MoverMay(u) /\ SourceAsBegun(u) /\ ~Lean(u)
      PROVE  y \in TxRow /\ y.op = "finish" /\ y.have = r.have /\ TxOK(y)
  <2> HIDE DEF y
  <2>1. /\ y \in TxRow /\ y.op = s.op /\ y.u = s.u /\ y.writer = s.writer /\ y.have = s.have
        /\ y.verdict = "publish"
        /\ Wanted(y) \subseteq StoreRows(u) /\ StoreRows(u) \subseteq Mine(y)
    BY <1>1, <1>3, <1>5, PublishesFacts
  <2>2. MoverMay(u)
    BY <1>5 DEF MoverMay
  <2>3. Inside(y)
    BY <1>1, <1>3, <1>5, <2>1, <2>2 DEF Inside
  <2> QED
    BY <1>3, <2>1, <2>3 DEF TxOK, FinishOK
<1>6. ASSUME y = FigureLocks(r, up[u].at), IsMove(u), MoverMay(u)
      PROVE  y \in TxRow /\ y.op = "finish" /\ y.have = r.have /\ TxOK(y)
  <2> HIDE DEF y
  <2>1. /\ y \in TxRow /\ y.op = r.op /\ y.u = r.u /\ y.writer = r.writer /\ y.have = r.have
        /\ y.verdict = "figures" /\ Figures(y, up[u].at, r.have)
    BY <1>1, <1>6, FigureFacts
  <2>2. Inside(y)
    BY <1>1, <1>6, <2>1 DEF Inside
  <2> QED
    BY <2>1, <2>2 DEF TxOK, FinishOK
<1>7. MoverStillHolds(u) => MoverMay(u)
  BY MayStill
<1>8. IsMove(u) => ~(up[u].kind = "version")
  BY DEF IsMove
<1>9. \/ y = Releases(s)
      \/ y = Publishes(s, u) /\ (up[u].kind = "version" => file[up[u].of].there) /\ ~IsMove(u)
      \/ y = Publishes(s, u) /\ IsMove(u) /\ MoverStillHolds(u) /\ ~Lean(u) /\ SourceAsBegun(u)
      \/ y = FigureLocks(r, up[u].at) /\ IsMove(u) /\ MoverStillHolds(u)
  BY <1>2 DEF Decided
<1> HIDE DEF y
<1>10. y \in TxRow /\ y.op = "finish" /\ y.have = r.have /\ TxOK(y)
  BY <1>4, <1>5, <1>6, <1>7, <1>8, <1>9
<1> QED
  BY <1>10 DEF y

(* FinishAtWorkspace: a workspace of the completion, and under the last of *)
(* them what is to become of the upload.                                   *)
LEMMA StepFinishAtWorkspace ==
    ASSUME IInv, NEW t \in Txs, FinishAtWorkspace(t)
    PROVE  IInv'
<1> DEFINE x == tx[t]
           u == x.u
           l == Head(x.want)
           w == l[2]
           y == Took(t)
<1>1. /\ Rows /\ Exclusive /\ TxOK(x) /\ (\A v \in Uploads : UploadOK(v)) /\ x \in TxRow
  BY DEF IInv, Rows
<1>2. x.op = "finish" /\ x.want # <<>> /\ l[1] = "ws" /\ Free(l) /\ Quiet
  BY DEF FinishAtWorkspace, MayTake, Quiet, history
<1>3. u \in Uploads /\ UploadOK(u) /\ FinishOK(x)
  BY <1>1, <1>2 DEF TxOK, FinishOK
<1>4. /\ y \in TxRow /\ y.op = "finish" /\ y.u = u /\ y.writer = x.writer /\ y.verdict = x.verdict
      /\ y.want = Tail(x.want) /\ y.have = x.have \cup {l} /\ l \in Locks
  BY <1>1, <1>2, TookFacts
<1>5. /\ Mine(y) = Mine(x) /\ Wanted(x) = {l} \cup Wanted(y)
      /\ InTurn(x) => InTurn(y)
  BY <1>1, <1>2, TookTurn
<1>6. Entering(x)
  <2>1. ASSUME Inside(x) PROVE FALSE
    <3>1. CASE x.verdict = "figures"
      <4>1. Figures(x, up[u].at, EndRows(u))
        BY <2>1, <3>1 DEF Inside
      <4>2. l = Pool \/ l = Store(up[u].at)
        BY <1>2, <4>1 DEF Figures
      <4> QED
        BY <1>2, <4>2, LockFacts
    <3>2. CASE x.verdict \in {"publish", "release"}
      <4>1. l \in StoreRows(u)
        BY <1>5, <2>1, <3>2 DEF Inside
      <4> QED
        BY <1>2, <4>1, LockFacts DEF StoreRows
    <3> QED
      BY <2>1, <3>1, <3>2 DEF Inside
  <2> QED
    BY <1>3, <2>1 DEF FinishOK
<1>7. /\ x.verdict = "none" /\ InTurn(x) /\ Mine(x) \subseteq {Ws(v) : v \in Workspaces}
      /\ up[u].st \in {"open", "over"}
      /\ up[u].st = "open" =>
            /\ Mine(x) = EndRows(u)
            /\ x.writer /\ Ws(up[u].at) \in x.have => MayAct(up[u].by, up[u].at)
  BY <1>6 DEF Entering
<1>8. l = Ws(w)
  BY <1>2, <1>4, LockFacts
<1>9. CASE Ends(t)
  BY <1>2, <1>9, EndStep
<1>10. ASSUME ~(w = up[u].at /\ (~Alive(w) \/ (x.writer /\ ~StillWriter(up[u].by, w)))),
              up[u].st = "open"
       PROVE  y.writer /\ Ws(up[u].at) \in y.have => MayAct(up[u].by, up[u].at)
  <2> SUFFICES ASSUME y.writer, Ws(up[u].at) \in y.have PROVE MayAct(up[u].by, up[u].at)
    OBVIOUS
  <2>1. CASE Ws(up[u].at) \in x.have
    BY <1>4, <1>7, <1>10, <2>1
  <2>2. CASE l = Ws(up[u].at)
    <3>1. w = up[u].at
      BY <2>2, LockFacts
    <3>2. Alive(up[u].at) /\ StillWriter(up[u].by, up[u].at)
      BY <1>4, <1>10, <3>1
    <3> QED
      BY <1>1, <1>3, <1>10, <3>2, MayStill
  <2> QED
    BY <1>4, <2>1, <2>2
<1>11. CASE /\ ~(w = up[u].at /\ (~Alive(w) \/ (x.writer /\ ~StillWriter(up[u].by, w))))
            /\ Tail(x.want) # <<>>
            /\ GoesOn(t, y)
  <2>1. up[u].st = "open" =>
          /\ Mine(y) = EndRows(u)
          /\ y.writer /\ Ws(up[u].at) \in y.have => MayAct(up[u].by, up[u].at)
    BY <1>5, <1>7, <1>10, <1>11
  <2> HIDE DEF y
  <2>2. Entering(y)
    BY <1>4, <1>5, <1>7, <1>11, <2>1 DEF Entering
  <2>3. TxOK(y)
    BY <1>3, <1>4, <2>2 DEF TxOK, FinishOK
  <2>4. MayTake(t, "ws") /\ GoesOn(t, Took(t)) /\ TxOK(Took(t))
    BY <1>11, <2>3 DEF FinishAtWorkspace, y
  <2> QED
    BY <1>2, <2>4, TakeStep
<1>12. CASE /\ ~(w = up[u].at /\ (~Alive(w) \/ (x.writer /\ ~StillWriter(up[u].by, w))))
            /\ Tail(x.want) = <<>> /\ ~NothingToFinish(u)
            /\ GoesOn(t, Decided(y, u))
  <2>1. up[u].st = "open"
    BY <1>7, <1>12 DEF NothingToFinish
  <2>2. Wanted(y) = {}
    BY <1>4, <1>12 DEF Wanted
  <2>3. y.have = EndRows(u)
    BY <1>5, <1>7, <2>1, <2>2 DEF Mine
  <2>4. y.writer => MayAct(up[u].by, up[u].at)
    <3>1. Ws(up[u].at) \in y.have
      BY <2>3 DEF EndRows
    <3> QED
      BY <1>10, <1>12, <2>1, <3>1
  <2>5. PICK r : r = y
    OBVIOUS
  <2>6. /\ Decided(r, u) \in TxRow /\ Decided(r, u).op = "finish" /\ Decided(r, u).have = r.have
        /\ TxOK(Decided(r, u))
    <3> HIDE DEF y
    <3> QED
      BY <1>1, <1>3, <1>4, <1>12, <2>3, <2>4, <2>5, DecidedOK
  <2>7. Decided(r, u) = Decided(y, u)
    BY <2>5
  <2>8. tx' = [tx EXCEPT ![t] = Decided(r, u)] /\ r.have \subseteq x.have \cup {l}
    BY <1>4, <1>12, <2>5 DEF GoesOn
  <2> QED
    BY <1>2, <2>6, <2>8, GoStep
<1>13. \/ Ends(t)
       \/ /\ ~(w = up[u].at /\ (~Alive(w) \/ (x.writer /\ ~StillWriter(up[u].by, w))))
          /\ \/ Tail(x.want) # <<>> /\ GoesOn(t, y)
             \/ Tail(x.want) = <<>> /\ ~NothingToFinish(u) /\ GoesOn(t, Decided(y, u))
  BY DEF FinishAtWorkspace
<1> QED
  BY <1>9, <1>11, <1>12, <1>13

(* A completion that the pool moved under starts over, or gives up and     *)
(* leaves the upload open.                                                 *)
LEMMA FinishStartsOver ==
    ASSUME IInv, NEW t \in Txs, tx[t].op = "finish", up[tx[t].u].st = "open",
           StartsOver(t), UNCHANGED <<family, storage, file, history>>
    PROVE  IInv'
<1> DEFINE x == tx[t]
           u == x.u
           r == Request("finish", u, x.writer, x.tries + 1)
<1>1. /\ Rows /\ x \in TxRow /\ UploadOK(u) /\ u \in Uploads
  BY DEF IInv, Rows, TxOK, FinishOK
<1>2. Ends(t) \/ tx' = [tx EXCEPT ![t] = r]
  BY DEF StartsOver, GoesOn
<1>3. Quiet
  BY DEF StartsOver, Quiet, history
<1>4. CASE Ends(t)
  BY <1>3, <1>4, EndStep
<1>5. CASE tx' = [tx EXCEPT ![t] = r]
  <2>1. x.writer \in BOOLEAN /\ x.tries + 1 \in Nat
    BY <1>1 DEF TxRow
  <2>2. r \in TxRow /\ r.have = {} /\ r.op = "finish" /\ TxOK(r)
    BY <1>1, <2>1, RequestFinish
  <2>3. Exclusive
    BY DEF IInv
  <2> HIDE DEF r
  <2>4. /\ \A s \in Txs \ {t} : r.have \cap tx[s].have = {}
        /\ r.op = "begin" => \A s \in Txs \ {t} : tx[s].op = "begin" => tx[s].u # r.u
    BY <2>2
  <2> QED
    BY <1>3, <1>5, <2>2, <2>4, QuietStep
<1> QED
  BY <1>2, <1>4, <1>5

(* FinishAtStore: a storage row of the completion; the destination's, for  *)
(* a move whose figures count, after the pool.                             *)
LEMMA StepFinishAtStore ==
    ASSUME IInv, NEW t \in Txs, FinishAtStore(t)
    PROVE  IInv'
<1> DEFINE x == tx[t]
           u == x.u
           l == Head(x.want)
           y == Took(t)
<1>1. /\ Rows /\ TxOK(x) /\ (\A v \in Uploads : UploadOK(v)) /\ x \in TxRow
  BY DEF IInv, Rows
<1>2. /\ x.op = "finish" /\ x.want # <<>> /\ l[1] = "store" /\ Free(l) /\ MayTake(t, "store")
      /\ UNCHANGED <<family, storage, file, history>>
  BY DEF FinishAtStore, MayTake
<1>3. u \in Uploads /\ UploadOK(u) /\ FinishOK(x)
  BY <1>1, <1>2 DEF TxOK, FinishOK
<1>4. /\ y \in TxRow /\ y.op = "finish" /\ y.u = u /\ y.writer = x.writer /\ y.verdict = x.verdict
      /\ y.want = Tail(x.want) /\ y.have = x.have \cup {l} /\ l \in Locks /\ y.fam = x.fam
      /\ y.live = x.live
  BY <1>1, <1>2, TookFacts
<1>5. /\ Mine(y) = Mine(x) /\ Wanted(x) = {l} \cup Wanted(y)
  BY <1>1, <1>2, TookTurn
<1>6. Inside(x)
  <2>1. ASSUME Entering(x) PROVE FALSE
    <3>1. l \in Mine(x) /\ Mine(x) \subseteq {Ws(v) : v \in Workspaces}
      BY <1>5, <2>1 DEF Entering, Mine
    <3> QED
      BY <1>2, <3>1, LockFacts
  <2> QED
    BY <1>3, <2>1 DEF FinishOK
<1>7. up[u].st = "open" /\ EndRows(u) \subseteq x.have /\ (x.writer => MayAct(up[u].by, up[u].at))
  BY <1>6 DEF Inside
<1>8. CASE x.verdict = "publish" \/ x.verdict = "release"
  <2>1. GoesOn(t, y) /\ Quiet
    BY <1>2, <1>8 DEF FinishAtStore, Quiet, history
  <2>2. l \in StoreRows(u) /\ Wanted(y) \subseteq Wanted(x)
    BY <1>5, <1>6, <1>8 DEF Inside
  <2> HIDE DEF y
  <2>3. Inside(y)
    <3>1. CASE x.verdict = "publish"
      <4>1. /\ MoverMay(u) /\ Wanted(x) \subseteq StoreRows(u) /\ StoreRows(u) \subseteq Mine(x)
            /\ x.have \subseteq EndRows(u) \cup StoreRows(u) \cup {Pool}
            /\ up[u].kind = "version" => file[up[u].of].there
            /\ IsMove(u) => SourceAsBegun(u)
            /\ IsMove(u) /\ Lean(u) => Pool \in x.have /\ Draws(up[u].at) /\ Draws(Source(u))
            /\ IsMove(u) /\ Lean(u) /\ ~x.live => {up[u].at, Source(u)} \subseteq Areas
        BY <1>6, <3>1 DEF Inside
      <4> QED
        BY <1>4, <1>5, <1>7, <2>2, <3>1, <4>1 DEF Inside
    <3>2. CASE x.verdict = "release"
      <4>1. /\ Wanted(x) \subseteq StoreRows(u) /\ Store(up[u].at) \in Mine(x)
            /\ x.have \subseteq EndRows(u) \cup StoreRows(u) \cup {Pool}
        BY <1>6, <3>2 DEF Inside
      <4> QED
        BY <1>4, <1>5, <1>7, <2>2, <3>2, <4>1 DEF Inside
    <3> QED
      BY <1>8, <3>1, <3>2
  <2>4. TxOK(y)
    BY <1>3, <1>4, <2>3 DEF TxOK, FinishOK
  <2>5. GoesOn(t, Took(t)) /\ TxOK(Took(t))
    BY <2>1, <2>4 DEF y
  <2> QED
    BY <1>2, <2>1, <2>5, TakeStep
<1>9. CASE x.verdict = "figures"
  <2>1. IsMove(u) /\ MoverMay(u) /\ Figures(x, up[u].at, EndRows(u))
    BY <1>6, <1>9 DEF Inside
  <2>2. l = Store(up[u].at) /\ x.want = <<Store(up[u].at)>>
    <3>1. Head(<<Pool, Store(up[u].at)>>) = Pool /\ Head(<<Store(up[u].at)>>) = Store(up[u].at)
      OBVIOUS
    <3> QED
      BY <1>2, <2>1, <3>1, LockFacts DEF Figures
  <2>3. y.want = <<>> /\ Store(up[u].at) \in y.have /\ x.have \subseteq EndRows(u) \cup {Pool}
        /\ EndRows(u) \subseteq x.have
    <3>1. Tail(<<Store(up[u].at)>>) = <<>>
      OBVIOUS
    <3> QED
      BY <1>4, <2>1, <2>2, <3>1 DEF Figures
  <2>4. CASE StartsOver(t)
    BY <1>2, <1>7, <2>4, FinishStartsOver
  <2>5. PICK r \in TxRow :
           /\ r = [y EXCEPT !.live = plan.live] /\ r.live = plan.live
           /\ r.op = "finish" /\ r.u = u /\ r.writer = x.writer /\ r.want = <<>> /\ r.have = y.have
    <3> DEFINE r == [y EXCEPT !.live = plan.live]
    <3>1. plan.live \in BOOLEAN
      BY <1>1 DEF Rows
    <3> HIDE DEF y
    <3>2. /\ r \in TxRow /\ r.live = plan.live /\ r.want = y.want /\ r.have = y.have
          /\ r.op = y.op /\ r.u = y.u /\ r.writer = y.writer
      BY <1>4, <3>1 DEF TxRow
    <3> HIDE DEF r
    <3>3. /\ r.op = "finish" /\ r.u = u /\ r.writer = x.writer /\ r.want = <<>>
      BY <1>4, <2>3, <3>2
    <3>4. r = [y EXCEPT !.live = plan.live]
      BY DEF r
    <3> QED
      BY <3>2, <3>3, <3>4
  <2>6. ASSUME NEW z, z \in TxRow, z.op = "finish", z.u = u, z.writer = x.writer, z.have = y.have, Inside(z),
               tx' = [tx EXCEPT ![t] = z], up' = up
        PROVE  IInv'
    <3>1. TxOK(z)
      BY <1>3, <2>6 DEF TxOK, FinishOK
    <3>2. Quiet
      BY <1>2, <2>6 DEF Quiet, history
    <3>3. z.have \subseteq tx[t].have \cup {l}
      BY <1>4, <2>6
    <3>4. z.op = "begin" => tx[t].op = "begin" /\ z.u = tx[t].u
      BY <2>6
    <3> QED
      BY <1>2, <2>6, <3>1, <3>2, <3>3, <3>4, GoStep
  <2>7. CASE /\ SamePool(up[u].at, x.fam, Source(u)) /\ SourceAsBegun(u)
             /\ GoesOn(t, Publishes([y EXCEPT !.live = plan.live], u)) /\ up' = up
    <3> DEFINE z == Publishes(r, u)
    <3>1. /\ z \in TxRow /\ z.op = "finish" /\ z.u = u /\ z.writer = x.writer /\ z.have = y.have
          /\ z.verdict = "publish" /\ Wanted(z) \subseteq StoreRows(u) /\ StoreRows(u) \subseteq Mine(z)
          /\ z.live = plan.live
      <4> HIDE DEF y
      <4> QED
        BY <1>1, <1>3, <1>7, <2>3, <2>5, PublishesFacts
    <3>2. Pooled(up[u].at, x.fam) /\ Pooled(Source(u), Source(u) \in People => Active(Source(u)))
      BY <2>7 DEF SamePool
    <3>3. Draws(Source(u))
      BY <3>2, PoolAssumption DEF Pooled, Draws
    <3>4. x.fam
      BY <2>1, <3>2, PoolAssumption DEF Pooled, Figures
    <3>5. Pool \in x.have /\ Draws(up[u].at)
      <4>1. <<Pool, Store(up[u].at)>> # <<Store(up[u].at)>>
        OBVIOUS
      <4> QED
        BY <2>1, <2>2, <3>4, <4>1 DEF Figures
    <3>6. z = Publishes([y EXCEPT !.live = plan.live], u)
      BY <2>5
    <3>7. up[u].kind # "version"
      BY <2>1 DEF IsMove
    <3>11. ~plan.live => {up[u].at, Source(u)} \subseteq Areas
      BY <3>2 DEF Pooled
    <3> HIDE DEF z, y
    <3>8. l \in StoreRows(u)
      BY <2>2 DEF StoreRows
    <3>9. Inside(z)
      BY <1>4, <1>7, <2>1, <2>3, <2>7, <3>1, <3>3, <3>5, <3>7, <3>8, <3>11 DEF Inside
    <3>10. tx' = [tx EXCEPT ![t] = z]
      BY <2>7, <3>6 DEF GoesOn
    <3> QED
      BY <2>6, <2>7, <3>1, <3>9, <3>10
  <2>8. CASE GoesOn(t, Releases([y EXCEPT !.live = plan.live])) /\ up' = up
    <3> DEFINE z == Releases(r)
    <3>1. /\ z \in TxRow /\ z.op = "finish" /\ z.u = u /\ z.writer = x.writer /\ z.have = y.have
          /\ z.verdict = "release" /\ Wanted(z) \subseteq StoreRows(u) /\ Store(up[u].at) \in Mine(z)
      <4> HIDE DEF y
      <4> QED
        BY <1>1, <1>3, <1>7, <2>3, <2>5, ReleasesFacts
    <3>2. z = Releases([y EXCEPT !.live = plan.live])
      BY <2>5
    <3> HIDE DEF z, y
    <3>3. l \in StoreRows(u)
      BY <2>2 DEF StoreRows
    <3>4. Inside(z)
      BY <1>4, <1>7, <2>3, <3>1, <3>3 DEF Inside
    <3>5. tx' = [tx EXCEPT ![t] = z]
      BY <2>8, <3>2 DEF GoesOn
    <3> QED
      BY <2>6, <2>8, <3>1, <3>4, <3>5
  <2>9. \/ StartsOver(t)
        \/ /\ SamePool(up[u].at, x.fam, Source(u)) /\ SourceAsBegun(u)
           /\ GoesOn(t, Publishes([y EXCEPT !.live = plan.live], u)) /\ up' = up
        \/ GoesOn(t, Releases([y EXCEPT !.live = plan.live])) /\ up' = up
    BY <1>9 DEF FinishAtStore
  <2> QED
    BY <2>4, <2>7, <2>8, <2>9
<1> QED
  BY <1>6, <1>8, <1>9 DEF Inside

(* A transaction of the family's opens with these locks to take.           *)
LEMMA OpensFamily ==
    ASSUME IInv, Quiet, NEW t \in Txs, NEW r \in TxRow, tx' = [tx EXCEPT ![t] = r],
           r.op \in {"admit", "leave", "delete", "plan"}, r.op # "plan" => r.p \in People,
           r.verdict = "none",
           r.have = {} \/ (r.have = {Group} /\ Free(Group)),
           Steps(r.want), \A l \in r.have, k \in Listed(r.want) : Earlier(l, k),
           r.have \cup Listed(r.want) = FamilyLocks(r)
    PROVE  IInv'
<1>1. InTurn(r) /\ Mine(r) = FamilyLocks(r)
  BY OpenedTurn
<1>2. ~(r.op = "admit" /\ Store(r.p) \in r.have)
  BY LockFacts
<1>3. FamilyOK(r)
  BY <1>1, <1>2 DEF FamilyOK
<1>4. TxOK(r)
  BY <1>3 DEF TxOK
<1>5. \A s \in Txs \ {t} : r.have \cap tx[s].have = {}
  BY DEF Free
<1>6. r.op = "begin" => \A s \in Txs \ {t} : tx[s].op = "begin" => tx[s].u # r.u
  OBVIOUS
<1> QED
  BY <1>4, <1>5, <1>6, QuietStep

(* The row of such a transaction. *)
RowOf(op, p, have, want) == [NoTx EXCEPT !.op = op, !.p = p, !.have = have, !.want = want]

(* Its fields. *)
LEMMA FamilyRow ==
    ASSUME NEW op \in {"admit", "leave", "delete", "plan"}, NEW p \in People \cup {Nothing},
           NEW have \in SUBSET Locks, NEW want \in Seq(Locks)
    PROVE  LET r == RowOf(op, p, have, want)
           IN  /\ r \in TxRow /\ r.op = op /\ r.p = p /\ r.have = have /\ r.want = want
               /\ r.verdict = "none"
BY DEF NoTx, TxRow, RowOf

(* The order of the locks a family's transactions take.                    *)
LEMMA FamilyOrder ==
    /\ Earlier(Group, Pool)
    /\ \A p \in People : /\ Earlier(Group, Person(p)) /\ Earlier(Group, Store(p)) /\ Earlier(Group, Ws(p))
                         /\ Earlier(Pool, Person(p)) /\ Earlier(Pool, Store(p))
                         /\ Earlier(Person(p), Store(p)) /\ Earlier(Person(p), Ws(p))
                         /\ Earlier(Ws(p), Store(p))
<1>1. \A p \in People : p \notin Areas
  BY PoolAssumption
<1>2. /\ Grade(Group) = 0 /\ Grade(Pool) = 2
      /\ \A p \in People : Grade(Person(p)) = 3 /\ Grade(Store(p)) = 5 /\ Grade(Ws(p)) = 4
  BY <1>1, Grades
<1> QED
  BY <1>2 DEF Earlier

(* AdmitMember. *)
LEMMA StepAdmitMember ==
    ASSUME IInv, NEW t \in Txs, NEW p \in People, AdmitMember(t, p)
    PROVE  IInv'
<1> DEFINE b == <<Pool, Person(p), Store(p)>>
           want == AreaLocks \o b
           r == RowOf("admit", p, {Group}, want)
<1>1. tx' = [tx EXCEPT ![t] = r] /\ Free(Group) /\ Quiet
  BY DEF AdmitMember, Opened, Opens, Quiet, history, RowOf
<1>2. Group \in Locks /\ Pool \in Locks /\ Person(p) \in Locks /\ Store(p) \in Locks /\ p \in Workspaces
  BY LockFacts
<1>3. Steps(b) /\ Listed(b) = {Pool, Person(p), Store(p)}
  <2>1. Earlier(Pool, Person(p)) /\ Earlier(Person(p), Store(p)) /\ Earlier(Pool, Store(p))
    BY FamilyOrder
  <2>2. \A k, l, m \in Locks : Earlier(k, l) /\ Earlier(l, m) /\ Earlier(k, m) =>
            Steps(<<k, l, m>>) /\ Listed(<<k, l, m>>) = {k, l, m}
    BY ShortLists
  <2> QED
    BY <1>2, <2>1, <2>2
<1> HIDE DEF b
<1>4. Steps(want) /\ Listed(want) = AreaRows \cup {Pool, Person(p), Store(p)}
  <2>1. \A k \in Listed(AreaLocks), l \in Listed(b) : Earlier(k, l)
    BY <1>3, AreaSteps
  <2> QED
    BY <1>3, <2>1, AreaSteps, ListedAfter
<1>5. want \in Seq(Locks)
  BY <1>4 DEF Steps
<1> HIDE DEF want
<1>6. /\ r \in TxRow /\ r.op = "admit" /\ r.p = p /\ r.have = {Group} /\ r.want = want
      /\ r.verdict = "none"
  BY <1>2, <1>5, FamilyRow
<1> HIDE DEF r
<1>7. \A l \in r.have, k \in Listed(r.want) : Earlier(l, k)
  BY <1>4, <1>6, AreaSteps, FamilyOrder
<1>8. r.have \cup Listed(r.want) = FamilyLocks(r)
  BY <1>4, <1>6 DEF FamilyLocks
<1>9. Steps(r.want)
  BY <1>4, <1>6
<1> QED
  BY <1>1, <1>6, <1>7, <1>8, <1>9, OpensFamily

(* LeaveFamily. *)
LEMMA StepLeaveFamily ==
    ASSUME IInv, NEW t \in Txs, NEW p \in People, LeaveFamily(t, p)
    PROVE  IInv'
<1> DEFINE b == <<Pool>>
           want == AreaLocks \o b
           r == RowOf("leave", p, {Group}, want)
<1>1. tx' = [tx EXCEPT ![t] = r] /\ Free(Group) /\ Quiet
  BY DEF LeaveFamily, Opened, Opens, Quiet, RowOf
<1>2. Group \in Locks /\ Pool \in Locks
  BY LockFacts
<1>3. Steps(b) /\ Listed(b) = {Pool}
  BY <1>2, ShortLists
<1> HIDE DEF b
<1>4. Steps(want) /\ Listed(want) = AreaRows \cup {Pool}
  <2>1. \A k \in Listed(AreaLocks), l \in Listed(b) : Earlier(k, l)
    BY <1>3, AreaSteps
  <2> QED
    BY <1>3, <2>1, AreaSteps, ListedAfter
<1>5. want \in Seq(Locks)
  BY <1>4 DEF Steps
<1> HIDE DEF want
<1>6. /\ r \in TxRow /\ r.op = "leave" /\ r.p = p /\ r.have = {Group} /\ r.want = want
      /\ r.verdict = "none"
  BY <1>2, <1>5, FamilyRow
<1> HIDE DEF r
<1>7. \A l \in r.have, k \in Listed(r.want) : Earlier(l, k)
  BY <1>4, <1>6, AreaSteps, FamilyOrder
<1>8. r.have \cup Listed(r.want) = FamilyLocks(r)
  BY <1>4, <1>6 DEF FamilyLocks
<1>9. Steps(r.want)
  BY <1>4, <1>6
<1> QED
  BY <1>1, <1>6, <1>7, <1>8, <1>9, OpensFamily

(* DeleteAccount. *)
LEMMA StepDeleteAccount ==
    ASSUME IInv, NEW t \in Txs, NEW p \in People, DeleteAccount(t, p)
    PROVE  IInv'
<1> DEFINE b == <<Person(p), Ws(p), Store(p)>>
           a == IF member[p] = "out" THEN <<>> ELSE <<Group>> \o AreaLocks
           want == a \o b
           r == [NoTx EXCEPT !.op = "delete", !.p = p, !.want = want]
<1>1. tx' = [tx EXCEPT ![t] = r] /\ Quiet
  BY DEF DeleteAccount, Opens, Quiet
<1>2. /\ Group \in Locks /\ Ws(p) \in Locks /\ Person(p) \in Locks /\ Store(p) \in Locks
      /\ p \in Workspaces
  BY LockFacts
<1>3. Steps(b) /\ Listed(b) = {Person(p), Ws(p), Store(p)}
  BY <1>2, FamilyOrder, ShortLists, ZenonT(40)
<1> HIDE DEF b
<1>4. Steps(a) /\ Listed(a) = IF member[p] = "out" THEN {} ELSE {Group} \cup AreaRows
  <2>1. CASE member[p] = "out"
    <3>1. a = <<>>
      BY <2>1
    <3> HIDE DEF a
    <3> QED
      BY <2>1, <3>1 DEF Steps, Listed
  <2>2. CASE member[p] # "out"
    <3>1. a = <<Group>> \o AreaLocks
      BY <2>2
    <3>2. Steps(<<Group>>) /\ Listed(<<Group>>) = {Group}
      BY <1>2, ShortLists
    <3>3. \A k \in Listed(<<Group>>), l \in Listed(AreaLocks) : Earlier(k, l)
      BY <3>2, AreaSteps
    <3> HIDE DEF a
    <3>4. Steps(a) /\ Listed(a) = Listed(<<Group>>) \cup Listed(AreaLocks)
      BY <3>1, <3>2, <3>3, AreaSteps, ListedAfter
    <3> QED
      BY <2>2, <3>2, <3>4, AreaSteps
  <2> QED
    BY <2>1, <2>2
<1> HIDE DEF a
<1>5. Steps(want) /\ Listed(want) = Listed(a) \cup {Person(p), Ws(p), Store(p)}
  <2>1. \A k \in Listed(a), l \in Listed(b) : Earlier(k, l)
    BY <1>3, <1>4, AreaSteps, FamilyOrder
  <2> QED
    BY <1>3, <1>4, <2>1, ListedAfter
<1>6. want \in Seq(Locks)
  BY <1>5 DEF Steps
<1> HIDE DEF want
<1>7. /\ r \in TxRow /\ r.op = "delete" /\ r.p = p /\ r.have = {} /\ r.want = want
      /\ r.verdict = "none"
  BY <1>2, <1>6 DEF NoTx, TxRow
<1> HIDE DEF r
<1>9. Group \in Listed(r.want) <=> member[p] # "out"
  <2>1. Group \notin AreaRows
    BY LockFacts DEF AreaRows
  <2> QED
    BY <1>4, <1>5, <1>7, <2>1, LockFacts
<1>10. r.have \cup Listed(r.want) = FamilyLocks(r)
  <2>1. Mine(r) = Listed(r.want)
    BY <1>7 DEF Mine, Wanted, Listed
  <2> QED
    BY <1>4, <1>5, <1>7, <1>9, <2>1 DEF FamilyLocks
<1>11. Steps(r.want) /\ \A l \in r.have, k \in Listed(r.want) : Earlier(l, k)
  BY <1>5, <1>7
<1> QED
  BY <1>1, <1>7, <1>10, <1>11, OpensFamily

(* ApplyPlan. *)
LEMMA StepApplyPlan ==
    ASSUME IInv, NEW t \in Txs, ApplyPlan(t)
    PROVE  IInv'
<1> DEFINE want == <<Pool>>
           r == RowOf("plan", Nothing, {Group}, want)
<1>1. tx' = [tx EXCEPT ![t] = r] /\ Free(Group) /\ Quiet
  BY DEF ApplyPlan, Opened, Opens, Quiet, RowOf
<1>2. Group \in Locks /\ Pool \in Locks
  BY LockFacts
<1>3. Steps(want) /\ Listed(want) = {Pool}
  BY <1>2, ShortLists
<1>4. want \in Seq(Locks)
  BY <1>3 DEF Steps
<1> HIDE DEF want
<1>5. /\ r \in TxRow /\ r.op = "plan" /\ r.p = Nothing /\ r.have = {Group} /\ r.want = want
      /\ r.verdict = "none"
  <2>1. {Group} \in SUBSET Locks /\ Nothing \in People \cup {Nothing}
    BY <1>2
  <2> QED
    BY <1>4, <2>1, FamilyRow
<1> HIDE DEF r
<1>6. \A l \in r.have, k \in Listed(r.want) : Earlier(l, k)
  BY <1>3, <1>5, FamilyOrder
<1>7. r.have \cup Listed(r.want) = FamilyLocks(r)
  BY <1>3, <1>5 DEF FamilyLocks
<1>8. Steps(r.want)
  BY <1>3, <1>5
<1> QED
  BY <1>1, <1>5, <1>6, <1>7, <1>8, OpensFamily

(* A lock taken keeps a family's transaction what it is. *)
LEMMA TookFamily ==
    ASSUME Rows, NEW t \in Txs, tx[t].op \in {"admit", "leave", "delete", "plan"}, FamilyOK(tx[t]),
           tx[t].want # <<>>,
           tx[t].op = "admit" /\ Store(tx[t].p) \in Took(t).have =>
               member[tx[t].p] = "accepted" /\ AdmissionFits(tx[t].p)
    PROVE  TxOK(Took(t))
<1> DEFINE x == tx[t]
           y == Took(t)
<1>1. /\ y.op = x.op /\ y.p = x.p /\ y.verdict = x.verdict
  BY TookFacts
<1>2. Mine(y) = Mine(x) /\ (InTurn(x) => InTurn(y))
  BY TookTurn
<1>3. /\ x.op # "plan" => x.p \in People
      /\ x.verdict = "none" /\ InTurn(x) /\ Mine(x) = FamilyLocks(x)
  BY DEF FamilyOK
<1> HIDE DEF y
<1>4. FamilyLocks(y) = FamilyLocks(x)
  BY <1>1, <1>2 DEF FamilyLocks
<1>5. x.op = "admit" /\ Store(x.p) \in y.have => member[x.p] = "accepted" /\ AdmissionFits(x.p)
  BY DEF y
<1>6. y.op = "admit" /\ Store(y.p) \in y.have => member[y.p] = "accepted" /\ AdmissionFits(y.p)
  BY <1>1, <1>5
<1>7. FamilyOK(y)
  BY <1>1, <1>2, <1>3, <1>4, <1>6 DEF FamilyOK
<1> QED
  BY <1>1, <1>7 DEF TxOK, y

(* TakeInTurn. *)
LEMMA StepTakeInTurn ==
    ASSUME IInv, NEW t \in Txs, TakeInTurn(t)
    PROVE  IInv'
<1> DEFINE x == tx[t]
           l == Head(x.want)
<1>1. /\ Rows /\ x \in TxRow /\ TxOK(x)
  BY DEF IInv, Rows
<1>2. /\ x.op \in {"admit", "leave", "delete", "plan"} /\ GoesOn(t, Took(t)) /\ Quiet
  BY DEF TakeInTurn, Quiet, history
<1>3. PICK kind : MayTake(t, kind) /\ ~(x.op = "admit" /\ kind = "store")
  BY DEF TakeInTurn
<1>4. x.want # <<>> /\ l[1] = kind /\ FamilyOK(x)
  BY <1>1, <1>2, <1>3 DEF MayTake, TxOK
<1>5. ASSUME x.op = "admit", Store(x.p) \in Took(t).have
      PROVE  member[x.p] = "accepted" /\ AdmissionFits(x.p)
  <2>1. Took(t).have = x.have \cup {l}
    BY <1>1, <1>4, TookFacts
  <2>2. l # Store(x.p)
    BY <1>3, <1>4, <1>5, LockFacts
  <2>3. Store(x.p) \in x.have
    BY <1>5, <2>1, <2>2
  <2> QED
    BY <1>4, <1>5, <2>3 DEF FamilyOK
<1>6. TxOK(Took(t))
  BY <1>1, <1>2, <1>4, <1>5, TookFamily
<1> QED
  BY <1>2, <1>3, <1>6, TakeStep

(* AdmitFigures: the pool is counted when the last lock is taken. *)
LEMMA StepAdmitFigures ==
    ASSUME IInv, NEW t \in Txs, AdmitFigures(t)
    PROVE  IInv'
<1> DEFINE x == tx[t]
<1>1. /\ Rows /\ x \in TxRow /\ TxOK(x)
  BY DEF IInv, Rows
<1>2. x.op = "admit" /\ MayTake(t, "store") /\ Quiet /\ x.want # <<>>
  BY DEF AdmitFigures, Quiet, history, MayTake
<1>3. CASE Ends(t)
  BY <1>2, <1>3, EndStep
<1>4. CASE member[x.p] = "accepted" /\ AdmissionFits(x.p) /\ GoesOn(t, Took(t))
  <2>1. TxOK(Took(t))
    BY <1>1, <1>2, <1>4, TookFamily DEF TxOK
  <2> QED
    BY <1>2, <1>4, <2>1, TakeStep
<1> QED
  BY <1>3, <1>4 DEF AdmitFigures

-----------------------------------------------------------------------------
(* What the counters count. *)

DataRows == file \in [Files -> FileRow] /\ up \in [Uploads -> UpRow]

(* What a file or an upload adds to a workspace's counters. *)
BytesOf(w) == [f \in Files |-> IF file[f].at = w THEN file[f].bytes ELSE 0]
ResOf(w) == [u \in Uploads |-> IF up[u].at = w THEN up[u].res ELSE 0]
Masked ==
    \A w \in Workspaces :
        /\ BytesAt(w) = SumOf(BytesOf(w), Files) /\ ReservedAt(w) = SumOf(ResOf(w), Uploads)
        /\ \A f \in Files : BytesOf(w)[f] \in Nat
        /\ \A u \in Uploads : ResOf(w)[u] \in Nat

(* The files and uploads of a workspace are all of them, the others        *)
(* counted as nothing.                                                     *)
LEMMA MaskedHold == DataRows => Masked
<1> SUFFICES ASSUME DataRows, NEW w \in Workspaces
             PROVE  /\ BytesAt(w) = SumOf(BytesOf(w), Files)
                    /\ ReservedAt(w) = SumOf(ResOf(w), Uploads)
                    /\ \A f \in Files : BytesOf(w)[f] \in Nat
                    /\ \A u \in Uploads : ResOf(w)[u] \in Nat
  BY DEF Masked
<1>1. IsFiniteSet(Files) /\ IsFiniteSet(Uploads)
  BY InstanceAssumption, FS_Subset DEF Files
<1>2. /\ \A f \in Files : BytesOf(w)[f] \in Nat
      /\ \A u \in Uploads : ResOf(w)[u] \in Nat
  BY DEF DataRows, FileRow, UpRow, BytesOf, ResOf
<1>3. BytesAt(w) = SumOf(BytesOf(w), Files)
  <2> DEFINE b == [f \in Files |-> file[f].bytes]
             F == {f \in Files : file[f].at = w}
  <2>1. F \in SUBSET Files /\ \A f \in Files : b[f] \in Int
    BY DEF DataRows, FileRow
  <2>2. BytesAt(w) = SumOf(b, F)
    BY DEF BytesAt
  <2>3. BytesOf(w) = [f \in Files |-> IF f \in F THEN b[f] ELSE 0]
    BY DEF BytesOf
  <2> HIDE DEF b, F
  <2> QED
    BY <1>1, <2>1, <2>2, <2>3, SumMask
<1>4. ReservedAt(w) = SumOf(ResOf(w), Uploads)
  <2> DEFINE b == [u \in Uploads |-> up[u].res]
             U == {u \in Uploads : up[u].at = w}
  <2>1. U \in SUBSET Uploads /\ \A u \in Uploads : b[u] \in Int
    BY DEF DataRows, UpRow
  <2>2. ReservedAt(w) = SumOf(b, U)
    BY DEF ReservedAt
  <2>3. ResOf(w) = [u \in Uploads |-> IF u \in U THEN b[u] ELSE 0]
    BY DEF ResOf
  <2> HIDE DEF b, U
  <2> QED
    BY <1>1, <2>1, <2>2, <2>3, SumMask
<1> QED
  BY <1>2, <1>3, <1>4

(* And after a step. *)
LEMMA MaskedHoldNext == DataRows' => Masked'
BY MaskedHold, PTL

(* Sums of functions that differ in one place. *)
DifferAt(f, g, S, x) == \A y \in S : f[y] \in Int /\ g[y] \in Int /\ (y # x => g[y] = f[y])

(* They differ by as much as in that place. *)
LEMMA SumDiffer ==
    ASSUME NEW S, IsFiniteSet(S), NEW x \in S, NEW f, NEW g, DifferAt(f, g, S, x)
    PROVE  SumOf(g, S) = SumOf(f, S) + g[x] - f[x]
<1>1. IsFiniteSet(S \ {x}) /\ \A y \in S \ {x} : f[y] \in Int /\ g[y] = f[y]
  BY FS_RemoveElement DEF DifferAt
<1>2. SumOf(g, S \ {x}) = SumOf(f, S \ {x})
  BY <1>1, SumAgree
<1>3. SumOf(f, S \ {x}) \in Int
  BY <1>1, SumType
<1>4. (\A y \in S : f[y] \in Int) /\ (\A y \in S : g[y] \in Int)
  BY DEF DifferAt
<1>5. SumOf(f, S) = f[x] + SumOf(f, S \ {x}) /\ SumOf(g, S) = g[x] + SumOf(g, S \ {x})
  BY <1>4, SumRemove
<1> QED
  BY <1>2, <1>3, <1>4, <1>5

(* What one upload adds changes. *)
LEMMA ReservedChange ==
    ASSUME DataRows, DataRows', NEW w \in Workspaces, NEW u \in Uploads,
           \A v \in Uploads \ {u} : up'[v] = up[v]
    PROVE  /\ ReservedAt(w)' = ReservedAt(w) + (IF up'[u].at = w THEN up'[u].res ELSE 0)
                                   - (IF up[u].at = w THEN up[u].res ELSE 0)
           /\ ReservedAt(w) \in Int
<1> DEFINE f == ResOf(w)
           g == [v \in Uploads |-> IF up'[v].at = w THEN up'[v].res ELSE 0]
<1>1. Masked /\ Masked' /\ IsFiniteSet(Uploads)
  BY MaskedHold, MaskedHoldNext, InstanceAssumption, FS_Subset DEF Files
<1>2. ReservedAt(w) = SumOf(f, Uploads) /\ \A v \in Uploads : f[v] \in Nat
  BY <1>1 DEF Masked
<1>3. ResOf(w)' = g
  BY DEF ResOf
<1>4. ReservedAt(w)' = SumOf(g, Uploads) /\ \A v \in Uploads : g[v] \in Nat
  BY <1>1, <1>3 DEF Masked
<1>5. \A v \in Uploads \ {u} : g[v] = f[v]
  BY DEF ResOf
<1>6. /\ f[u] = IF up[u].at = w THEN up[u].res ELSE 0
      /\ g[u] = IF up'[u].at = w THEN up'[u].res ELSE 0
  BY DEF ResOf
<1> HIDE DEF f, g
<1>7. SumOf(g, Uploads) = SumOf(f, Uploads) + g[u] - f[u]
  <2>1. DifferAt(f, g, Uploads, u)
    BY <1>2, <1>4, <1>5 DEF DifferAt
  <2>2. IsFiniteSet(Uploads)
    BY <1>1
  <2> QED
    BY <2>1, <2>2, SumDiffer
<1>8. SumOf(f, Uploads) \in Int
  BY <1>1, <1>2, SumType
<1> QED
  BY <1>2, <1>4, <1>6, <1>7, <1>8

(* Only the files in E change. *)
FilesBut(E) == \A x \in Files \ E : file'[x] = file[x]

(* What one file adds changes. *)
LEMMA BytesChange ==
    ASSUME DataRows, DataRows', NEW w \in Workspaces, NEW e \in Files,
           FilesBut({e})
    PROVE  /\ BytesAt(w)' = BytesAt(w) + (IF file'[e].at = w THEN file'[e].bytes ELSE 0)
                                - (IF file[e].at = w THEN file[e].bytes ELSE 0)
           /\ BytesAt(w) \in Int
<1> DEFINE f == BytesOf(w)
           g == [x \in Files |-> IF file'[x].at = w THEN file'[x].bytes ELSE 0]
<1>1. Masked /\ Masked' /\ IsFiniteSet(Files)
  BY MaskedHold, MaskedHoldNext, InstanceAssumption
<1>2. BytesAt(w) = SumOf(f, Files) /\ \A x \in Files : f[x] \in Nat
  BY <1>1 DEF Masked
<1>3. BytesOf(w)' = g
  BY DEF BytesOf
<1>4. BytesAt(w)' = SumOf(g, Files) /\ \A x \in Files : g[x] \in Nat
  BY <1>1, <1>3 DEF Masked
<1>5. \A x \in Files \ {e} : g[x] = f[x]
  BY DEF BytesOf, FilesBut
<1>6. /\ f[e] = IF file[e].at = w THEN file[e].bytes ELSE 0
      /\ g[e] = IF file'[e].at = w THEN file'[e].bytes ELSE 0
  BY DEF BytesOf
<1> HIDE DEF f, g
<1>7. SumOf(g, Files) = SumOf(f, Files) + g[e] - f[e]
  <2>1. DifferAt(f, g, Files, e)
    BY <1>2, <1>4, <1>5 DEF DifferAt
  <2>2. IsFiniteSet(Files)
    BY <1>1
  <2> QED
    BY <2>1, <2>2, SumDiffer
<1>8. SumOf(f, Files) \in Int
  BY <1>1, <1>2, SumType
<1> QED
  BY <1>2, <1>4, <1>6, <1>7, <1>8

(* What two files add changes. *)
LEMMA BytesChangeTwo ==
    ASSUME DataRows, DataRows', NEW w \in Workspaces, NEW f \in Files, NEW e \in Files, e # f,
           FilesBut({f, e})
    PROVE  /\ BytesAt(w)' = BytesAt(w) + (IF file'[f].at = w THEN file'[f].bytes ELSE 0)
                                - (IF file[f].at = w THEN file[f].bytes ELSE 0)
                                + (IF file'[e].at = w THEN file'[e].bytes ELSE 0)
                                - (IF file[e].at = w THEN file[e].bytes ELSE 0)
           /\ BytesAt(w) \in Int
<1> DEFINE b == BytesOf(w)
           g == [x \in Files |-> IF file'[x].at = w THEN file'[x].bytes ELSE 0]
           m == [b EXCEPT ![f] = g[f]]
<1>1. Masked /\ Masked' /\ IsFiniteSet(Files)
  BY MaskedHold, MaskedHoldNext, InstanceAssumption
<1>2. BytesAt(w) = SumOf(b, Files) /\ \A x \in Files : b[x] \in Nat
  BY <1>1 DEF Masked
<1>3. BytesOf(w)' = g
  BY DEF BytesOf
<1>4. BytesAt(w)' = SumOf(g, Files) /\ \A x \in Files : g[x] \in Nat
  BY <1>1, <1>3 DEF Masked
<1>5. \A x \in Files \ {f, e} : g[x] = b[x]
  BY DEF BytesOf, FilesBut
<1>6. /\ b[f] = IF file[f].at = w THEN file[f].bytes ELSE 0
      /\ g[f] = IF file'[f].at = w THEN file'[f].bytes ELSE 0
      /\ b[e] = IF file[e].at = w THEN file[e].bytes ELSE 0
      /\ g[e] = IF file'[e].at = w THEN file'[e].bytes ELSE 0
  BY DEF BytesOf
<1>7. DOMAIN b = Files
  BY DEF BytesOf
<1> HIDE DEF b, g
<1>8. m[f] = g[f] /\ m[e] = b[e] /\ \A x \in Files \ {f} : m[x] = b[x]
  BY <1>7
<1> HIDE DEF m
<1>9. \A x \in Files : m[x] \in Nat
  BY <1>2, <1>4, <1>8
<1>10. SumOf(m, Files) = SumOf(b, Files) + m[f] - b[f]
  <2>1. DifferAt(b, m, Files, f)
    BY <1>2, <1>8, <1>9 DEF DifferAt
  <2>2. IsFiniteSet(Files)
    BY <1>1
  <2> QED
    BY <2>1, <2>2, SumDiffer
<1>11. SumOf(g, Files) = SumOf(m, Files) + g[e] - m[e]
  <2>1. DifferAt(m, g, Files, e)
    BY <1>4, <1>5, <1>8, <1>9 DEF DifferAt
  <2>2. IsFiniteSet(Files)
    BY <1>1
  <2> QED
    BY <2>1, <2>2, SumDiffer
<1>12. SumOf(b, Files) \in Int /\ SumOf(m, Files) \in Int
  BY <1>1, <1>2, <1>9, SumType
<1>13. g[f] \in Int /\ b[f] \in Int /\ g[e] \in Int /\ b[e] \in Int
  BY <1>2, <1>4
<1> QED
  BY <1>2, <1>4, <1>6, <1>8, <1>10, <1>11, <1>12, <1>13

-----------------------------------------------------------------------------
(* Begins. *)

(* A step that leaves the family, the counters and the files as they are,  *)
(* and opens no upload and settles none, respects every lock.              *)
LEMMA AskRespects ==
    ASSUME Rows, UNCHANGED <<family, storage, file, missed>>, NEW u \in Uploads,
           up[u].st \in {"none", "asked"}, up'[u].st # "open",
           \A v \in Uploads \ {u} : up'[v] = up[v]
    PROVE  Settles /\ \A h : Respects(h)
<1>1. member' = member /\ plan' = plan /\ used' = used /\ reserved' = reserved /\ file' = file
      /\ missed' = missed
  BY DEF family, storage
<1>2. Settles
  BY <1>1 DEF Settles
<1>3. \A w : Draws(w)' <=> Draws(w)
  BY <1>1 DEF Draws, Active
<1>4. \A p, w : MayAct(p, w)' <=> MayAct(p, w)
  BY <1>1 DEF MayAct, HoldsWorkspace, Alive, Active
<1>5. Drawing' = Drawing
  BY <1>1 DEF Drawing, Active
<1>6. \A w \in Workspaces : Total(w)' <= Total(w)
  BY <1>1 DEF Total, Rows
<1>7. Areas \subseteq Workspaces /\ Drawing \subseteq Workspaces
  BY DEF Workspaces, Drawing
<1>8. \A v \in Uploads : /\ up[v].st = "open" => up'[v] = up[v]
                         /\ up'[v].st = "open" => up'[v] = up[v]
  OBVIOUS
<1> QED
  BY <1>1, <1>2, <1>3, <1>4, <1>5, <1>6, <1>7, <1>8 DEF Respects

(* A step of a begin that has not reserved anything yet: it writes its own *)
(* upload only.                                                            *)
Asks(t, r, u, v) ==
    /\ tx' = [tx EXCEPT ![t] = r] /\ up' = [up EXCEPT ![u] = v]
    /\ UNCHANGED <<family, storage, file, missed>>
    /\ \A s \in Txs \ {t} : r.have \cap tx[s].have = {}
    /\ up[u].st \in {"none", "asked"} /\ up[u].res = 0 /\ v.st # "open" /\ v.res = 0
    /\ r.op = "begin" => r.u = u
    /\ \A s \in Txs \ {t} : tx[s].op = "begin" => tx[s].u # u

(* Such a step keeps the invariant if what it writes does.                 *)
LEMMA AskStep ==
    ASSUME IInv, NEW t \in Txs, NEW r \in TxRow, NEW u \in Uploads, NEW v \in UpRow,
           Asks(t, r, u, v), UploadOK(u)', TxOK(r)'
    PROVE  IInv'
<1>1. /\ tx' = [tx EXCEPT ![t] = r] /\ up' = [up EXCEPT ![u] = v]
      /\ UNCHANGED <<family, storage, file, missed>>
      /\ \A s \in Txs \ {t} : r.have \cap tx[s].have = {}
      /\ up[u].st \in {"none", "asked"} /\ up[u].res = 0 /\ v.st # "open" /\ v.res = 0
      /\ r.op = "begin" => r.u = u
      /\ \A s \in Txs \ {t} : tx[s].op = "begin" => tx[s].u # u
  BY DEF Asks
<1>2. /\ Rows /\ Exact /\ (\A x \in Uploads : UploadOK(x)) /\ (\A f \in Files : FileOK(f))
  BY DEF IInv
<1>3. /\ member' = member /\ plan' = plan /\ used' = used /\ reserved' = reserved /\ file' = file
      /\ missed' = missed
  BY <1>1 DEF family, storage
<1>4. /\ member \in [People -> {"out", "accepted", "active", "held", "gone"}]
      /\ plan \in [quota : Nat, live : BOOLEAN]
      /\ used \in [Workspaces -> Int] /\ reserved \in [Workspaces -> Int]
      /\ file \in [Files -> FileRow] /\ up \in [Uploads -> UpRow]
  BY <1>2 DEF Rows
<1>5. up' \in [Uploads -> UpRow] /\ up'[u] = v /\ \A x \in Uploads \ {u} : up'[x] = up[x]
  BY <1>1, <1>4
<1>6. Settles /\ \A h : Respects(h)
  BY <1>1, <1>2, <1>5, AskRespects
<1>7. Exact'
  <2>1. DataRows /\ DataRows'
    BY <1>3, <1>4, <1>5 DEF DataRows
  <2>2. ASSUME NEW w \in Workspaces PROVE used'[w] = BytesAt(w)' /\ reserved'[w] = ReservedAt(w)'
    <3>1. used[w] = BytesAt(w) /\ reserved[w] = ReservedAt(w)
      BY <1>2 DEF Exact, CountersExact
    <3>2. BytesAt(w)' = BytesAt(w)
      BY <1>3 DEF BytesAt
    <3>3. /\ ReservedAt(w)' = ReservedAt(w) + (IF up'[u].at = w THEN up'[u].res ELSE 0)
                                   - (IF up[u].at = w THEN up[u].res ELSE 0)
          /\ ReservedAt(w) \in Int
      BY <1>5, <2>1, ReservedChange
    <3> QED
      BY <1>1, <1>3, <1>5, <3>1, <3>2, <3>3
  <2> QED
    BY <2>2 DEF Exact, CountersExact
<1>8. \A f \in Files : FileOK(f)'
  BY <1>2, <1>3 DEF FileOK
<1>9. ASSUME NEW x \in Uploads PROVE UploadOK(x)'
  <2>1. CASE x = u
    BY <2>1
  <2>2. CASE x # u
    <3>1. up'[x] = up[x] /\ UploadOK(x)
      BY <1>2, <1>5, <2>2
    <3> QED
      BY <1>3, <3>1 DEF UploadOK, Under, OwnEnd, IsMove, Source
  <2> QED
    BY <2>1, <2>2
<1>10. \A s \in Txs \ {t} : tx[s].op = "begin" => up'[tx[s].u] = up[tx[s].u]
  <2>1. \A s \in Txs : tx[s].op = "begin" => tx[s].u \in Uploads
    BY DEF IInv, TxOK, BeginOK
  <2> QED
    BY <1>1, <1>5, <2>1
<1>11. r.op = "begin" => \A s \in Txs \ {t} : tx[s].op = "begin" => tx[s].u # r.u
  BY <1>1
<1> QED
  BY <1>1, <1>3, <1>4, <1>5, <1>6, <1>7, <1>8, <1>9, <1>10, <1>11, StepOfOne

(* The row of an upload that is over. *)
LEMMA OverFacts ==
    /\ Over \in UpRow /\ Over.st = "over" /\ Over.res = 0 /\ Over.freed = 0 /\ Over.at = Nothing
    /\ Over.kind = "new" /\ Over.of = Nothing /\ Over.by = Nothing
    /\ NoUpload \in UpRow /\ NoUpload.st = "none" /\ NoUpload.res = 0 /\ NoUpload.at = Nothing
    /\ NoUpload.freed = 0 /\ NoUpload.seq = 0
BY DEF Over, NoUpload, UpRow

(* A begin that is refused. *)
LEMMA RefuseStep ==
    ASSUME IInv, NEW t \in Txs, tx[t].op = "begin", Refuse(t, tx[t].u),
           UNCHANGED <<family, storage, file, missed>>
    PROVE  IInv'
<1>1. PICK u \in Uploads : u = tx[t].u
  BY DEF IInv, TxOK, BeginOK
<1>2. /\ u \in Uploads /\ up[u].st = "asked" /\ UploadOK(u) /\ AskedOnce
  BY <1>1 DEF IInv, TxOK, BeginOK
<1>3. tx' = [tx EXCEPT ![t] = NoTx] /\ up' = [up EXCEPT ![u] = Over]
  BY <1>1 DEF Refuse, Ends
<1>4. up[u].res = 0
  BY <1>2 DEF UploadOK
<1>5. UploadOK(u)'
  <2>1. up'[u] = Over
    BY <1>2, <1>3 DEF IInv, Rows
  <2> QED
    BY <2>1, OverFacts DEF UploadOK
<1>6. \A s \in Txs \ {t} : tx[s].op = "begin" => tx[s].u # u
  BY <1>1, <1>2 DEF AskedOnce
<1>7. TxOK(NoTx)'
  BY NoTxFacts DEF TxOK, NoTx
<1>8. /\ Over \in UpRow /\ Over.st # "open" /\ Over.res = 0
      /\ NoTx \in TxRow /\ NoTx.op # "begin" /\ \A s \in Txs \ {t} : NoTx.have \cap tx[s].have = {}
  BY OverFacts, NoTxFacts
<1> HIDE DEF NoTx, Over
<1>9. Asks(t, NoTx, u, Over)
  BY <1>2, <1>3, <1>4, <1>6, <1>8 DEF Asks
<1> QED
  BY <1>2, <1>5, <1>7, <1>8, <1>9, AskStep

(* BeginUpload: a request. *)
LEMMA StepBeginUpload ==
    ASSUME IInv, NEW t \in Txs, NEW u \in Uploads, NEW p \in People, NEW w \in Workspaces,
           NEW f \in Files \cup {Nothing}, NEW k \in Kinds[u], BeginUpload(t, u, k, w, p, f)
    PROVE  IInv'
<1> DEFINE r == [NoTx EXCEPT !.op = "begin", !.u = u, !.want = <<Ws(w)>>]
           v == [NoUpload EXCEPT !.st = "asked", !.kind = k, !.at = w, !.of = f,
                                 !.by = p, !.seq = IF f = Nothing THEN 0 ELSE file[f].seq]
<1>1. /\ Rows /\ UploadOK(u) /\ (\A e \in Files : FileOK(e)) /\ (\A s \in Txs : TxOK(tx[s]))
  BY DEF IInv
<1>2. /\ up[u] = NoUpload /\ HoldsWorkspace(p, w) /\ (k = "new" <=> f = Nothing)
      /\ f # Nothing => file[f].there /\ (k = "move" <=> file[f].at # w)
      /\ up' = [up EXCEPT ![u] = v] /\ tx' = [tx EXCEPT ![t] = r]
      /\ UNCHANGED <<family, storage, file, missed>>
  BY DEF BeginUpload, Opens, history
<1>3. Ws(w) \in Locks /\ <<Ws(w)>> \in Seq(Locks)
  <2>1. Ws(w) \in Locks
    BY LockFacts
  <2> QED
    BY <2>1
<1>4. /\ r \in TxRow /\ r.op = "begin" /\ r.u = u /\ r.want = <<Ws(w)>> /\ r.have = {} /\ r.verdict = "none"
  BY <1>3 DEF NoTx, TxRow
<1>5. k \in {"new", "version", "move", "copy"}
  BY InstanceAssumption
<1>6. /\ v \in UpRow /\ v.st = "asked" /\ v.kind = k /\ v.at = w /\ v.of = f /\ v.by = p /\ v.res = 0
      /\ v.freed = 0
  <2>1. f # Nothing => file[f].seq \in Nat
    BY <1>1 DEF Rows, FileRow
  <2> QED
    BY <1>5, <2>1 DEF NoUpload, UpRow
<1> HIDE DEF r, v
<1>61. PICK a \in UpRow : a = v
  BY <1>6
<1>62. PICK b \in TxRow : b = r
  BY <1>4
<1>7. up'[u] = v /\ up' = [up EXCEPT ![u] = a] /\ tx' = [tx EXCEPT ![t] = b]
  BY <1>1, <1>2, <1>61, <1>62 DEF Rows
<1>8. file' = file
  BY <1>2
<1>9. Under(u)'
  <2>1. w \in People => p = w
    BY <1>2, PoolAssumption DEF HoldsWorkspace
  <2>2. f # Nothing => f \in Files /\ file[f].at \in Workspaces
    BY <1>1, <1>2 DEF FileOK
  <2> QED
    BY <1>2, <1>6, <1>7, <1>8, <2>1, <2>2 DEF Under
<1>10. file[u].at = Nothing /\ ~file[u].there
  BY <1>1, <1>2, OverFacts DEF UploadOK
<1>11. UploadOK(u)'
  BY <1>6, <1>7, <1>8, <1>9, <1>10 DEF UploadOK
<1>12. TxOK(b)'
  BY <1>4, <1>6, <1>7, <1>62 DEF TxOK, BeginOK
<1>13. \A s \in Txs \ {t} : tx[s].op = "begin" => tx[s].u # u
  BY <1>1, <1>2, OverFacts DEF TxOK, BeginOK
<1>14. up[u].st \in {"none", "asked"} /\ up[u].res = 0 /\ a.st # "open" /\ a.res = 0
  BY <1>2, <1>6, <1>61, OverFacts
<1>15. (\A s \in Txs \ {t} : b.have \cap tx[s].have = {}) /\ (b.op = "begin" => b.u = u)
  BY <1>4, <1>62
<1>16. UNCHANGED <<family, storage, file, missed>>
  BY <1>2
<1>17. up' = [up EXCEPT ![u] = a] /\ tx' = [tx EXCEPT ![t] = b]
  BY <1>7
<1>18. Asks(t, b, u, a)
  BY <1>13, <1>14, <1>15, <1>16, <1>17 DEF Asks
<1> QED
  BY <1>11, <1>12, <1>18, AskStep

(* BeginAtWorkspace: under the workspace's lock, the access is checked     *)
(* again and the file the upload is of is looked at.                       *)
LEMMA StepBeginAtWorkspace ==
    ASSUME IInv, NEW t \in Txs, BeginAtWorkspace(t)
    PROVE  IInv'
<1>1. PICK u \in Uploads : u = tx[t].u
  BY DEF IInv, TxOK, BeginOK, BeginAtWorkspace
<1>2. PICK r \in UpRow : r = up[u]
  BY DEF IInv, Rows
<1>3. PICK w \in Workspaces \cup {Nothing} : w = r.at
  BY DEF UpRow
<1> DEFINE x == tx[t]
           y == Took(t)
           z == FigureLocks(y, w)
           v == [up[u] EXCEPT !.freed = IF r.kind = "move" THEN file[r.of].bytes ELSE 0]
<1>4. /\ Rows /\ Exclusive /\ AskedOnce /\ TxOK(x) /\ (\A q \in Uploads : UploadOK(q))
  BY DEF IInv
<1>5. /\ x.op = "begin" /\ MayTake(t, "ws") /\ x.want # <<>> /\ Free(Head(x.want))
      /\ UNCHANGED <<family, storage, file, missed>>
  BY DEF BeginAtWorkspace, MayTake, history
<1>6. u \in Uploads /\ r.st = "asked" /\ UploadOK(u) /\ BeginOK(x)
  BY <1>1, <1>2, <1>4, <1>5 DEF TxOK, BeginOK
<1>7. CASE Refuse(t, u)
  BY <1>1, <1>5, <1>7, RefuseStep
<1>8. CASE /\ Alive(w) /\ StillWriter(r.by, w) /\ SourceAtBegin(r)
           /\ GoesOn(t, z) /\ up' = [up EXCEPT ![u].freed = IF r.kind = "move" THEN file[r.of].bytes ELSE 0]
  <2>1. x.want = <<Ws(w)>> /\ x.have = {}
    <3>1. Head(x.want)[1] = "ws"
      BY <1>5 DEF MayTake
    <3>2. Head(<<Pool, Store(w)>>) = Pool /\ Head(<<Store(w)>>) = Store(w)
      OBVIOUS
    <3> QED
      BY <1>1, <1>2, <1>3, <1>5, <1>6, <3>1, <3>2, LockFacts DEF BeginOK, Figures
  <2>2. Head(<<Ws(w)>>) = Ws(w)
    OBVIOUS
  <2>3. /\ y \in TxRow /\ y.op = "begin" /\ y.u = u /\ y.have = {Ws(w)}
    BY <1>1, <1>4, <1>5, <2>1, <2>2, TookFacts
  <2>4. w \in Workspaces /\ r.by \in People
        /\ (r.kind = "move" => r.of \in Files /\ file[r.of].at \in Workspaces)
    BY <1>2, <1>3, <1>4, <1>6, UnderFacts DEF IsMove, Source
  <2>5. PICK a \in TxRow : a = y
    BY <2>3
  <2>6. /\ z \in TxRow /\ z.op = "begin" /\ z.u = u /\ z.have = {Ws(w)} /\ z.verdict = "figures"
        /\ Figures(z, w, {Ws(w)})
    <3> HIDE DEF y, z
    <3>1. z = FigureLocks(a, w)
      BY <2>5 DEF z
    <3> QED
      BY <2>3, <2>4, <2>5, <3>1, FigureFacts
  <2>7. tx' = [tx EXCEPT ![t] = z]
    BY <1>8 DEF GoesOn
  <2>8. r \in UpRow /\ r.res = 0
    BY <1>2, <1>4, <1>6 DEF UploadOK, Rows
  <2>9. /\ v \in UpRow /\ v.st = "asked" /\ v.res = 0 /\ v.at = w /\ v.by = r.by /\ v.kind = r.kind
        /\ v.of = r.of /\ (r.kind # "move" => v.freed = 0)
    <3>1. r.kind = "move" => file[r.of].bytes \in Nat
      BY <1>4, <2>4 DEF Rows, FileRow
    <3> QED
      BY <1>2, <1>3, <1>6, <2>8, <3>1 DEF UpRow
  <2>10. PICK c \in UpRow : c = v
    BY <2>9
  <2>11. PICK d \in TxRow : d = z
    BY <2>6
  <2> HIDE DEF y, z, v
  <2>12. up' = [up EXCEPT ![u] = c] /\ tx' = [tx EXCEPT ![t] = d]
    BY <1>8, <2>7, <2>10, <2>11 DEF v
  <2>13. up'[u] = c
    BY <1>4, <1>6, <2>12 DEF Rows
  <2>14. file' = file /\ member' = member /\ missed' = missed
    BY <1>5 DEF family
  <2>15. /\ c.st = "asked" /\ c.res = 0 /\ c.at = w /\ c.by = r.by /\ c.kind = r.kind
          /\ c.of = r.of /\ (r.kind # "move" => c.freed = 0)
          /\ d.op = "begin" /\ d.u = u /\ d.have = {Ws(w)} /\ d.verdict = "figures"
          /\ Figures(d, w, {Ws(w)})
    BY <2>6, <2>9, <2>10, <2>11
  <2>16. UploadOK(u)'
    <3>1. Under(u) /\ file[u].at = Nothing /\ ~file[u].there
      BY <1>2, <1>6 DEF UploadOK
    <3>2. Under(u)'
      BY <1>2, <1>3, <2>15, <2>13, <2>14, <3>1 DEF Under
    <3> QED
      BY <2>15, <2>13, <2>14, <3>1, <3>2 DEF UploadOK
  <2>17. OwnEnd(u)'
    <3>1. r.kind = "move" => file[r.of].at = r.by \/ file[r.of].at \in Areas
      <4>1. r.kind = "move" => r.of # Nothing
        BY <2>4, InstanceAssumption
      <4> QED
        BY <1>8, <4>1 DEF SourceAtBegin, MayStillRemove, HoldsWorkspace
    <3> QED
      BY <2>15, <2>13, <2>14, <3>1 DEF OwnEnd, IsMove, Source
  <2>18. MayAct(r.by, w)'
    <3>1. MayAct(r.by, w)
      BY <1>2, <1>3, <1>4, <1>6, <1>8, MayStill
    <3> QED
      BY <2>14, <3>1 DEF MayAct, HoldsWorkspace, Alive, Active
  <2>19. Figures(d, w, {Ws(w)})'
    BY <2>14, <2>15 DEF Figures, Draws, Active
  <2>20. TxOK(d)'
    <3>1. BeginOK(d)'
      BY <1>6, <2>15, <2>13, <2>17, <2>18, <2>19 DEF BeginOK
    <3> QED
      BY <2>15, <3>1 DEF TxOK
  <2>21. \A s \in Txs \ {t} : d.have \cap tx[s].have = {}
    BY <1>5, <2>1, <2>2, <2>15 DEF Free
  <2>22. \A s \in Txs \ {t} : tx[s].op = "begin" => tx[s].u # u
    BY <1>1, <1>4, <1>5 DEF AskedOnce
  <2>23. up[u].st \in {"none", "asked"} /\ up[u].res = 0
    BY <1>2, <1>6, <2>8
  <2>24. UNCHANGED <<family, storage, file, missed>>
    BY <1>5
  <2>25. c.st # "open" /\ c.res = 0 /\ (d.op = "begin" => d.u = u)
    BY <2>15
  <2>26. Asks(t, d, u, c)
    BY <2>12, <2>21, <2>22, <2>23, <2>24, <2>25 DEF Asks
  <2> QED
    BY <2>16, <2>20, <2>26, AskStep
<1> QED
  BY <1>1, <1>2, <1>3, <1>7, <1>8 DEF BeginAtWorkspace

(* A begin that the pool moved under starts over, or gives up. *)
LEMMA BeginStartsOver ==
    ASSUME IInv, NEW t \in Txs, tx[t].op = "begin", StartsOver(t),
           UNCHANGED <<family, storage, file, history>>
    PROVE  IInv'
<1> DEFINE x == tx[t]
           u == x.u
           r == Request("begin", u, x.writer, x.tries + 1)
<1>1. /\ Rows /\ x \in TxRow /\ UploadOK(u) /\ u \in Uploads /\ up[u].st = "asked"
  BY DEF IInv, Rows, TxOK, BeginOK
<1>2. CASE Refuse(t, u)
  BY <1>2, RefuseStep DEF history
<1>3. CASE tx' = [tx EXCEPT ![t] = r] /\ up' = up
  <2>1. x.writer \in BOOLEAN /\ x.tries + 1 \in Nat
    BY <1>1 DEF TxRow
  <2>2. up[u].at \in Workspaces
    BY <1>1, UnderFacts
  <2>3. Ws(up[u].at) \in Locks
    BY <2>2, LockFacts
  <2>4. <<Ws(up[u].at)>> \in Seq(Locks)
    BY <2>3
  <2>5. /\ r \in TxRow /\ r.op = "begin" /\ r.u = u /\ r.want = <<Ws(up[u].at)>> /\ r.have = {}
        /\ r.verdict = "none"
    BY <1>1, <2>1, <2>4 DEF Request, NoTx, TxRow
  <2> HIDE DEF r
  <2>6. TxOK(r)
    BY <1>1, <2>5 DEF TxOK, BeginOK
  <2>7. \A s \in Txs \ {t} : tx[s].op = "begin" => tx[s].u # r.u
    BY <2>5 DEF IInv, AskedOnce
  <2>8. Quiet /\ \A s \in Txs \ {t} : r.have \cap tx[s].have = {}
    BY <1>3, <2>5 DEF Quiet, history
  <2> QED
    BY <1>3, <2>5, <2>6, <2>7, <2>8, QuietStep
<1>4. Refuse(t, u) \/ (tx' = [tx EXCEPT ![t] = r] /\ up' = up)
  BY DEF StartsOver, GoesOn
<1> QED
  BY <1>2, <1>3, <1>4

(* The pool's lock first, then the storage row's. *)
LEMMA FigureHeads ==
    ASSUME NEW x \in TxRow, NEW w, NEW rows, Figures(x, w, rows)
    PROVE  /\ Head(x.want)[1] = "pool" =>
                 x.want = <<Pool, Store(w)>> /\ Head(x.want) = Pool /\ Tail(x.want) = <<Store(w)>>
                 /\ x.have = rows /\ x.fam
           /\ Head(x.want)[1] = "store" =>
                 /\ x.want = <<Store(w)>> /\ Head(x.want) = Store(w) /\ Tail(x.want) = <<>>
                 /\ \/ x.have = rows /\ ~x.fam /\ w \in People
                    \/ x.have = rows \cup {Pool} /\ x.fam /\ Draws(w)
           /\ Head(x.want)[1] \in {"pool", "store"}
<1>1. /\ Head(<<Pool, Store(w)>>) = Pool /\ Tail(<<Pool, Store(w)>>) = <<Store(w)>>
      /\ Head(<<Store(w)>>) = Store(w) /\ Tail(<<Store(w)>>) = <<>>
  OBVIOUS
<1>2. Pool[1] = "pool" /\ Store(w)[1] = "store"
  BY LockFacts
<1> QED
  BY <1>1, <1>2 DEF Figures

(* TakePool: a begin or a move's completion settles the membership. *)
LEMMA StepTakePool ==
    ASSUME IInv, NEW t \in Txs, TakePool(t)
    PROVE  IInv'
<1> DEFINE x == tx[t]
           u == x.u
           w == up[u].at
           y == Took(t)
<1>1. /\ Rows /\ TxOK(x) /\ (\A q \in Uploads : UploadOK(q)) /\ x \in TxRow
  BY DEF IInv, Rows
<1>2. /\ x.verdict = "figures" /\ MayTake(t, "pool") /\ x.want # <<>> /\ Head(x.want)[1] = "pool"
      /\ UNCHANGED <<family, storage, file, history>>
  BY DEF TakePool, MayTake
<1>3. x.op \in {"begin", "finish"}
  <2>1. x.op # "none"
    BY <1>1, <1>2, NoTxFacts DEF TxOK
  <2> QED
    BY <1>1, <1>2, <2>1 DEF TxOK, TxRow, FamilyOK
<1>4. /\ y \in TxRow /\ y.op = x.op /\ y.u = u /\ y.writer = x.writer /\ y.verdict = "figures"
      /\ y.want = Tail(x.want) /\ y.have = x.have \cup {Head(x.want)} /\ y.fam = x.fam
  BY <1>1, <1>2, TookFacts
<1>5. CASE x.op = "begin"
  <2>1. BeginOK(x)
    BY <1>1, <1>5 DEF TxOK
  <2>2. CASE StartsOver(t)
    BY <1>2, <1>5, <2>2, BeginStartsOver
  <2>3. CASE ~PoolMovedFrom(t, w) /\ GoesOn(t, y) /\ up' = up
    <3>1. Figures(x, w, {Ws(w)}) /\ MayAct(up[u].by, w) /\ OwnEnd(u) /\ u \in Uploads /\ up[u].st = "asked"
      BY <1>2, <2>1 DEF BeginOK
    <3>2. Head(x.want) = Pool /\ Tail(x.want) = <<Store(w)>> /\ x.have = {Ws(w)} /\ x.fam
      BY <1>1, <1>2, <3>1, FigureHeads
    <3>3. Draws(w)
      BY <2>3, <3>2 DEF PoolMovedFrom, Draws
    <3> HIDE DEF y
    <3>4. Figures(y, w, {Ws(w)})
      BY <1>4, <3>2, <3>3 DEF Figures
    <3>5. TxOK(y)
      BY <1>4, <1>5, <3>1, <3>4 DEF TxOK, BeginOK
    <3>6. TxOK(Took(t)) /\ GoesOn(t, Took(t)) /\ Quiet
      BY <1>2, <2>3, <3>5 DEF y, Quiet, history
    <3> QED
      BY <1>2, <3>6, TakeStep
  <2> QED
    BY <2>2, <2>3 DEF TakePool
<1>6. CASE x.op = "finish"
  <2>1. Inside(x) /\ u \in Uploads
    BY <1>1, <1>2, <1>6 DEF TxOK, FinishOK, Entering
  <2>2. /\ up[u].st = "open" /\ EndRows(u) \subseteq x.have /\ (x.writer => MayAct(up[u].by, w))
        /\ IsMove(u) /\ MoverMay(u) /\ Figures(x, w, EndRows(u))
    BY <1>2, <2>1 DEF Inside
  <2>3. CASE StartsOver(t)
    BY <1>2, <1>6, <2>2, <2>3, FinishStartsOver
  <2>4. CASE ~PoolMovedFrom(t, w) /\ GoesOn(t, y) /\ up' = up
    <3>1. Head(x.want) = Pool /\ Tail(x.want) = <<Store(w)>> /\ x.have = EndRows(u) /\ x.fam
      BY <1>1, <1>2, <2>2, FigureHeads
    <3>2. Draws(w)
      BY <2>4, <3>1 DEF PoolMovedFrom, Draws
    <3> HIDE DEF y
    <3>3. Figures(y, w, EndRows(u))
      BY <1>4, <3>1, <3>2 DEF Figures
    <3>4. Inside(y)
      BY <1>4, <2>2, <3>1, <3>3 DEF Inside
    <3>5. TxOK(y)
      BY <1>4, <1>6, <2>1, <3>4 DEF TxOK, FinishOK
    <3>6. TxOK(Took(t)) /\ GoesOn(t, Took(t)) /\ Quiet
      BY <1>2, <2>4, <3>5 DEF y, Quiet, history
    <3> QED
      BY <1>2, <3>6, TakeStep
  <2> QED
    BY <2>3, <2>4 DEF TakePool
<1> QED
  BY <1>3, <1>5, <1>6

(* The greater of nothing and a number. *)
LEMMA MaxOfTwo ==
    ASSUME NEW a \in Int
    PROVE  Max({0, a}) \in Nat /\ Max({0, a}) = IF a > 0 THEN a ELSE 0
<1>1. CASE a > 0
  <2>1. a \in {0, a} /\ (\A y \in {0, a} : a >= y)
    BY <1>1
  <2>2. \A m \in {0, a} : (\A y \in {0, a} : m >= y) => m = a
    BY <1>1
  <2> QED
    BY <1>1, <2>1, <2>2 DEF Max
<1>2. CASE ~(a > 0)
  <2>1. 0 \in {0, a} /\ (\A y \in {0, a} : 0 >= y)
    BY <1>2
  <2>2. \A m \in {0, a} : (\A y \in {0, a} : m >= y) => m = 0
    BY <1>2
  <2> QED
    BY <1>2, <2>1, <2>2 DEF Max
<1> QED
  BY <1>1, <1>2

(* What is charged is the upload's size, or for a move within the pool     *)
(* what is beyond what its source frees.                                   *)
LEMMA ChargeFacts ==
    ASSUME NEW t \in Txs, NEW u \in Uploads, up \in [Uploads -> UpRow]
    PROVE  /\ Charge(t, u) \in Nat /\ Charge(t, u) <= Size[u] /\ Size[u] <= Charge(t, u) + up[u].freed
           /\ ~IsMove(u) => Charge(t, u) = Size[u]
<1>1. Size[u] \in Nat /\ up[u].freed \in Nat
  BY InstanceAssumption DEF Files, UpRow
<1>2. Size[u] - up[u].freed \in Int
  BY <1>1
<1>3. /\ Max({0, Size[u] - up[u].freed}) \in Nat
      /\ Max({0, Size[u] - up[u].freed}) = IF Size[u] - up[u].freed > 0 THEN Size[u] - up[u].freed ELSE 0
  BY <1>2, MaxOfTwo
<1>4. Charge(t, u) = Size[u] \/ (IsMove(u) /\ Charge(t, u) = Max({0, Size[u] - up[u].freed}))
  BY DEF Charge
<1> QED
  BY <1>1, <1>3, <1>4

(* What may be spent is a number. *)
LEMMA SpendableInt ==
    ASSUME CountRows, NEW w \in Workspaces, NEW fam \in BOOLEAN, fam <=> Draws(w)
    PROVE  Spendable(w, fam) \in Int
<1>1. Counts /\ plan.quota \in Nat /\ Base \in Nat
  BY CountsHold, PoolAssumption DEF CountRows
<1>2. CASE Pooled(w, fam)
  <2>1. Draws(w)
    BY <1>2, PoolAssumption DEF Pooled, Draws
  <2>2. PoolFree(w, plan.quota) \in Int /\ PoolFree(w, 0) \in Int
    BY <1>1, <2>1 DEF Counts
  <2> QED
    BY <1>2, <2>2 DEF Spendable
<1>3. CASE ~Pooled(w, fam)
  <2>1. Total(w) \in Nat
    BY <1>1 DEF Counts
  <2> QED
    BY <1>1, <1>3, <2>1 DEF Spendable, OwnFree
<1> QED
  BY <1>2, <1>3

(* BeginFigures: what the begin costs is there to be spent, or it is       *)
(* refused, or starts over.                                                *)
LEMMA StepBeginFigures ==
    ASSUME IInv, NEW t \in Txs, BeginFigures(t)
    PROVE  IInv'
<1>1. PICK u \in Uploads : u = tx[t].u
  BY DEF IInv, TxOK, BeginOK, BeginFigures
<1> DEFINE x == tx[t]
           w == up[u].at
           cost == Charge(t, u)
           y == Took(t)
           r == [y EXCEPT !.verdict = "reserve", !.cost = cost, !.live = plan.live]
<1>2. /\ Rows /\ Exact /\ TxOK(x) /\ UploadOK(u) /\ x \in TxRow
  BY DEF IInv, Rows
<1>3. /\ x.op = "begin" /\ MayTake(t, "store") /\ x.want # <<>> /\ Free(Head(x.want))
      /\ Head(x.want)[1] = "store"
      /\ UNCHANGED <<family, storage, file, history>>
  BY DEF BeginFigures, MayTake
<1>4. BeginOK(x) /\ up[u].st = "asked" /\ w \in Workspaces
  BY <1>1, <1>2, <1>3, UnderFacts DEF TxOK, BeginOK
<1>5. CASE StartsOver(t)
  BY <1>3, <1>5, BeginStartsOver
<1>6. CASE Refuse(t, u)
  BY <1>1, <1>3, <1>6, RefuseStep DEF history
<1>7. CASE /\ ~PoolMovedInto(t, w) /\ ~(cost > 0 /\ Spendable(w, x.fam) < cost)
           /\ GoesOn(t, r) /\ up' = up
  <2>1. x.verdict = "figures"
    <3>1. Head(<<Ws(w)>>) = Ws(w) /\ Ws(w)[1] = "ws"
      BY LockFacts
    <3> QED
      BY <1>1, <1>3, <1>4, <3>1 DEF BeginOK
  <2>2. Figures(x, w, {Ws(w)}) /\ MayAct(up[u].by, w) /\ OwnEnd(u)
    BY <1>1, <1>4, <2>1 DEF BeginOK
  <2>3. /\ x.want = <<Store(w)>> /\ Head(x.want) = Store(w) /\ Tail(x.want) = <<>>
        /\ \/ x.have = {Ws(w)} /\ ~x.fam /\ w \in People
           \/ x.have = {Ws(w)} \cup {Pool} /\ x.fam /\ Draws(w)
    BY <1>2, <1>3, <2>2, FigureHeads
  <2>4. x.fam \in BOOLEAN /\ (x.fam <=> Draws(w))
    BY <1>2, <1>7, <2>3 DEF TxRow, PoolMovedInto, Draws
  <2>5. /\ cost \in Nat /\ cost <= Size[u] /\ Size[u] <= cost + up[u].freed
    BY <1>2, ChargeFacts DEF Rows
  <2>6. Affords(w, cost)
    <3>1. CountRows
      BY <1>2, RowsCount
    <3>2. CASE cost = 0
      BY <3>2 DEF Affords
    <3>3. CASE cost > 0
      <4>1. Spendable(w, x.fam) \in Int
        BY <1>4, <2>4, <3>1, SpendableInt
      <4>2. cost <= Spendable(w, x.fam)
        BY <1>7, <2>5, <3>3, <4>1
      <4> HIDE DEF cost, x, w
      <4> QED
        BY <1>4, <2>4, <2>5, <3>1, <4>2, SpendableAffords
    <3> QED
      BY <2>5, <3>2, <3>3
  <2>16. ~plan.live => Bare(w, cost)
    <3>1. CountRows
      BY <1>2, RowsCount
    <3>2. CASE cost = 0
      BY <3>2 DEF Bare
    <3>3. CASE cost > 0
      <4>1. Spendable(w, x.fam) \in Int
        BY <1>4, <2>4, <3>1, SpendableInt
      <4>2. cost <= Spendable(w, x.fam)
        BY <1>7, <2>5, <3>3, <4>1
      <4> HIDE DEF cost, x, w
      <4> QED
        BY <1>4, <2>4, <2>5, <3>1, <4>2, SpendableBare
    <3> QED
      BY <2>5, <3>2, <3>3
  <2>17. plan.live \in BOOLEAN
    BY <1>2 DEF Rows
  <2>7. /\ y \in TxRow /\ y.op = "begin" /\ y.u = u /\ y.fam = x.fam /\ y.want = <<>>
        /\ y.have = x.have \cup {Store(w)}
    BY <1>1, <1>2, <1>3, <2>3, TookFacts
  <2> HIDE DEF y, cost
  <2>8. /\ r \in TxRow /\ r.op = "begin" /\ r.u = u /\ r.fam = x.fam /\ r.want = <<>>
        /\ r.have = x.have \cup {Store(w)} /\ r.verdict = "reserve" /\ r.cost = cost
        /\ r.live = plan.live
    BY <2>5, <2>7, <2>17 DEF TxRow
  <2>9. tx' = [tx EXCEPT ![t] = r]
    BY <1>7 DEF GoesOn
  <2> HIDE DEF r
  <2>10. TxOK(r)
    <3>1. BeginOK(r)
      BY <1>4, <2>2, <2>3, <2>4, <2>5, <2>6, <2>8, <2>16 DEF BeginOK
    <3> QED
      BY <2>8, <3>1 DEF TxOK
  <2>11. Quiet
    BY <1>3, <1>7 DEF Quiet, history
  <2>12. Free(Store(w))
    BY <1>3, <2>3
  <2>13. PICK l : l = Store(w)
    OBVIOUS
  <2>14. PICK z \in TxRow : z = r
    BY <2>8
  <2>15. /\ tx' = [tx EXCEPT ![t] = z] /\ Free(l) /\ z.have \subseteq tx[t].have \cup {l}
         /\ (z.op = "begin" => tx[t].op = "begin" /\ z.u = tx[t].u) /\ TxOK(z)
    BY <1>1, <1>3, <2>8, <2>9, <2>10, <2>12, <2>13, <2>14
  <2> QED
    BY <2>11, <2>15, GoStep
<1> QED
  BY <1>1, <1>5, <1>6, <1>7 DEF BeginFigures

(* BeginMoving: the file has a move under way. *)
LEMMA StepBeginMoving ==
    ASSUME IInv, NEW t \in Txs, BeginMoving(t)
    PROVE  IInv'
BY RefuseStep DEF BeginMoving, Ready, history

-----------------------------------------------------------------------------
(* Commits. *)

(* What a commit writes keeps the rest of the invariant. *)
Kept ==
    /\ member' \in [People -> {"out", "accepted", "active", "held", "gone"}]
    /\ plan' \in [quota : Nat, live : BOOLEAN]
    /\ used' \in [Workspaces -> Int] /\ reserved' \in [Workspaces -> Int]
    /\ file' \in [Files -> FileRow] /\ up' \in [Uploads -> UpRow]
    /\ Exact' /\ (\A f \in Files : FileOK(f)') /\ (\A u \in Uploads : UploadOK(u)')
    /\ Settles

(* Transaction s loses nothing it has locked, nor its request.             *)
Spares(s) == Respects(tx[s].have) /\ (tx[s].op = "begin" => up'[tx[s].u] = up[tx[s].u])

(* A commit ends its transaction and spares the others. *)
LEMMA CommitStep ==
    ASSUME IInv, NEW t \in Txs, Ends(t), Kept, \A s \in Txs \ {t} : Spares(s)
    PROVE  IInv'
<1>1. /\ NoTx \in TxRow /\ NoTx.op # "begin" /\ \A s \in Txs \ {t} : NoTx.have \cap tx[s].have = {}
  BY NoTxFacts
<1>2. TxOK(NoTx)'
  BY NoTxFacts DEF TxOK, NoTx
<1>3. tx' = [tx EXCEPT ![t] = NoTx]
  BY DEF Ends
<1> HIDE DEF NoTx
<1> QED
  BY <1>1, <1>2, <1>3, StepOfOne DEF Kept, Spares

(* A step outside the transactions spares all of them. *)
LEMMA FreeStep ==
    ASSUME IInv, tx' = tx, Kept, \A s \in Txs : Spares(s)
    PROVE  IInv'
BY StepOfNone DEF Kept, Spares

(* An upload nothing is said of stays as it should be. *)
LEMMA UploadKept ==
    ASSUME Rows, Settles, NEW x \in Uploads, UploadOK(x), up'[x] = up[x],
           file'[x] = file[x] \/ up[x].st = "over"
    PROVE  UploadOK(x)'
<1>1. CASE up[x].st = "over"
  BY <1>1 DEF UploadOK
<1>2. CASE up[x].st = "none"
  BY <1>2 DEF UploadOK
<1>3. CASE up[x].st \in {"asked", "open"}
  <2>1. Under(x)
    BY <1>3 DEF UploadOK
  <2>2. up[x].of \in Files \cup {Nothing}
    BY DEF Rows, UpRow
  <2>3. up[x].of # Nothing => file'[up[x].of].at = file[up[x].of].at
    BY <2>1, <2>2 DEF Under, Settles
  <2>4. Under(x)'
    BY <2>1, <2>3 DEF Under
  <2>5. up[x].kind = "move" => up[x].of # Nothing
    BY <2>1 DEF Under
  <2>6. OwnEnd(x) => OwnEnd(x)'
    BY <2>3, <2>5 DEF OwnEnd, IsMove, Source
  <2> QED
    BY <1>3, <2>4, <2>6 DEF UploadOK
<1> QED
  BY <1>1, <1>2, <1>3 DEF Rows, UpRow

(* What a step of files and uploads leaves alone of what is locked by h. *)
LetsBe(h) ==
    /\ \A f \in Files : file[f].at \in Workspaces /\ Ws(file[f].at) \in h =>
          /\ file'[f] = file[f]
          /\ \A v \in Uploads : up'[v].st = "open" /\ up'[v].kind = "version" /\ up'[v].of = f =>
                up[v].st = "open" /\ up[v].kind = "version" /\ up[v].of = f
    /\ \A u \in Uploads : up[u].st = "open" /\ Ws(up[u].at) \in h => up'[u] = up[u]
    /\ \A w \in Workspaces : Store(w) \in h => Total(w)' <= Total(w)
    /\ Pool \in h => \A w \in Workspaces : Draws(w) => Total(w)' <= Total(w)

(* That is all a step can take from another that leaves the family alone.  *)
LEMMA StorageRespects ==
    ASSUME Rows, UNCHANGED <<family, missed>>, NEW h, LetsBe(h)
    PROVE  Respects(h)
<1>1. member' = member /\ plan' = plan /\ missed' = missed
  BY DEF family
<1>2. \A w : Draws(w)' <=> Draws(w)
  BY <1>1 DEF Draws, Active
<1>3. \A p, w : MayAct(p, w)' <=> MayAct(p, w)
  BY <1>1 DEF MayAct, HoldsWorkspace, Alive, Active
<1>4. Drawing' = Drawing
  BY <1>1 DEF Drawing, Active
<1>5. \A w \in Areas \cup Drawing : w \in Workspaces /\ Draws(w)
  BY PoolAssumption DEF Workspaces, Drawing, Draws
<1> QED
  BY <1>1, <1>2, <1>3, <1>4, <1>5 DEF Respects, LetsBe

(* The rows that a step of files and uploads starts from. *)
LEMMA RowFacts ==
    ASSUME IInv
    PROVE  /\ Rows /\ Exact /\ DataRows /\ CountRows
           /\ member \in [People -> {"out", "accepted", "active", "held", "gone"}]
           /\ plan \in [quota : Nat, live : BOOLEAN]
           /\ used \in [Workspaces -> Int] /\ reserved \in [Workspaces -> Int]
           /\ file \in [Files -> FileRow] /\ up \in [Uploads -> UpRow]
           /\ \A w \in Workspaces : used[w] = BytesAt(w) /\ reserved[w] = ReservedAt(w)
           /\ \A f \in Files : FileOK(f)
           /\ \A u \in Uploads : UploadOK(u)
           /\ \A t \in Txs : TxOK(tx[t]) /\ tx[t] \in TxRow
           /\ \A s \in Txs : tx[s].op = "begin" => tx[s].u \in Uploads /\ up[tx[s].u].st = "asked"
           /\ \A s, t \in Txs : s # t => tx[s].have \cap tx[t].have = {}
<1>1. Rows /\ Exact
  BY DEF IInv
<1>2. CountRows
  BY <1>1, RowsCount
<1> QED
  BY <1>1, <1>2 DEF IInv, Rows, DataRows, Exact, CountersExact, TxOK, BeginOK, Exclusive

(* An upload's reservation is given back.                                  *)
LEMMA GivenBack ==
    ASSUME IInv, NEW u \in Uploads, up[u].st = "open", up' = [up EXCEPT ![u] = Over],
           reserved' = [reserved EXCEPT ![up[u].at] = @ - up[u].res],
           UNCHANGED <<family, used, file, missed>>
    PROVE  /\ Kept
           /\ \A s \in Txs : Ws(up[u].at) \notin tx[s].have => Spares(s)
<1>1. PICK w \in Workspaces : w = up[u].at
  BY RowFacts, UnderFacts
<1>2. PICK n \in Nat : n = up[u].res
  BY RowFacts DEF UpRow
<1>3. /\ member' = member /\ plan' = plan /\ used' = used /\ file' = file /\ missed' = missed
  BY DEF family
<1>4. /\ reserved' \in [Workspaces -> Int] /\ reserved'[w] = reserved[w] - n
      /\ \A v \in Workspaces \ {w} : reserved'[v] = reserved[v]
  BY <1>1, <1>2, RowFacts
<1>5. up' \in [Uploads -> UpRow] /\ up'[u] = Over /\ \A v \in Uploads \ {u} : up'[v] = up[v]
  BY RowFacts, OverFacts
<1>6. Exact'
  <2>1. DataRows /\ DataRows'
    BY <1>3, <1>5, RowFacts DEF DataRows
  <2>2. ASSUME NEW v \in Workspaces PROVE used'[v] = BytesAt(v)' /\ reserved'[v] = ReservedAt(v)'
    <3>1. used[v] = BytesAt(v) /\ reserved[v] = ReservedAt(v)
      BY RowFacts
    <3>2. BytesAt(v)' = BytesAt(v)
      BY <1>3 DEF BytesAt
    <3>3. /\ ReservedAt(v)' = ReservedAt(v) + (IF up'[u].at = v THEN up'[u].res ELSE 0)
                                   - (IF up[u].at = v THEN up[u].res ELSE 0)
          /\ ReservedAt(v) \in Int
      BY <1>5, <2>1, ReservedChange
    <3>4. (IF up'[u].at = v THEN up'[u].res ELSE 0) = 0
      BY <1>5, OverFacts
    <3>5. (IF up[u].at = v THEN up[u].res ELSE 0) = reserved[v] - reserved'[v]
      BY <1>1, <1>2, <1>4, RowFacts
    <3>6. reserved[v] \in Int /\ reserved'[v] \in Int
      BY <1>4, RowFacts
    <3>7. ReservedAt(v)' = ReservedAt(v) + 0 - (reserved[v] - reserved'[v])
      BY <3>3, <3>4, <3>5
    <3> QED
      BY <1>3, <3>1, <3>2, <3>6, <3>7
  <2> QED
    BY <2>2 DEF Exact, CountersExact
<1>7. Settles
  BY <1>3, <1>5, OverFacts DEF Settles
<1>8. \A f \in Files : FileOK(f)'
  BY <1>3, RowFacts DEF FileOK
<1>9. ASSUME NEW x \in Uploads PROVE UploadOK(x)'
  <2>1. CASE x = u
    BY <1>5, <2>1, OverFacts DEF UploadOK
  <2>2. CASE x # u
    BY <1>3, <1>5, <1>7, <2>2, RowFacts, UploadKept
  <2> QED
    BY <2>1, <2>2
<1>10. Kept
  BY <1>3, <1>4, <1>5, <1>6, <1>7, <1>8, <1>9, RowFacts DEF Kept
<1>11. ASSUME NEW s \in Txs, Ws(w) \notin tx[s].have PROVE Spares(s)
  <2>1. \A v \in Workspaces : Total(v)' <= Total(v)
    BY <1>2, <1>3, <1>4, RowFacts DEF Total
  <2>2. LetsBe(tx[s].have)
    BY <1>1, <1>3, <1>5, <1>11, <2>1, OverFacts DEF LetsBe
  <2>3. Respects(tx[s].have)
    BY <1>3, <2>2, RowFacts, StorageRespects
  <2>4. tx[s].op = "begin" => up'[tx[s].u] = up[tx[s].u]
    BY <1>5, RowFacts
  <2> QED
    BY <2>3, <2>4 DEF Spares
<1> QED
  BY <1>1, <1>10, <1>11

(* AbortUpload: nobody is at work in its workspace. *)
LEMMA StepAbortUpload ==
    ASSUME IInv, NEW u \in Uploads, AbortUpload(u)
    PROVE  IInv'
<1>1. /\ up[u].st = "open" /\ Free(Ws(up[u].at)) /\ up' = [up EXCEPT ![u] = Over]
      /\ reserved' = [reserved EXCEPT ![up[u].at] = @ - up[u].res]
      /\ UNCHANGED <<family, used, file, missed>> /\ tx' = tx
  BY DEF AbortUpload, history
<1>2. Kept /\ \A s \in Txs : Ws(up[u].at) \notin tx[s].have => Spares(s)
  BY <1>1, GivenBack
<1>3. \A s \in Txs : Spares(s)
  BY <1>1, <1>2 DEF Free
<1> QED
  BY <1>1, <1>2, <1>3, FreeStep

(* CommitRelease: the completion holds the workspace. *)
LEMMA StepCommitRelease ==
    ASSUME IInv, NEW t \in Txs, CommitRelease(t)
    PROVE  IInv'
<1>1. /\ tx[t].op = "finish" /\ tx[t].want = <<>> /\ tx[t].verdict = "release"
      /\ up' = [up EXCEPT ![tx[t].u] = Over]
      /\ reserved' = [reserved EXCEPT ![up[tx[t].u].at] = @ - up[tx[t].u].res]
      /\ UNCHANGED <<family, used, file, missed>> /\ Ends(t)
  BY DEF CommitRelease, Ready, history
<1>2. PICK u \in Uploads : u = tx[t].u
  BY <1>1, RowFacts DEF TxOK, FinishOK
<1>3. Inside(tx[t])
  BY <1>1, RowFacts DEF TxOK, FinishOK, Entering
<1>4. up[u].st = "open" /\ Ws(up[u].at) \in tx[t].have
  BY <1>2, <1>3 DEF Inside, EndRows
<1>5. Kept /\ \A s \in Txs : Ws(up[u].at) \notin tx[s].have => Spares(s)
  BY <1>1, <1>2, <1>4, GivenBack
<1>6. \A s \in Txs \ {t} : Spares(s)
  BY <1>4, <1>5, RowFacts
<1> QED
  BY <1>1, <1>5, <1>6, CommitStep

(* The row of a purged file. *)
LEMMA PurgedFacts ==
    ASSUME NEW w \in Workspaces \cup {Nothing}
    PROVE  /\ PurgedAt(w) \in FileRow /\ PurgedAt(w).at = w /\ ~PurgedAt(w).there
           /\ PurgedAt(w).bytes = 0 /\ PurgedAt(w).cur = 0 /\ PurgedAt(w).seq = 0
BY DEF PurgedAt, FileRow

(* The row of a file of one version. *)
LEMMA OneVersionFacts ==
    ASSUME NEW f \in Files, NEW w \in Workspaces
    PROVE  /\ OneVersion(f, w) \in FileRow /\ OneVersion(f, w).at = w /\ OneVersion(f, w).there
           /\ OneVersion(f, w).bytes = Size[f] /\ OneVersion(f, w).cur = Size[f]
           /\ Size[f] \in Nat
BY InstanceAssumption DEF OneVersion, FileRow

(* DeleteFile: a file deleted for good gives back its bytes. *)
LEMMA StepDeleteFile ==
    ASSUME IInv, NEW f \in Files, DeleteFile(f)
    PROVE  IInv'
<1>1. /\ file[f].there /\ Free(Ws(file[f].at))
      /\ used' = [used EXCEPT ![file[f].at] = @ - file[f].bytes]
      /\ file' = [file EXCEPT ![f] = PurgedAt(@.at)]
      /\ UNCHANGED <<family, reserved, up, missed>> /\ tx' = tx
  BY DEF DeleteFile, history
<1>2. PICK w \in Workspaces : w = file[f].at
  BY <1>1, RowFacts DEF FileOK
<1>3. PICK n \in Nat : n = file[f].bytes
  BY RowFacts DEF FileRow
<1>4. /\ member' = member /\ plan' = plan /\ reserved' = reserved /\ up' = up /\ missed' = missed
  BY <1>1 DEF family
<1>5. /\ used' \in [Workspaces -> Int] /\ used'[w] = used[w] - n
      /\ \A v \in Workspaces \ {w} : used'[v] = used[v]
  BY <1>1, <1>2, <1>3, RowFacts
<1>6. /\ PurgedAt(w) \in FileRow /\ PurgedAt(w).at = w /\ ~PurgedAt(w).there
      /\ PurgedAt(w).bytes = 0 /\ PurgedAt(w).cur = 0
  BY PurgedFacts
<1>7. /\ file' \in [Files -> FileRow] /\ file'[f] = PurgedAt(w)
      /\ \A e \in Files \ {f} : file'[e] = file[e]
  <2>1. file' = [file EXCEPT ![f] = PurgedAt(w)]
    BY <1>1, <1>2, RowFacts
  <2> HIDE DEF PurgedAt
  <2> QED
    BY <1>6, <2>1, RowFacts
<1>8. Exact'
  <2>1. DataRows /\ DataRows' /\ FilesBut({f})
    BY <1>4, <1>7, RowFacts DEF DataRows, FilesBut
  <2>2. ASSUME NEW v \in Workspaces PROVE used'[v] = BytesAt(v)' /\ reserved'[v] = ReservedAt(v)'
    <3>1. used[v] = BytesAt(v) /\ reserved[v] = ReservedAt(v)
      BY RowFacts
    <3>2. ReservedAt(v)' = ReservedAt(v)
      BY <1>4 DEF ReservedAt
    <3>3. /\ BytesAt(v)' = BytesAt(v) + (IF file'[f].at = v THEN file'[f].bytes ELSE 0)
                               - (IF file[f].at = v THEN file[f].bytes ELSE 0)
          /\ BytesAt(v) \in Int
      BY <2>1, BytesChange
    <3>4. (IF file'[f].at = v THEN file'[f].bytes ELSE 0) = 0
      BY <1>6, <1>7
    <3>5. (IF file[f].at = v THEN file[f].bytes ELSE 0) = used[v] - used'[v]
      BY <1>2, <1>3, <1>5, RowFacts
    <3>6. used[v] \in Int /\ used'[v] \in Int
      BY <1>5, RowFacts
    <3>7. BytesAt(v)' = BytesAt(v) + 0 - (used[v] - used'[v])
      BY <3>3, <3>4, <3>5
    <3> QED
      BY <1>4, <3>1, <3>2, <3>6, <3>7
  <2> QED
    BY <2>2 DEF Exact, CountersExact
<1>9. Settles
  BY <1>2, <1>4, <1>6, <1>7 DEF Settles
<1>10. ASSUME NEW e \in Files PROVE FileOK(e)'
  <2>1. CASE e = f
    BY <1>6, <1>7, <2>1 DEF FileOK
  <2>2. CASE e # f
    BY <1>7, <2>2, RowFacts DEF FileOK
  <2> QED
    BY <2>1, <2>2
<1>11. ASSUME NEW x \in Uploads PROVE UploadOK(x)'
  <2>1. UploadOK(x) /\ Rows
    BY RowFacts
  <2>2. file'[x] = file[x] \/ up[x].st = "over"
    <3>1. x \in Files
      BY DEF Files
    <3>2. up[x].st \in {"none", "asked", "open"} => x # f
      BY <1>1, <2>1 DEF UploadOK
    <3> QED
      BY <1>7, <3>1, <3>2, RowFacts DEF UpRow
  <2> QED
    BY <1>4, <1>9, <2>1, <2>2, UploadKept
<1>12. Kept
  BY <1>4, <1>5, <1>7, <1>8, <1>9, <1>10, <1>11, RowFacts DEF Kept
<1>13. ASSUME NEW s \in Txs PROVE Spares(s)
  <2>1. \A v \in Workspaces : Total(v)' <= Total(v)
    BY <1>3, <1>4, <1>5, RowFacts DEF Total
  <2>2. Ws(w) \notin tx[s].have
    BY <1>1, <1>2 DEF Free
  <2>3. LetsBe(tx[s].have)
    BY <1>2, <1>4, <1>7, <2>1, <2>2 DEF LetsBe
  <2>4. Respects(tx[s].have)
    BY <1>4, <2>3, RowFacts, StorageRespects DEF family
  <2> QED
    BY <1>4, <2>4 DEF Spares
<1> QED
  BY <1>1, <1>12, <1>13, FreeStep

(* What a begin that is about to reserve holds and has established. *)
LEMMA ReserveFacts ==
    ASSUME IInv, NEW t \in Txs, Ready(t, "begin", "reserve")
    PROVE  \E u \in Uploads, w \in Workspaces, n \in Nat :
               /\ u = tx[t].u /\ w = up[u].at /\ n = tx[t].cost /\ up[u].st = "asked" /\ Under(u)
               /\ file[u].at = Nothing /\ ~file[u].there /\ up[u].res = 0
               /\ MayAct(up[u].by, w) /\ OwnEnd(u) /\ Affords(w, n)
               /\ {Ws(w), Store(w)} \subseteq tx[t].have /\ (Draws(w) => Pool \in tx[t].have)
               /\ n <= Size[u] /\ Size[u] <= n + up[u].freed
               /\ up[u].kind # "move" => n = Size[u]
<1>1. tx[t].op = "begin" /\ tx[t].verdict = "reserve" /\ BeginOK(tx[t])
  BY RowFacts DEF Ready, TxOK
<1>2. PICK u \in Uploads : u = tx[t].u
  BY <1>1 DEF BeginOK
<1>3. up[u].st = "asked" /\ UploadOK(u)
  BY <1>1, <1>2, RowFacts DEF BeginOK
<1>4. PICK w \in Workspaces : w = up[u].at
  BY <1>3, RowFacts, UnderFacts
<1>5. PICK n \in Nat : n = tx[t].cost
  BY RowFacts DEF TxRow
<1>6. /\ MayAct(up[u].by, w) /\ OwnEnd(u) /\ Affords(w, n)
      /\ {Ws(w), Store(w)} \subseteq tx[t].have /\ (Draws(w) => Pool \in tx[t].have)
      /\ n <= Size[u] /\ Size[u] <= n + up[u].freed
  BY <1>1, <1>2, <1>4, <1>5 DEF BeginOK
<1>7. Under(u) /\ file[u].at = Nothing /\ ~file[u].there /\ up[u].res = 0
  BY <1>3 DEF UploadOK
<1>8. up[u].kind # "move" => n = Size[u]
  <2>1. up[u].kind # "move" => up[u].freed = 0
    BY <1>7 DEF Under
  <2>2. Size[u] \in Nat
    BY InstanceAssumption DEF Files
  <2> QED
    BY <1>6, <2>1, <2>2
<1> QED
  BY <1>2, <1>3, <1>4, <1>5, <1>6, <1>7, <1>8

(* CommitBegin: the reservation, or the copy. *)
LEMMA StepCommitBegin ==
    ASSUME IInv, NEW t \in Txs, CommitBegin(t)
    PROVE  IInv'
<1>1. PICK u \in Uploads, w \in Workspaces, n \in Nat :
               /\ u = tx[t].u /\ w = up[u].at /\ n = tx[t].cost /\ up[u].st = "asked" /\ Under(u)
               /\ file[u].at = Nothing /\ ~file[u].there /\ up[u].res = 0
               /\ MayAct(up[u].by, w) /\ OwnEnd(u) /\ Affords(w, n)
               /\ {Ws(w), Store(w)} \subseteq tx[t].have /\ (Draws(w) => Pool \in tx[t].have)
               /\ n <= Size[u] /\ Size[u] <= n + up[u].freed
               /\ up[u].kind # "move" => n = Size[u]
  BY ReserveFacts DEF CommitBegin
<1>2. /\ Ends(t) /\ UNCHANGED <<family, missed>>
      /\ IF up[u].kind = "copy"
         THEN /\ used' = [used EXCEPT ![w] = @ + n]
              /\ up' = [up EXCEPT ![u] = Over]
              /\ file' = [file EXCEPT ![u] = OneVersion(u, w)]
              /\ UNCHANGED reserved
         ELSE /\ reserved' = [reserved EXCEPT ![w] = @ + n]
              /\ up' = [up EXCEPT ![u].st = "open", ![u].res = n]
              /\ UNCHANGED <<used, file>>
  BY <1>1 DEF CommitBegin, history
<1>3. member' = member /\ plan' = plan /\ missed' = missed
  BY <1>2 DEF family
<1>4. u \in Files /\ Nothing \notin Workspaces
  BY InstanceAssumption DEF Files
<1>5. ASSUME NEW s \in Txs \ {t}
      PROVE  /\ Ws(w) \notin tx[s].have /\ Store(w) \notin tx[s].have
             /\ Pool \in tx[s].have => ~Draws(w)
             /\ tx[s].op = "begin" => tx[s].u # u
  BY <1>1, <1>2, RowFacts DEF IInv, AskedOnce, CommitBegin, Ready
<1>6. CASE up[u].kind = "copy"
  <2>1. /\ used' \in [Workspaces -> Int] /\ used'[w] = used[w] + n
        /\ \A v \in Workspaces \ {w} : used'[v] = used[v]
        /\ reserved' = reserved
    BY <1>2, <1>6, RowFacts
  <2>2. up' \in [Uploads -> UpRow] /\ up'[u] = Over /\ \A v \in Uploads \ {u} : up'[v] = up[v]
    BY <1>2, <1>6, RowFacts, OverFacts
  <2>3. /\ OneVersion(u, w) \in FileRow /\ OneVersion(u, w).at = w /\ OneVersion(u, w).there
        /\ OneVersion(u, w).bytes = n /\ OneVersion(u, w).cur = n
    BY <1>1, <1>4, <1>6, OneVersionFacts
  <2>4. /\ file' \in [Files -> FileRow] /\ file'[u] = OneVersion(u, w)
        /\ \A e \in Files \ {u} : file'[e] = file[e]
    <3> HIDE DEF OneVersion
    <3> QED
      BY <1>2, <1>4, <1>6, <2>3, RowFacts
  <2>5. Exact'
    <3>1. DataRows /\ DataRows' /\ FilesBut({u})
      BY <2>2, <2>4, RowFacts DEF DataRows, FilesBut
    <3>2. ASSUME NEW v \in Workspaces PROVE used'[v] = BytesAt(v)' /\ reserved'[v] = ReservedAt(v)'
      <4>1. used[v] = BytesAt(v) /\ reserved[v] = ReservedAt(v)
        BY RowFacts
      <4>2. /\ BytesAt(v)' = BytesAt(v) + (IF file'[u].at = v THEN file'[u].bytes ELSE 0)
                                 - (IF file[u].at = v THEN file[u].bytes ELSE 0)
            /\ BytesAt(v) \in Int
        BY <1>4, <3>1, BytesChange
      <4>3. /\ ReservedAt(v)' = ReservedAt(v) + (IF up'[u].at = v THEN up'[u].res ELSE 0)
                                     - (IF up[u].at = v THEN up[u].res ELSE 0)
            /\ ReservedAt(v) \in Int
        BY <2>2, <3>1, ReservedChange
      <4>4. /\ (IF file[u].at = v THEN file[u].bytes ELSE 0) = 0
            /\ (IF up'[u].at = v THEN up'[u].res ELSE 0) = 0
            /\ (IF up[u].at = v THEN up[u].res ELSE 0) = 0
        BY <1>1, <1>4, <2>2, OverFacts
      <4>5. (IF file'[u].at = v THEN file'[u].bytes ELSE 0) = used'[v] - used[v]
        BY <2>1, <2>3, <2>4, RowFacts
      <4>6. used[v] \in Int /\ used'[v] \in Int
        BY <2>1, RowFacts
      <4>7. BytesAt(v)' = BytesAt(v) + (used'[v] - used[v]) - 0 /\ ReservedAt(v)' = ReservedAt(v) + 0 - 0
        BY <4>2, <4>3, <4>4, <4>5
      <4> QED
        BY <2>1, <4>1, <4>2, <4>3, <4>6, <4>7
    <3> QED
      BY <3>2 DEF Exact, CountersExact
  <2>6. Settles
    BY <1>1, <1>4, <2>2, <2>4, OverFacts DEF Settles
  <2>7. ASSUME NEW e \in Files PROVE FileOK(e)'
    <3>1. CASE e = u
      BY <2>3, <2>4, <3>1 DEF FileOK
    <3>2. CASE e # u
      BY <2>4, <3>2, RowFacts DEF FileOK
    <3> QED
      BY <3>1, <3>2
  <2>8. ASSUME NEW x \in Uploads PROVE UploadOK(x)'
    <3>1. CASE x = u
      BY <2>2, <3>1, OverFacts DEF UploadOK
    <3>2. CASE x # u
      <4>1. up'[x] = up[x] /\ file'[x] = file[x]
        BY <2>2, <2>4, <3>2 DEF Files
      <4> QED
        BY <2>6, <4>1, RowFacts, UploadKept
    <3> QED
      BY <3>1, <3>2
  <2>9. Kept
    BY <1>3, <2>1, <2>2, <2>4, <2>5, <2>6, <2>7, <2>8, RowFacts DEF Kept
  <2>10. ASSUME NEW s \in Txs \ {t} PROVE Spares(s)
    <3>1. \A v \in Workspaces \ {w} : Total(v)' <= Total(v)
      BY <2>1, RowFacts DEF Total
    <3>2. \A v \in Uploads : up'[v].st = "open" => up'[v] = up[v]
      BY <2>2, OverFacts
    <3>3. \A e \in Files : file[e].at \in Workspaces => file'[e] = file[e]
      BY <1>1, <1>4, <2>4
    <3>4. \A v \in Uploads : up[v].st = "open" => up'[v] = up[v]
      BY <1>1, <2>2
    <3>5. LetsBe(tx[s].have)
      BY <1>5, <3>1, <3>2, <3>3, <3>4 DEF LetsBe
    <3>6. Respects(tx[s].have)
      BY <1>2, <3>5, RowFacts, StorageRespects
    <3> QED
      BY <1>5, <2>2, <3>6, RowFacts DEF Spares
  <2> QED
    BY <1>2, <2>9, <2>10, CommitStep
<1>7. CASE up[u].kind # "copy"
  <2>1. /\ reserved' \in [Workspaces -> Int] /\ reserved'[w] = reserved[w] + n
        /\ \A v \in Workspaces \ {w} : reserved'[v] = reserved[v]
        /\ used' = used /\ file' = file
    BY <1>2, <1>7, RowFacts
  <2>2. PICK r \in UpRow : r = [up[u] EXCEPT !.st = "open", !.res = n]
    <3>1. up[u] \in UpRow
      BY RowFacts
    <3> QED
      BY <3>1 DEF UpRow
  <2>3. /\ r.st = "open" /\ r.res = n /\ r.at = w /\ r.kind = up[u].kind /\ r.of = up[u].of
        /\ r.by = up[u].by /\ r.seq = up[u].seq /\ r.freed = up[u].freed
    <3>1. up[u] \in UpRow
      BY RowFacts
    <3>2. /\ r.st = "open" /\ r.res = n /\ r.at = up[u].at /\ r.kind = up[u].kind /\ r.of = up[u].of
          /\ r.by = up[u].by /\ r.seq = up[u].seq /\ r.freed = up[u].freed
      BY <2>2, <3>1 DEF UpRow
    <3> QED
      BY <1>1, <3>2
  <2>4. up' \in [Uploads -> UpRow] /\ up'[u] = r /\ \A v \in Uploads \ {u} : up'[v] = up[v]
    BY <1>2, <1>7, <2>2, RowFacts
  <2>5. Exact'
    <3>1. DataRows /\ DataRows'
      BY <2>1, <2>4, RowFacts DEF DataRows
    <3>2. ASSUME NEW v \in Workspaces PROVE used'[v] = BytesAt(v)' /\ reserved'[v] = ReservedAt(v)'
      <4>1. used[v] = BytesAt(v) /\ reserved[v] = ReservedAt(v)
        BY RowFacts
      <4>2. BytesAt(v)' = BytesAt(v)
        BY <2>1 DEF BytesAt
      <4>3. /\ ReservedAt(v)' = ReservedAt(v) + (IF up'[u].at = v THEN up'[u].res ELSE 0)
                                     - (IF up[u].at = v THEN up[u].res ELSE 0)
            /\ ReservedAt(v) \in Int
        BY <2>4, <3>1, ReservedChange
      <4>4. (IF up[u].at = v THEN up[u].res ELSE 0) = 0
        BY <1>1
      <4>5. (IF up'[u].at = v THEN up'[u].res ELSE 0) = reserved'[v] - reserved[v]
        BY <2>1, <2>3, <2>4, RowFacts
      <4>6. reserved[v] \in Int /\ reserved'[v] \in Int
        BY <2>1, RowFacts
      <4>7. ReservedAt(v)' = ReservedAt(v) + (reserved'[v] - reserved[v]) - 0
        BY <4>3, <4>4, <4>5
      <4>8. reserved'[v] = ReservedAt(v)'
        BY <4>1, <4>6, <4>7
      <4>9. used'[v] = BytesAt(v)'
        BY <2>1, <4>1, <4>2
      <4> QED
        BY <4>8, <4>9
    <3> QED
      BY <3>2 DEF Exact, CountersExact
  <2>6. Settles
    BY <1>1, <2>1, <2>4 DEF Settles
  <2>7. \A e \in Files : FileOK(e)'
    BY <2>1, RowFacts DEF FileOK
  <2>8. ASSUME NEW x \in Uploads PROVE UploadOK(x)'
    <3>1. CASE x = u
      <4>1. Under(u)'
        <5>1. /\ up'[u].at = up[u].at /\ up'[u].kind = up[u].kind /\ up'[u].of = up[u].of
              /\ up'[u].by = up[u].by /\ up'[u].freed = up[u].freed /\ file' = file
          BY <1>1, <2>1, <2>3, <2>4
        <5> QED
          BY <1>1, <5>1 DEF Under
      <4>2. OwnEnd(u)'
        BY <1>1, <2>1, <2>3, <2>4 DEF OwnEnd, IsMove, Source
      <4> QED
        BY <1>1, <1>7, <2>1, <2>3, <2>4, <3>1, <4>1, <4>2 DEF UploadOK
    <3>2. CASE x # u
      BY <2>1, <2>4, <2>6, <3>2, RowFacts, UploadKept
    <3> QED
      BY <3>1, <3>2
  <2>9. Kept
    BY <1>3, <2>1, <2>4, <2>5, <2>6, <2>7, <2>8, RowFacts DEF Kept
  <2>10. ASSUME NEW s \in Txs \ {t} PROVE Spares(s)
    <3>1. \A v \in Workspaces \ {w} : Total(v)' <= Total(v)
      BY <2>1, RowFacts DEF Total
    <3>2. up[u].kind = "version" => file[up[u].of].at = w
      BY <1>1, RowFacts, UnderFacts
    <3>3. \A e \in Files, v \in Uploads :
             /\ Ws(file[e].at) \in tx[s].have
             /\ up'[v].st = "open" /\ up'[v].kind = "version" /\ up'[v].of = e
             => up[v].st = "open" /\ up[v].kind = "version" /\ up[v].of = e
      BY <1>5, <2>3, <2>4, <3>2
    <3>4. \A v \in Uploads : up[v].st = "open" => up'[v] = up[v]
      BY <1>1, <2>4
    <3>5. LetsBe(tx[s].have)
      BY <1>5, <2>1, <3>1, <3>3, <3>4 DEF LetsBe
    <3>6. Respects(tx[s].have)
      BY <1>2, <3>5, RowFacts, StorageRespects
    <3> QED
      BY <1>5, <2>4, <3>6, RowFacts DEF Spares
  <2> QED
    BY <1>2, <2>9, <2>10, CommitStep
<1> QED
  BY <1>6, <1>7

(* What a completion that is about to publish holds and has established. *)
LEMMA PublishFacts ==
    ASSUME IInv, NEW t \in Txs, Ready(t, "finish", "publish")
    PROVE  \E u \in Uploads, w \in Workspaces, n \in Nat :
               /\ u = tx[t].u /\ w = up[u].at /\ n = up[u].res /\ up[u].st = "open" /\ Under(u)
               /\ file[u].at = Nothing /\ ~file[u].there /\ OwnEnd(u) /\ MoverMay(u)
               /\ up[u].kind \in {"new", "version", "move"}
               /\ {Ws(w), Store(w)} \subseteq tx[t].have
               /\ n <= Size[u] /\ Size[u] <= n + up[u].freed
               /\ up[u].kind # "move" => n = Size[u]
               /\ up[u].kind = "version" => up[u].of \in Files /\ file[up[u].of].there /\ file[up[u].of].at = w
               /\ IsMove(u) => /\ SourceAsBegun(u) /\ up[u].of \in Files
                               /\ Source(u) \in Workspaces /\ Source(u) # w
                               /\ {Ws(Source(u)), Store(Source(u))} \subseteq tx[t].have
               /\ IsMove(u) /\ Lean(u) => Pool \in tx[t].have /\ Draws(w) /\ Draws(Source(u))
               /\ tx[t].writer => MayAct(up[u].by, w)
<1>1. tx[t].op = "finish" /\ tx[t].verdict = "publish" /\ tx[t].want = <<>> /\ TxOK(tx[t])
  BY RowFacts DEF Ready
<1>2. PICK u \in Uploads : u = tx[t].u
  BY <1>1 DEF TxOK, FinishOK
<1>3. Inside(tx[t])
  BY <1>1 DEF TxOK, FinishOK, Entering
<1>4. up[u].st = "open" /\ UploadOK(u)
  BY <1>2, <1>3, RowFacts DEF Inside
<1>5. PICK w \in Workspaces : w = up[u].at
  BY <1>4, RowFacts, UnderFacts
<1>6. PICK n \in Nat : n = up[u].res
  BY RowFacts DEF UpRow
<1>7. Wanted(tx[t]) = {}
  BY <1>1 DEF Wanted
<1>8. /\ EndRows(u) \subseteq tx[t].have /\ MoverMay(u) /\ StoreRows(u) \subseteq tx[t].have
      /\ up[u].kind = "version" => file[up[u].of].there
      /\ IsMove(u) => SourceAsBegun(u)
      /\ IsMove(u) /\ Lean(u) => Pool \in tx[t].have /\ Draws(w) /\ Draws(Source(u))
      /\ tx[t].writer => MayAct(up[u].by, w)
  BY <1>1, <1>2, <1>3, <1>5, <1>7 DEF Inside, Mine
<1>9. /\ Under(u) /\ file[u].at = Nothing /\ ~file[u].there /\ up[u].kind # "copy"
      /\ n <= Size[u] /\ Size[u] <= n + up[u].freed /\ OwnEnd(u)
  BY <1>4, <1>6 DEF UploadOK
<1>10. up[u].kind # "move" => n = Size[u]
  <2>1. up[u].kind # "move" => up[u].freed = 0
    BY <1>9 DEF Under
  <2>2. Size[u] \in Nat
    BY InstanceAssumption DEF Files
  <2> QED
    BY <1>9, <2>1, <2>2
<1>11. /\ up[u].kind = "version" => up[u].of \in Files /\ file[up[u].of].at = w
       /\ IsMove(u) => up[u].of \in Files /\ Source(u) \in Workspaces /\ Source(u) # w
       /\ up[u].kind \in {"new", "version", "move"}
  BY <1>4, <1>5, <1>9, RowFacts, UnderFacts DEF UpRow
<1>12. /\ {Ws(w), Store(w)} \subseteq tx[t].have
       /\ IsMove(u) => {Ws(Source(u)), Store(Source(u))} \subseteq tx[t].have
  BY <1>5, <1>8 DEF EndRows, StoreRows
<1> QED
  BY <1>2, <1>4, <1>5, <1>6, <1>8, <1>9, <1>10, <1>11, <1>12

(* The reservation of an upload that is over is gone. *)
LEMMA ReservedOver ==
    ASSUME IInv, DataRows', NEW u \in Uploads, NEW w \in Workspaces, NEW n \in Nat,
           w = up[u].at, n = up[u].res, up' = [up EXCEPT ![u] = Over],
           reserved' = [reserved EXCEPT ![w] = @ - n]
    PROVE  /\ \A v \in Workspaces : reserved'[v] = ReservedAt(v)'
           /\ reserved' \in [Workspaces -> Int]
<1>1. /\ reserved' \in [Workspaces -> Int] /\ reserved'[w] = reserved[w] - n
      /\ \A v \in Workspaces \ {w} : reserved'[v] = reserved[v]
  BY RowFacts
<1>2. up'[u] = Over /\ \A v \in Uploads \ {u} : up'[v] = up[v]
  BY RowFacts
<1>3. ASSUME NEW v \in Workspaces PROVE reserved'[v] = ReservedAt(v)'
  <2>1. reserved[v] = ReservedAt(v) /\ DataRows
    BY RowFacts
  <2>2. /\ ReservedAt(v)' = ReservedAt(v) + (IF up'[u].at = v THEN up'[u].res ELSE 0)
                                 - (IF up[u].at = v THEN up[u].res ELSE 0)
        /\ ReservedAt(v) \in Int
    BY <1>2, <2>1, ReservedChange
  <2>3. (IF up'[u].at = v THEN up'[u].res ELSE 0) = 0
    BY <1>2, OverFacts
  <2>4. (IF up[u].at = v THEN up[u].res ELSE 0) = reserved[v] - reserved'[v]
    BY <1>1, RowFacts
  <2>5. reserved[v] \in Int /\ reserved'[v] \in Int
    BY <1>1, RowFacts
  <2>6. ReservedAt(v)' = ReservedAt(v) + 0 - (reserved[v] - reserved'[v])
    BY <2>2, <2>3, <2>4
  <2> QED
    BY <2>1, <2>2, <2>5, <2>6
<1> QED
  BY <1>1, <1>3

(* An upload lands: what its completion writes.                            *)
Lands(t, u, w, n, node, row, added) ==
    /\ up' = [up EXCEPT ![u] = Over] /\ reserved' = [reserved EXCEPT ![w] = @ - n]
    /\ file' = [file EXCEPT ![node] = row] /\ used' = [used EXCEPT ![w] = @ + added]
    /\ UNCHANGED <<family, missed>> /\ Ends(t)

(* A new file or a new version, in the upload's workspace. *)
LEMMA LandsInPlace ==
    ASSUME IInv, NEW t \in Txs, NEW u \in Uploads, NEW w \in Workspaces, NEW n \in Nat,
           NEW node \in Files, NEW row \in FileRow, NEW added \in Int,
           Lands(t, u, w, n, node, row, added),
           w = up[u].at, n = up[u].res, up[u].st = "open",
           {Ws(w), Store(w)} \subseteq tx[t].have,
           node = u \/ file[node].there, file[node].at \in {w, Nothing},
           row.at = w, row.there, row.cur <= row.bytes, added <= n,
           added = row.bytes - (IF file[node].at = w THEN file[node].bytes ELSE 0)
    PROVE  IInv'
<1>1. /\ up' = [up EXCEPT ![u] = Over] /\ reserved' = [reserved EXCEPT ![w] = @ - n]
      /\ file' = [file EXCEPT ![node] = row] /\ used' = [used EXCEPT ![w] = @ + added]
      /\ UNCHANGED <<family, missed>> /\ Ends(t)
  BY DEF Lands
<1>2. member' = member /\ plan' = plan /\ missed' = missed
  BY <1>1 DEF family
<1>3. /\ used' \in [Workspaces -> Int] /\ used'[w] = used[w] + added
      /\ \A v \in Workspaces \ {w} : used'[v] = used[v]
  BY <1>1, RowFacts
<1>4. up' \in [Uploads -> UpRow] /\ up'[u] = Over /\ \A v \in Uploads \ {u} : up'[v] = up[v]
  BY <1>1, RowFacts, OverFacts
<1>5. /\ file' \in [Files -> FileRow] /\ file'[node] = row
      /\ \A e \in Files \ {node} : file'[e] = file[e]
  BY <1>1, RowFacts
<1>6. DataRows' /\ DataRows /\ FilesBut({node})
  BY <1>4, <1>5, RowFacts DEF DataRows, FilesBut
<1>7. /\ \A v \in Workspaces : reserved'[v] = ReservedAt(v)'
      /\ reserved' \in [Workspaces -> Int]
  BY <1>1, <1>6, ReservedOver
<1>8. Nothing \notin Workspaces
  BY InstanceAssumption
<1>9. Exact'
  <2>1. ASSUME NEW v \in Workspaces PROVE used'[v] = BytesAt(v)'
    <3>1. used[v] = BytesAt(v)
      BY RowFacts
    <3>2. /\ BytesAt(v)' = BytesAt(v) + (IF file'[node].at = v THEN file'[node].bytes ELSE 0)
                               - (IF file[node].at = v THEN file[node].bytes ELSE 0)
          /\ BytesAt(v) \in Int
      BY <1>6, BytesChange
    <3>3. PICK b \in Nat : b = file[node].bytes
      BY RowFacts DEF FileRow
    <3>4. row.bytes \in Nat
      BY DEF FileRow
    <3>5. CASE v = w
      <4>1. (IF file'[node].at = v THEN file'[node].bytes ELSE 0) = row.bytes
        BY <1>5, <3>5
      <4>2. BytesAt(v)' = BytesAt(v) + row.bytes - (IF file[node].at = w THEN b ELSE 0)
        BY <3>2, <3>3, <3>5, <4>1
      <4>3. CASE file[node].at = w
        <5>1. added = row.bytes - b /\ BytesAt(v)' = BytesAt(v) + row.bytes - b
          BY <3>3, <4>2, <4>3
        <5> QED
          BY <1>3, <3>1, <3>2, <3>4, <3>5, <5>1
      <4>4. CASE file[node].at # w
        <5>1. added = row.bytes - 0 /\ BytesAt(v)' = BytesAt(v) + row.bytes - 0
          BY <4>2, <4>4
        <5> QED
          BY <1>3, <3>1, <3>2, <3>4, <3>5, <5>1
      <4> QED
        BY <4>3, <4>4
    <3>6. CASE v # w
      <4>1. /\ (IF file'[node].at = v THEN file'[node].bytes ELSE 0) = 0
            /\ (IF file[node].at = v THEN file[node].bytes ELSE 0) = 0
        BY <1>5, <1>8, <3>6
      <4>2. BytesAt(v)' = BytesAt(v) + 0 - 0
        BY <3>2, <4>1
      <4> QED
        BY <1>3, <3>1, <3>2, <3>6, <4>2
    <3> QED
      BY <3>5, <3>6
  <2> QED
    BY <1>7, <2>1 DEF Exact, CountersExact
<1>10. Settles
  BY <1>4, <1>5, <1>8, OverFacts DEF Settles
<1>11. ASSUME NEW e \in Files PROVE FileOK(e)'
  <2>1. CASE e = node
    BY <1>5, <2>1 DEF FileOK
  <2>2. CASE e # node
    BY <1>5, <2>2, RowFacts DEF FileOK
  <2> QED
    BY <2>1, <2>2
<1>12. ASSUME NEW x \in Uploads PROVE UploadOK(x)'
  <2>1. CASE x = u
    BY <1>4, <2>1, OverFacts DEF UploadOK
  <2>2. CASE x # u
    <3>1. x \in Files /\ UploadOK(x) /\ Rows
      BY RowFacts DEF Files
    <3>2. file'[x] = file[x] \/ up[x].st = "over"
      <4>1. up[x].st \in {"none", "asked", "open"} => x # node
        BY <2>2, <3>1 DEF UploadOK
      <4> QED
        BY <1>5, <3>1, <4>1, RowFacts DEF UpRow
    <3> QED
      BY <1>4, <1>10, <2>2, <3>1, <3>2, UploadKept
  <2> QED
    BY <2>1, <2>2
<1>13. Kept
  BY <1>2, <1>3, <1>4, <1>5, <1>7, <1>9, <1>10, <1>11, <1>12, RowFacts DEF Kept
<1>14. ASSUME NEW s \in Txs \ {t} PROVE Spares(s)
  <2>1. Ws(w) \notin tx[s].have
    BY RowFacts
  <2>2. \A v \in Workspaces : Total(v)' <= Total(v)
    <3>1. \A v \in Workspaces \ {w} : reserved'[v] = reserved[v] /\ reserved'[w] = reserved[w] - n
      BY <1>1, RowFacts
    <3>2. reserved'[w] = reserved[w] - n
      BY <1>1, RowFacts
    <3> QED
      BY <1>3, <3>1, <3>2, RowFacts DEF Total
  <2>3. \A v \in Uploads : up'[v].st = "open" => up'[v] = up[v]
    BY <1>4, OverFacts
  <2>4. \A e \in Files : file[e].at \in Workspaces /\ Ws(file[e].at) \in tx[s].have => file'[e] = file[e]
    BY <1>5, <1>8, <2>1
  <2>5. \A v \in Uploads : up[v].st = "open" /\ Ws(up[v].at) \in tx[s].have => up'[v] = up[v]
    BY <1>4, <2>1
  <2>6. LetsBe(tx[s].have)
    BY <2>2, <2>3, <2>4, <2>5 DEF LetsBe
  <2>7. Respects(tx[s].have)
    BY <1>1, <2>6, RowFacts, StorageRespects
  <2>8. tx[s].op = "begin" => up'[tx[s].u] = up[tx[s].u]
    BY <1>4, RowFacts
  <2> QED
    BY <2>7, <2>8 DEF Spares
<1> QED
  BY <1>1, <1>13, <1>14, CommitStep

(* A move: the copy in the upload's workspace, and its source goes. *)
Moves(t, u, w, n, e, source, freed) ==
    /\ up' = [up EXCEPT ![u] = Over] /\ reserved' = [reserved EXCEPT ![w] = @ - n]
    /\ file' = [[file EXCEPT ![u] = OneVersion(u, w)] EXCEPT ![e] = PurgedAt(source)]
    /\ used' = [used EXCEPT ![w] = @ + Size[u], ![source] = @ - freed]
    /\ UNCHANGED <<family, missed>> /\ Ends(t)

(* It spares those who hold neither end, nor the pool if its copy takes    *)
(* more than was reserved.                                                 *)
LEMMA LandsMove ==
    ASSUME IInv, NEW t \in Txs, NEW u \in Uploads, NEW w \in Workspaces, NEW n \in Nat,
           NEW e \in Files, NEW source \in Workspaces, NEW freed \in Nat,
           Moves(t, u, w, n, e, source, freed),
           w = up[u].at, n = up[u].res, up[u].st = "open", file[u].at = Nothing,
           source = file[e].at, freed = file[e].bytes, source # w, file[e].there,
           {Ws(w), Store(w), Ws(source), Store(source)} \subseteq tx[t].have,
           n = Size[u] \/ Pool \in tx[t].have
    PROVE  IInv'
<1>1. /\ up' = [up EXCEPT ![u] = Over] /\ reserved' = [reserved EXCEPT ![w] = @ - n]
      /\ file' = [[file EXCEPT ![u] = OneVersion(u, w)] EXCEPT ![e] = PurgedAt(source)]
      /\ used' = [used EXCEPT ![w] = @ + Size[u], ![source] = @ - freed]
      /\ UNCHANGED <<family, missed>> /\ Ends(t)
  BY DEF Moves
<1>2. member' = member /\ plan' = plan /\ missed' = missed
  BY <1>1 DEF family
<1>3. u \in Files /\ Size[u] \in Nat /\ Nothing \notin Workspaces /\ u # e
  BY InstanceAssumption DEF Files
<1>4. /\ used' \in [Workspaces -> Int] /\ used'[w] = used[w] + Size[u]
      /\ used'[source] = used[source] - freed
      /\ \A v \in Workspaces \ {w, source} : used'[v] = used[v]
  <2>1. PICK m \in [Workspaces -> Int] : m = [used EXCEPT ![w] = @ + Size[u]]
    <3>1. used \in [Workspaces -> Int] /\ used[w] + Size[u] \in Int
      BY <1>3, RowFacts
    <3> QED
      BY <3>1
  <2>2. /\ m[w] = used[w] + Size[u] /\ m[source] = used[source]
        /\ \A v \in Workspaces \ {w} : m[v] = used[v]
    BY <2>1, RowFacts
  <2>3. used' = [m EXCEPT ![source] = @ - freed]
    BY <1>1, <2>1
  <2> QED
    BY <2>2, <2>3
<1>5. up' \in [Uploads -> UpRow] /\ up'[u] = Over /\ \A v \in Uploads \ {u} : up'[v] = up[v]
  BY <1>1, RowFacts, OverFacts
<1>6. PICK one \in FileRow : /\ one = OneVersion(u, w) /\ one.at = w /\ one.there /\ one.bytes = Size[u]
                             /\ one.cur = Size[u]
  BY <1>3, OneVersionFacts
<1>7. PICK gone \in FileRow : gone = PurgedAt(source) /\ gone.at = source /\ ~gone.there /\ gone.bytes = 0
                              /\ gone.cur = 0
  BY PurgedFacts
<1>8. /\ file' \in [Files -> FileRow] /\ file'[u] = one /\ file'[e] = gone
      /\ \A x \in Files \ {u, e} : file'[x] = file[x]
  <2>1. PICK m \in [Files -> FileRow] : m = [file EXCEPT ![u] = one]
    BY <1>3, RowFacts
  <2>2. m[u] = one /\ \A x \in Files \ {u} : m[x] = file[x]
    BY <1>3, <2>1, RowFacts
  <2>3. file' = [m EXCEPT ![e] = gone]
    BY <1>1, <1>6, <1>7, <2>1
  <2> QED
    BY <1>3, <2>2, <2>3
<1>9. DataRows' /\ DataRows /\ FilesBut({u, e})
  BY <1>5, <1>8, RowFacts DEF DataRows, FilesBut
<1>10. /\ \A v \in Workspaces : reserved'[v] = ReservedAt(v)'
      /\ reserved' \in [Workspaces -> Int]
  BY <1>1, <1>9, ReservedOver
<1>11. Exact'
  <2>1. ASSUME NEW v \in Workspaces PROVE used'[v] = BytesAt(v)'
    <3>1. used[v] = BytesAt(v)
      BY RowFacts
    <3>2. /\ BytesAt(v)' = BytesAt(v) + (IF file'[u].at = v THEN file'[u].bytes ELSE 0)
                               - (IF file[u].at = v THEN file[u].bytes ELSE 0)
                               + (IF file'[e].at = v THEN file'[e].bytes ELSE 0)
                               - (IF file[e].at = v THEN file[e].bytes ELSE 0)
          /\ BytesAt(v) \in Int
      BY <1>3, <1>9, BytesChangeTwo
    <3>3. /\ (IF file[u].at = v THEN file[u].bytes ELSE 0) = 0
          /\ (IF file'[e].at = v THEN file'[e].bytes ELSE 0) = 0
          /\ (IF file'[u].at = v THEN file'[u].bytes ELSE 0) = IF v = w THEN Size[u] ELSE 0
          /\ (IF file[e].at = v THEN file[e].bytes ELSE 0) = IF v = source THEN freed ELSE 0
      BY <1>3, <1>6, <1>7, <1>8
    <3>4. BytesAt(v)' = BytesAt(v) + (IF v = w THEN Size[u] ELSE 0) - 0 + 0 - (IF v = source THEN freed ELSE 0)
      BY <3>2, <3>3
    <3>5. CASE v = w
      <4>1. BytesAt(v)' = BytesAt(v) + Size[u] - 0 + 0 - 0
        BY <3>4, <3>5
      <4> QED
        BY <1>3, <1>4, <3>1, <3>2, <3>5, <4>1
    <3>6. CASE v = source
      <4>1. BytesAt(v)' = BytesAt(v) + 0 - 0 + 0 - freed
        BY <3>4, <3>6
      <4> QED
        BY <1>3, <1>4, <3>1, <3>2, <3>6, <4>1
    <3>7. CASE v # w /\ v # source
      <4>1. BytesAt(v)' = BytesAt(v) + 0 - 0 + 0 - 0
        BY <3>4, <3>7
      <4> QED
        BY <1>4, <3>1, <3>2, <3>7, <4>1
    <3> QED
      BY <3>5, <3>6, <3>7
  <2> QED
    BY <1>10, <2>1 DEF Exact, CountersExact
<1>12. Settles
  BY <1>3, <1>5, <1>7, <1>8, OverFacts DEF Settles
<1>13. ASSUME NEW x \in Files PROVE FileOK(x)'
  <2>1. CASE x = u
    BY <1>3, <1>6, <1>8, <2>1 DEF FileOK
  <2>2. CASE x = e
    BY <1>7, <1>8, <2>2 DEF FileOK
  <2>3. CASE x # u /\ x # e
    BY <1>8, <2>3, RowFacts DEF FileOK
  <2> QED
    BY <2>1, <2>2, <2>3
<1>14. ASSUME NEW x \in Uploads PROVE UploadOK(x)'
  <2>1. CASE x = u
    BY <1>5, <2>1, OverFacts DEF UploadOK
  <2>2. CASE x # u
    <3>1. x \in Files /\ UploadOK(x) /\ Rows
      BY RowFacts DEF Files
    <3>2. file'[x] = file[x] \/ up[x].st = "over"
      <4>1. up[x].st \in {"none", "asked", "open"} => x # e
        BY <3>1 DEF UploadOK
      <4> QED
        BY <1>8, <2>2, <3>1, <4>1, RowFacts DEF UpRow
    <3> QED
      BY <1>5, <1>12, <2>2, <3>1, <3>2, UploadKept
  <2> QED
    BY <2>1, <2>2
<1>15. Kept
  BY <1>2, <1>4, <1>5, <1>8, <1>10, <1>11, <1>12, <1>13, <1>14, RowFacts DEF Kept
<1>16. ASSUME NEW s \in Txs \ {t} PROVE Spares(s)
  <2>1. /\ Ws(w) \notin tx[s].have /\ Store(w) \notin tx[s].have /\ Ws(source) \notin tx[s].have
        /\ n = Size[u] \/ Pool \notin tx[s].have
    BY RowFacts
  <2>2. /\ \A v \in Workspaces \ {w} : Total(v)' <= Total(v)
        /\ n = Size[u] => Total(w)' <= Total(w)
    <3>1. reserved'[w] = reserved[w] - n /\ \A v \in Workspaces \ {w} : reserved'[v] = reserved[v]
      BY <1>1, RowFacts
    <3>2. Total(w)' = (used[w] + Size[u]) + (reserved[w] - n) /\ Total(w) = used[w] + reserved[w]
      BY <1>4, <3>1 DEF Total
    <3>3. \A v \in Workspaces \ {w, source} : Total(v)' = Total(v)
      BY <1>4, <3>1 DEF Total
    <3>4. /\ Total(source)' = (used[source] - freed) + reserved[source]
          /\ Total(source) = used[source] + reserved[source]
      BY <1>4, <3>1 DEF Total
    <3>5. \A v \in Workspaces : used[v] \in Int /\ reserved[v] \in Int /\ Total(v) \in Int
      BY RowFacts DEF Total
    <3>6. Total(source)' <= Total(source)
      BY <3>4, <3>5
    <3>7. n = Size[u] => Total(w)' <= Total(w)
      BY <1>3, <3>2, <3>5
    <3> QED
      BY <3>3, <3>5, <3>6, <3>7
  <2>3. \A v \in Uploads : up'[v].st = "open" => up'[v] = up[v]
    BY <1>5, OverFacts
  <2>4. \A x \in Files : file[x].at \in Workspaces /\ Ws(file[x].at) \in tx[s].have => file'[x] = file[x]
    BY <1>3, <1>8, <2>1
  <2>5. \A v \in Uploads : up[v].st = "open" /\ Ws(up[v].at) \in tx[s].have => up'[v] = up[v]
    BY <1>5, <2>1
  <2>6. LetsBe(tx[s].have)
    BY <2>1, <2>2, <2>3, <2>4, <2>5 DEF LetsBe
  <2>7. Respects(tx[s].have)
    BY <1>1, <2>6, RowFacts, StorageRespects
  <2>8. tx[s].op = "begin" => up'[tx[s].u] = up[tx[s].u]
    BY <1>5, RowFacts
  <2> QED
    BY <2>7, <2>8 DEF Spares
<1> QED
  BY <1>1, <1>15, <1>16, CommitStep

(* What each kind of upload publishes. *)
LEMMA PublishShape ==
    ASSUME IInv, NEW t \in Txs, NEW u \in Uploads, NEW w \in Workspaces, NEW n \in Nat,
           CommitPublish(t), u = tx[t].u, w = up[u].at, n = up[u].res, file[u].at = Nothing
    PROVE  /\ up[u].kind = "new" => Lands(t, u, w, n, u, OneVersion(u, w), Size[u] - 0)
           /\ up[u].kind = "version" =>
                 LET f == up[u].of
                     row == [file[f] EXCEPT !.bytes = Size[u] + file[f].cur, !.cur = Size[u], !.seq = @ + 1]
                 IN  f \in Files /\ file[f].at # Nothing => Lands(t, u, w, n, f, row, row.bytes - file[f].bytes)
           /\ IsMove(u) /\ up[u].of \in Files \ {u} =>
                 Moves(t, u, w, n, up[u].of, Source(u), file[up[u].of].bytes)
<1>1. /\ up' = [up EXCEPT ![u] = Over] /\ reserved' = [reserved EXCEPT ![w] = @ - n]
      /\ UNCHANGED <<family, missed>> /\ Ends(t)
  BY DEF CommitPublish, history
<1>2. CASE up[u].kind = "new"
  <2>1. /\ file' = [file EXCEPT ![u] = OneVersion(u, w)]
        /\ used' = [used EXCEPT ![w] = @ + (OneVersion(u, w).bytes - 0)]
    BY <1>2 DEF CommitPublish, Published, IsMove
  <2>2. OneVersion(u, w).bytes = Size[u]
    BY DEF OneVersion
  <2> QED
    BY <1>1, <1>2, <2>1, <2>2 DEF Lands, IsMove
<1>3. CASE up[u].kind = "version"
  <2> DEFINE f == up[u].of
             row == [file[f] EXCEPT !.bytes = Size[u] + file[f].cur, !.cur = Size[u], !.seq = @ + 1]
  <2>1. ASSUME f \in Files, file[f].at # Nothing PROVE Lands(t, u, w, n, f, row, row.bytes - file[f].bytes)
    <3>1. f # u
      BY <2>1
    <3>2. Published(u) = row
      BY <1>3 DEF Published
    <3>3. /\ file' = [file EXCEPT ![f] = row]
          /\ used' = [used EXCEPT ![w] = @ + (row.bytes - file[f].bytes)]
      <4> HIDE DEF row
      <4> QED
        BY <1>3, <3>1, <3>2 DEF CommitPublish, IsMove
    <3> HIDE DEF row, f
    <3> QED
      BY <1>1, <3>3 DEF Lands
  <2> QED
    BY <1>3, <2>1 DEF IsMove
<1>4. CASE IsMove(u)
  <2> DEFINE e == up[u].of
             landed == [file EXCEPT ![u] = OneVersion(u, w)]
  <2>1. /\ file' = [landed EXCEPT ![e] = PurgedAt(@.at)]
        /\ used' = [used EXCEPT ![w] = @ + (OneVersion(u, w).bytes - 0), ![Source(u)] = @ - file[e].bytes]
    BY <1>4 DEF CommitPublish, Published, IsMove
  <2>2. OneVersion(u, w).bytes - 0 = Size[u]
    BY InstanceAssumption DEF OneVersion, Files
  <2>3. ASSUME e \in Files \ {u} PROVE Moves(t, u, w, n, e, Source(u), file[e].bytes)
    <3>1. landed[e] = file[e]
      BY <2>3, RowFacts
    <3>2. file' = [landed EXCEPT ![e] = PurgedAt(Source(u))]
      <4> HIDE DEF landed
      <4> QED
        BY <2>1, <3>1 DEF Source
    <3>3. used' = [used EXCEPT ![w] = @ + Size[u], ![Source(u)] = @ - file[e].bytes]
      <4> HIDE DEF e
      <4> QED
        BY <2>1, <2>2
    <3> QED
      BY <1>1, <3>2, <3>3 DEF Moves
  <2> QED
    BY <1>4, <2>3 DEF IsMove
<1> QED
  BY <1>2, <1>3, <1>4

(* CommitPublish: a file, a version or a move's copy lands. *)
LEMMA StepCommitPublish ==
    ASSUME IInv, NEW t \in Txs, CommitPublish(t)
    PROVE  IInv'
<1>1. PICK u \in Uploads, w \in Workspaces, n \in Nat :
               /\ u = tx[t].u /\ w = up[u].at /\ n = up[u].res /\ up[u].st = "open" /\ Under(u)
               /\ file[u].at = Nothing /\ ~file[u].there /\ OwnEnd(u) /\ MoverMay(u)
               /\ up[u].kind \in {"new", "version", "move"}
               /\ {Ws(w), Store(w)} \subseteq tx[t].have
               /\ n <= Size[u] /\ Size[u] <= n + up[u].freed
               /\ up[u].kind # "move" => n = Size[u]
               /\ up[u].kind = "version" => up[u].of \in Files /\ file[up[u].of].there /\ file[up[u].of].at = w
               /\ IsMove(u) => /\ SourceAsBegun(u) /\ up[u].of \in Files
                               /\ Source(u) \in Workspaces /\ Source(u) # w
                               /\ {Ws(Source(u)), Store(Source(u))} \subseteq tx[t].have
               /\ IsMove(u) /\ Lean(u) => Pool \in tx[t].have /\ Draws(w) /\ Draws(Source(u))
               /\ tx[t].writer => MayAct(up[u].by, w)
  BY PublishFacts DEF CommitPublish
<1>2. u \in Files /\ Size[u] \in Nat /\ Nothing \notin Workspaces
  BY InstanceAssumption DEF Files
<1>3. CASE up[u].kind = "new"
  <2>1. PICK row \in FileRow : /\ row = OneVersion(u, w) /\ row.at = w /\ row.there /\ row.bytes = Size[u]
                               /\ row.cur = Size[u]
    BY <1>2, OneVersionFacts
  <2>2. Lands(t, u, w, n, u, row, Size[u] - 0)
    BY <1>1, <1>3, <2>1, PublishShape
  <2>3. Size[u] - 0 \in Int /\ Size[u] - 0 <= n /\ row.cur <= row.bytes
    BY <1>1, <1>2, <1>3, <2>1
  <2>4. Size[u] - 0 = row.bytes - (IF file[u].at = w THEN file[u].bytes ELSE 0)
    BY <1>1, <1>2, <2>1
  <2>5. PICK added \in Int : added = Size[u] - 0
    BY <2>3
  <2>6. /\ Lands(t, u, w, n, u, row, added) /\ added <= n
        /\ added = row.bytes - (IF file[u].at = w THEN file[u].bytes ELSE 0)
        /\ file[u].at \in {w, Nothing}
    BY <1>1, <2>2, <2>3, <2>4, <2>5
  <2>7. /\ w = up[u].at /\ n = up[u].res /\ up[u].st = "open"
        /\ {Ws(w), Store(w)} \subseteq tx[t].have
        /\ row.at = w /\ row.there /\ row.cur <= row.bytes
    BY <1>1, <2>1, <2>3
  <2>8. u \in Files
    BY <1>2
  <2> QED
    BY <2>6, <2>7, <2>8, LandsInPlace
<1>4. CASE up[u].kind = "version"
  <2>1. PICK f \in Files : f = up[u].of
    BY <1>1, <1>4
  <2>2. file[f].there /\ file[f].at = w /\ n = Size[u]
    BY <1>1, <1>4, <2>1
  <2>3. PICK b \in Nat, c \in Nat : b = file[f].bytes /\ c = file[f].cur /\ c <= b
    BY RowFacts DEF FileRow, FileOK
  <2>4. PICK row \in FileRow :
            row = [file[f] EXCEPT !.bytes = Size[u] + file[f].cur, !.cur = Size[u], !.seq = @ + 1]
    <3>1. file[f] \in FileRow /\ Size[u] + file[f].cur \in Nat /\ file[f].seq + 1 \in Nat
      BY <1>2, RowFacts DEF FileRow
    <3> QED
      BY <1>2, <3>1 DEF FileRow
  <2>5. row.at = w /\ row.there /\ row.bytes = Size[u] + c /\ row.cur = Size[u]
    BY <2>2, <2>3, <2>4, RowFacts DEF FileRow
  <2>6. PICK added \in Int : added = row.bytes - file[f].bytes
    BY <1>2, <2>3, <2>5
  <2>7. Lands(t, u, w, n, f, row, added)
    <3>1. file[f].at # Nothing
      BY <1>2, <2>2
    <3> QED
      BY <1>1, <1>4, <2>1, <2>4, <2>6, <3>1, PublishShape
  <2>8. added <= n /\ row.cur <= row.bytes
    BY <1>2, <2>2, <2>3, <2>5, <2>6
  <2>9. added = row.bytes - (IF file[f].at = w THEN file[f].bytes ELSE 0) /\ file[f].at \in {w, Nothing}
    BY <2>2, <2>6
  <2> QED
    BY <1>1, <2>2, <2>5, <2>7, <2>8, <2>9, LandsInPlace
<1>5. CASE IsMove(u)
  <2>1. PICK e \in Files : e = up[u].of
    BY <1>1, <1>5
  <2>2. PICK source \in Workspaces : source = file[e].at
    BY <1>1, <1>5, <2>1 DEF Source
  <2>3. PICK freed \in Nat : freed = file[e].bytes
    BY RowFacts DEF FileRow
  <2>4. file[e].there /\ e # u
    BY <1>1, <1>5, <2>1 DEF SourceAsBegun
  <2>5. Moves(t, u, w, n, e, source, freed)
    BY <1>1, <1>5, <2>1, <2>2, <2>3, <2>4, PublishShape DEF Source
  <2>6. n = Size[u] \/ Pool \in tx[t].have
    BY <1>1, <1>2, <1>5 DEF Lean
  <2>7. source # w /\ {Ws(w), Store(w), Ws(source), Store(source)} \subseteq tx[t].have
    <3>1. source = Source(u)
      BY <2>1, <2>2 DEF Source
    <3> QED
      BY <1>1, <1>5, <3>1
  <2>8. /\ w = up[u].at /\ n = up[u].res /\ up[u].st = "open" /\ file[u].at = Nothing
        /\ file[e].there /\ u \in Uploads
    BY <1>1, <2>4
  <2> QED
    BY <2>2, <2>3, <2>5, <2>6, <2>7, <2>8, LandsMove
<1> QED
  BY <1>1, <1>3, <1>4, <1>5 DEF IsMove

-----------------------------------------------------------------------------
(* The family's commits. *)

(* A step that writes memberships and the plan only. *)
LEMMA FamilyWrites ==
    ASSUME IInv, UNCHANGED <<storage, file, up>>,
           member' \in [People -> {"out", "accepted", "active", "held", "gone"}],
           plan' \in [quota : Nat, live : BOOLEAN]
    PROVE  Kept
<1>1. used' = used /\ reserved' = reserved /\ file' = file /\ up' = up
  BY DEF storage
<1>2. Exact'
  <2>1. \A w : BytesAt(w)' = BytesAt(w) /\ ReservedAt(w)' = ReservedAt(w)
    BY <1>1 DEF BytesAt, ReservedAt
  <2> QED
    BY <1>1, <2>1, RowFacts DEF Exact, CountersExact
<1>3. Settles
  BY <1>1 DEF Settles
<1>4. \A f \in Files : FileOK(f)'
  BY <1>1, RowFacts DEF FileOK
<1>5. ASSUME NEW x \in Uploads PROVE UploadOK(x)'
  BY <1>1, <1>3, RowFacts, UploadKept
<1> QED
  BY <1>1, <1>2, <1>3, <1>4, <1>5, RowFacts DEF Kept

(* One membership is written. *)
Stands(p, m) ==
    /\ member' = [member EXCEPT ![p] = m] /\ plan' = plan
    /\ UNCHANGED <<storage, file, up, missed>>

(* Whom that concerns: who counts on a member being in the family or out   *)
(* of it, or on an admission under way.                                    *)
LEMMA StandsSpares ==
    ASSUME IInv, NEW p \in People, NEW m \in {"out", "accepted", "active", "held", "gone"},
           Stands(p, m), NEW s \in Txs,
           m = "gone" => member[p] = "gone",
           Active(p) /\ m \notin {"active", "held"} =>
               Pool \notin tx[s].have /\ \A a \in Areas : Ws(a) \notin tx[s].have,
           ~Active(p) /\ m \in {"active", "held"} => Pool \notin tx[s].have /\ Store(p) \notin tx[s].have,
           member[p] = "accepted" => m = "accepted" \/ Group \notin tx[s].have
    PROVE  Kept /\ Spares(s)
<1> DEFINE h == tx[s].have
<1>1. /\ member' = [member EXCEPT ![p] = m] /\ plan' = plan /\ used' = used /\ reserved' = reserved
      /\ file' = file /\ up' = up /\ missed' = missed
  BY DEF Stands, storage
<1>2. /\ member' \in [People -> {"out", "accepted", "active", "held", "gone"}]
      /\ member'[p] = m /\ \A q \in People \ {p} : member'[q] = member[q]
  BY <1>1, RowFacts
<1>3. Kept
  BY <1>1, <1>2, RowFacts, FamilyWrites DEF storage
<1>4. /\ \A q \in People \ {p} : Active(q)' <=> Active(q)
      /\ Active(p)' <=> m \in {"active", "held"}
  BY <1>2 DEF Active
<1>5. \A w \in Workspaces : Alive(w) => Alive(w)'
  BY <1>2 DEF Alive
<1>6. ASSUME NEW q \in People, NEW w \in Workspaces, Ws(w) \in h, MayAct(q, w) PROVE MayAct(q, w)'
  <2>1. w \in Areas /\ Active(q) => Active(q)'
    BY <1>4, <1>6
  <2> QED
    BY <1>1, <1>5, <1>6, <2>1 DEF MayAct, HoldsWorkspace
<1>7. \A w \in Workspaces : {Ws(w), Pool} \subseteq h /\ Draws(w) => Draws(w)'
  BY <1>4 DEF Draws
<1>8. \A w \in Workspaces : {Ws(w), Store(w)} \subseteq h /\ ~Draws(w) => ~Draws(w)'
  BY <1>4 DEF Draws
<1>9. \A w \in Workspaces : Total(w)' <= Total(w)
  BY <1>1, RowFacts DEF Total
<1>10. Pool \in h => Drawing' \subseteq Drawing
  BY <1>4 DEF Drawing
<1>11. \A q \in People : {Group, Person(q)} \subseteq h /\ member[q] = "accepted" => member'[q] = "accepted"
  BY <1>2
<1>12. \A w \in Areas \cup Drawing' : w \in Workspaces
  BY DEF Drawing, Workspaces
<1>13. Respects(h)
  BY <1>1, <1>6, <1>7, <1>8, <1>9, <1>10, <1>11, <1>12 DEF Respects
<1> QED
  BY <1>1, <1>3, <1>13 DEF Spares

(* AcceptInvitation: who accepts is neither in the family nor out of it for *)
(* anyone at work.                                                         *)
LEMMA StepAcceptInvitation ==
    ASSUME IInv, NEW p \in People, AcceptInvitation(p)
    PROVE  IInv'
<1>1. member[p] = "out" /\ tx' = tx /\ Stands(p, "accepted")
  BY DEF AcceptInvitation, Stands, history
<1>2. \A s \in Txs : Kept /\ Spares(s)
  BY <1>1, StandsSpares DEF Active
<1>3. Kept
  <2>1. member' \in [People -> {"out", "accepted", "active", "held", "gone"}]
    BY <1>1, RowFacts DEF Stands
  <2> QED
    BY <1>1, <2>1, RowFacts, FamilyWrites DEF Stands, storage
<1> QED
  BY <1>1, <1>2, <1>3, FreeStep

(* PlaceHold: a held member is a member. *)
LEMMA StepPlaceHold ==
    ASSUME IInv, NEW p \in People, PlaceHold(p)
    PROVE  IInv'
<1>1. member[p] = "active" /\ tx' = tx /\ Stands(p, "held")
  BY DEF PlaceHold, Stands, history
<1>2. \A s \in Txs : Kept /\ Spares(s)
  BY <1>1, StandsSpares DEF Active
<1>3. Kept
  <2>1. member' \in [People -> {"out", "accepted", "active", "held", "gone"}]
    BY <1>1, RowFacts DEF Stands
  <2> QED
    BY <1>1, <2>1, RowFacts, FamilyWrites DEF Stands, storage
<1> QED
  BY <1>1, <1>2, <1>3, FreeStep

(* HoldEnds: and is one still once the hold is over. *)
LEMMA StepHoldEnds ==
    ASSUME IInv, NEW p \in People, HoldEnds(p)
    PROVE  IInv'
<1>1. member[p] = "held" /\ tx' = tx /\ Stands(p, "active")
  BY DEF HoldEnds, Stands, history
<1>2. \A s \in Txs : Kept /\ Spares(s)
  BY <1>1, StandsSpares DEF Active
<1>3. Kept
  <2>1. member' \in [People -> {"out", "accepted", "active", "held", "gone"}]
    BY <1>1, RowFacts DEF Stands
  <2> QED
    BY <1>1, <2>1, RowFacts, FamilyWrites DEF Stands, storage
<1> QED
  BY <1>1, <1>2, <1>3, FreeStep

(* What a transaction of the family's that is about to commit holds. *)
LEMMA FamilyReady ==
    ASSUME IInv, NEW t \in Txs, NEW op \in {"admit", "leave", "delete", "plan"}, Ready(t, op, "none")
    PROVE  /\ FamilyOK(tx[t]) /\ tx[t].op = op /\ (op # "plan" => tx[t].p \in People)
           /\ tx[t].have = FamilyLocks(tx[t]) /\ Wanted(tx[t]) = {}
<1>1. tx[t].op = op /\ tx[t].want = <<>> /\ FamilyOK(tx[t])
  BY RowFacts DEF Ready, TxOK
<1>2. Wanted(tx[t]) = {}
  BY <1>1 DEF Wanted
<1> QED
  BY <1>1, <1>2 DEF FamilyOK, Mine

(* CommitMember: an admission or a departure, under every lock it needs. *)
LEMMA StepCommitMember ==
    ASSUME IInv, NEW t \in Txs, CommitMember(t)
    PROVE  IInv'
<1>1. Ends(t) /\ tx[t].p \in People
  BY FamilyReady DEF CommitMember
<1>2. PICK p \in People : p = tx[t].p
  BY <1>1
<1>3. CASE Ready(t, "admit", "none") /\ member' = [member EXCEPT ![p] = "active"]
  <2>1. FamilyOK(tx[t]) /\ tx[t].op = "admit" /\ tx[t].have = FamilyLocks(tx[t])
    BY <1>3, FamilyReady
  <2>2. {Group, Pool, Person(p), Store(p)} \subseteq tx[t].have
    BY <1>2, <2>1 DEF FamilyLocks
  <2>3. member[p] = "accepted"
    BY <1>2, <2>1, <2>2 DEF FamilyOK
  <2>4. Stands(p, "active")
    BY <1>3 DEF CommitMember, Stands, history
  <2>5. \A s \in Txs \ {t} : Group \notin tx[s].have /\ Pool \notin tx[s].have /\ Store(p) \notin tx[s].have
    BY <2>2, RowFacts
  <2>6. \A s \in Txs \ {t} : Kept /\ Spares(s)
    BY <2>3, <2>4, <2>5, StandsSpares DEF Active
  <2>7. Kept
    <3>1. member' \in [People -> {"out", "accepted", "active", "held", "gone"}]
      BY <1>3, RowFacts
    <3> QED
      BY <2>4, <3>1, RowFacts, FamilyWrites DEF Stands, storage
  <2> QED
    BY <1>1, <2>6, <2>7, CommitStep
<1>4. CASE Ready(t, "leave", "none") /\ member' = [member EXCEPT ![p] = IF @ = "gone" THEN @ ELSE "out"]
  <2>1. FamilyOK(tx[t]) /\ tx[t].op = "leave" /\ tx[t].have = FamilyLocks(tx[t])
    BY <1>4, FamilyReady
  <2>2. {Group, Pool} \cup AreaRows \subseteq tx[t].have
    BY <2>1 DEF FamilyLocks
  <2>3. PICK m \in {"out", "gone"} : m = IF member[p] = "gone" THEN "gone" ELSE "out"
    OBVIOUS
  <2>4. Stands(p, m)
    BY <1>4, <2>3, RowFacts DEF CommitMember, Stands, history
  <2>5. \A s \in Txs \ {t} : /\ Group \notin tx[s].have /\ Pool \notin tx[s].have
                             /\ \A a \in Areas : Ws(a) \notin tx[s].have
    BY <2>2, RowFacts DEF AreaRows
  <2>6. \A s \in Txs \ {t} : Kept /\ Spares(s)
    BY <2>3, <2>4, <2>5, StandsSpares
  <2>7. Kept
    <3>1. member' \in [People -> {"out", "accepted", "active", "held", "gone"}]
      BY <2>4, RowFacts DEF Stands
    <3> QED
      BY <2>4, <3>1, RowFacts, FamilyWrites DEF Stands, storage
  <2> QED
    BY <1>1, <2>6, <2>7, CommitStep
<1> QED
  BY <1>2, <1>3, <1>4 DEF CommitMember

(* Only who counts the pool counts on the plan. *)
LEMMA PlanSpares ==
    ASSUME IInv, UNCHANGED <<member, storage, file, up, missed>>,
           plan' \in [quota : Nat, live : BOOLEAN], NEW s \in Txs,
           Pool \in tx[s].have => plan'.quota = plan.quota /\ (plan'.live => plan.live)
    PROVE  Spares(s)
<1>1. /\ member' = member /\ used' = used /\ reserved' = reserved /\ file' = file /\ up' = up
      /\ missed' = missed
  BY DEF storage
<1>2. \A w : Draws(w)' <=> Draws(w)
  BY <1>1 DEF Draws, Active
<1>3. \A p, w : MayAct(p, w)' <=> MayAct(p, w)
  BY <1>1 DEF MayAct, HoldsWorkspace, Alive, Active
<1>4. Drawing' = Drawing
  BY <1>1 DEF Drawing, Active
<1>5. \A w \in Workspaces : Total(w)' <= Total(w)
  BY <1>1, RowFacts DEF Total
<1>6. \A w \in Areas \cup Drawing : w \in Workspaces
  BY DEF Drawing, Workspaces
<1>7. Respects(tx[s].have)
  BY <1>1, <1>2, <1>3, <1>4, <1>5, <1>6 DEF Respects
<1> QED
  BY <1>1, <1>7 DEF Spares

(* The plans a family may have. *)
LEMMA PlanFacts == Plans \subseteq [quota : Nat, live : BOOLEAN]
<1>1. ASSUME NEW x \in Plans PROVE x \in [quota : Nat, live : BOOLEAN]
  <2>1. CASE x = [quota |-> 0, live |-> FALSE]
    BY <2>1
  <2>2. CASE x # [quota |-> 0, live |-> FALSE]
    <3>1. PICK q \in Quotas : x = [quota |-> q, live |-> TRUE]
      BY <2>2 DEF Plans
    <3>2. q \in Nat
      BY PoolAssumption
    <3> QED
      BY <3>1, <3>2
  <2> QED
    BY <2>1, <2>2
<1> QED
  BY <1>1

(* CommitPlan: nobody counts the pool meanwhile. *)
LEMMA StepCommitPlan ==
    ASSUME IInv, NEW t \in Txs, CommitPlan(t)
    PROVE  IInv'
<1>1. Ends(t) /\ plan' \in [quota : Nat, live : BOOLEAN] /\ UNCHANGED <<member, storage, file, up, missed>>
  BY PlanFacts DEF CommitPlan, history
<1>2. Pool \in tx[t].have
  BY FamilyReady DEF CommitPlan, FamilyLocks
<1>3. \A s \in Txs \ {t} : Spares(s)
  BY <1>1, <1>2, RowFacts, PlanSpares
<1>4. Kept
  BY <1>1, RowFacts, FamilyWrites
<1> QED
  BY <1>1, <1>3, <1>4, CommitStep

(* PlanExpires: a plan that runs out frees nothing and takes nothing. *)
LEMMA StepPlanExpires ==
    ASSUME IInv, PlanExpires
    PROVE  IInv'
<1>1. /\ tx' = tx /\ UNCHANGED <<member, storage, file, up, missed>>
      /\ plan' \in [quota : Nat, live : BOOLEAN] /\ plan'.quota = plan.quota /\ ~plan'.live
  BY RowFacts DEF PlanExpires
<1>2. \A s \in Txs : Spares(s)
  BY <1>1, PlanSpares
<1>3. Kept
  BY <1>1, RowFacts, FamilyWrites
<1> QED
  BY <1>1, <1>2, <1>3, FreeStep

(* CommitDelete: an account goes, with its workspace and all that is in    *)
(* it.  Who may have counted on its membership holds an area that the      *)
(* deletion has too, or is one that the deletion missed.                   *)
LEMMA StepCommitDelete ==
    ASSUME IInv, NEW t \in Txs, CommitDelete(t)
    PROVE  IInv'
<1>1. /\ Ends(t) /\ plan' = plan /\ tx[t].p \in People
      /\ tx[t].have = FamilyLocks(tx[t]) /\ Wanted(tx[t]) = {} /\ tx[t].op = "delete"
  BY FamilyReady DEF CommitDelete
<1>2. PICK p \in People : p = tx[t].p
  BY <1>1
<1>3. /\ member' = [member EXCEPT ![p] = "gone"]
      /\ file' = [f \in Files |-> IF file[f].at = p THEN PurgedAt(p) ELSE file[f]]
      /\ up' = [u \in Uploads |-> IF up[u].at = p /\ up[u].st = "open" THEN Over ELSE up[u]]
      /\ used' = [used EXCEPT ![p] = 0] /\ reserved' = [reserved EXCEPT ![p] = 0]
      /\ missed' = IF Active(p) /\ Group \notin tx[t].have THEN missed \cup {p} ELSE missed
  BY <1>2 DEF CommitDelete
<1>4. /\ {Ws(p), Store(p), Person(p)} \subseteq tx[t].have
      /\ Group \in tx[t].have => AreaRows \subseteq tx[t].have
  BY <1>1, <1>2 DEF FamilyLocks, Mine
<1>5. p \in Workspaces /\ p \notin Areas /\ p # Nothing
  BY PoolAssumption, InstanceAssumption DEF Workspaces
<1>6. /\ member' \in [People -> {"out", "accepted", "active", "held", "gone"}]
      /\ member'[p] = "gone" /\ \A q \in People \ {p} : member'[q] = member[q]
  BY <1>3, RowFacts
<1>7. /\ used' \in [Workspaces -> Int] /\ reserved' \in [Workspaces -> Int]
      /\ used'[p] = 0 /\ reserved'[p] = 0
      /\ \A v \in Workspaces \ {p} : used'[v] = used[v] /\ reserved'[v] = reserved[v]
  BY <1>3, <1>5, RowFacts
<1>8. /\ file' \in [Files -> FileRow]
      /\ \A f \in Files : /\ file[f].at # p => file'[f] = file[f]
                          /\ file[f].at = p => /\ file'[f].at = p /\ ~file'[f].there
                                               /\ file'[f].bytes = 0 /\ file'[f].cur = 0
  <2>1. PICK gone \in FileRow : gone = PurgedAt(p) /\ gone.at = p /\ ~gone.there /\ gone.bytes = 0
                                /\ gone.cur = 0
    BY <1>5, PurgedFacts
  <2>2. file' = [f \in Files |-> IF file[f].at = p THEN gone ELSE file[f]]
    BY <1>3, <2>1
  <2> QED
    BY <2>1, <2>2, RowFacts
<1>9. /\ up' \in [Uploads -> UpRow]
      /\ \A u \in Uploads : /\ up'[u] = up[u] \/ (up'[u] = Over /\ up[u].at = p /\ up[u].st = "open")
                            /\ up[u].at = p /\ up[u].st = "open" => up'[u] = Over
  <2>1. PICK o \in UpRow : o = Over
    BY OverFacts
  <2>2. up' = [u \in Uploads |-> IF up[u].at = p /\ up[u].st = "open" THEN o ELSE up[u]]
    BY <1>3, <2>1
  <2> QED
    BY <2>1, <2>2, RowFacts
<1>10. \A u \in Uploads : up'[u].at = p => up'[u].res = 0
  <2> SUFFICES ASSUME NEW u \in Uploads, up'[u].at = p PROVE up'[u].res = 0
    OBVIOUS
  <2>1. UploadOK(u) /\ up[u] \in UpRow
    BY RowFacts
  <2>2. up'[u] = up[u] /\ up[u].st # "open"
    BY <1>5, <1>9, OverFacts
  <2>3. up[u].st = "none" => up[u].at = Nothing
    BY <2>1, OverFacts DEF UploadOK
  <2>4. up[u].st = "over" => up[u].at = Nothing
    BY <2>1, OverFacts DEF UploadOK
  <2>5. up[u].st = "asked"
    BY <1>5, <2>1, <2>2, <2>3, <2>4 DEF UpRow
  <2> QED
    BY <2>1, <2>2, <2>5 DEF UploadOK
<1>11. Exact'
  <2>1. DataRows /\ DataRows' /\ IsFiniteSet(Files) /\ IsFiniteSet(Uploads)
    BY <1>8, <1>9, RowFacts, InstanceAssumption, FS_Subset DEF DataRows, Files
  <2>2. Masked /\ Masked'
    BY <2>1, MaskedHold, MaskedHoldNext
  <2>3. ASSUME NEW v \in Workspaces PROVE used'[v] = BytesAt(v)' /\ reserved'[v] = ReservedAt(v)'
    <3> DEFINE g == [f \in Files |-> IF file'[f].at = v THEN file'[f].bytes ELSE 0]
               k == [u \in Uploads |-> IF up'[u].at = v THEN up'[u].res ELSE 0]
    <3>1. /\ BytesAt(v)' = SumOf(g, Files) /\ ReservedAt(v)' = SumOf(k, Uploads)
          /\ BytesAt(v) = SumOf(BytesOf(v), Files) /\ ReservedAt(v) = SumOf(ResOf(v), Uploads)
      <4>1. BytesOf(v)' = g /\ ResOf(v)' = k
        BY DEF BytesOf, ResOf
      <4> HIDE DEF g, k
      <4> QED
        BY <2>2, <4>1 DEF Masked
    <3>2. CASE v = p
      <4>1. (\A f \in Files : g[f] = 0) /\ (\A u \in Uploads : k[u] = 0)
        BY <1>8, <1>10, <3>2
      <4> HIDE DEF g, k
      <4>2. SumOf(g, Files) = 0 /\ SumOf(k, Uploads) = 0
        BY <2>1, <4>1, SumZero
      <4> QED
        BY <1>7, <3>1, <3>2, <4>2
    <3>3. CASE v # p
      <4>1. \A f \in Files : g[f] = BytesOf(v)[f]
        BY <1>8, <3>3 DEF BytesOf
      <4>2. \A u \in Uploads : k[u] = ResOf(v)[u]
        BY <1>9, <3>3, OverFacts, <1>5, InstanceAssumption DEF ResOf
      <4>3. (\A f \in Files : BytesOf(v)[f] \in Int) /\ (\A u \in Uploads : ResOf(v)[u] \in Int)
        BY <2>2 DEF Masked
      <4> HIDE DEF g, k
      <4>4. SumOf(g, Files) = SumOf(BytesOf(v), Files)
        BY <2>1, <4>1, <4>3, SumAgree
      <4>5. SumOf(k, Uploads) = SumOf(ResOf(v), Uploads)
        BY <2>1, <4>2, <4>3, SumAgree
      <4> QED
        BY <1>7, <3>1, <3>3, <4>4, <4>5, RowFacts
    <3> QED
      BY <3>2, <3>3
  <2> QED
    BY <2>3 DEF Exact, CountersExact
<1>12. Settles
  BY <1>8, <1>9, OverFacts DEF Settles
<1>13. ASSUME NEW f \in Files PROVE FileOK(f)'
  <2>1. CASE file[f].at = p
    BY <1>8, <2>1 DEF FileOK
  <2>2. CASE file[f].at # p
    BY <1>8, <2>2, RowFacts DEF FileOK
  <2> QED
    BY <2>1, <2>2
<1>14. ASSUME NEW x \in Uploads PROVE UploadOK(x)'
  <2>1. CASE up'[x] = Over
    BY <2>1, OverFacts DEF UploadOK
  <2>2. CASE up'[x] = up[x]
    <3>1. x \in Files /\ UploadOK(x) /\ Rows
      BY RowFacts DEF Files
    <3>2. file'[x] = file[x] \/ up[x].st = "over"
      <4>1. up[x].st \in {"none", "asked", "open"} => file[x].at # p
        BY <1>5, <3>1 DEF UploadOK
      <4> QED
        BY <1>8, <3>1, <4>1, RowFacts DEF UpRow
    <3> QED
      BY <1>12, <2>2, <3>1, <3>2, UploadKept
  <2> QED
    BY <1>9, <2>1, <2>2
<1>15. Kept
  BY <1>1, <1>6, <1>7, <1>8, <1>9, <1>11, <1>12, <1>13, <1>14, RowFacts DEF Kept
<1>16. ASSUME NEW s \in Txs \ {t} PROVE Spares(s)
  <2> DEFINE h == tx[s].have
  <2>1. /\ Ws(p) \notin h /\ Store(p) \notin h /\ Person(p) \notin h
        /\ Group \in tx[t].have => \A a \in Areas : Ws(a) \notin h
    BY <1>4, RowFacts DEF AreaRows
  <2>2. \A f \in Files : file[f].at \in Workspaces /\ Ws(file[f].at) \in h => file'[f] = file[f]
    BY <1>8, <2>1
  <2>3. \A v \in Uploads : up'[v].st = "open" => up'[v] = up[v]
    BY <1>9, OverFacts
  <2>4. \A v \in Uploads : up[v].st = "open" /\ Ws(up[v].at) \in h => up'[v] = up[v]
    BY <1>9, <2>1
  <2>5. \A q \in People \ {p} : Active(q)' <=> Active(q)
    BY <1>6 DEF Active
  <2>6. ~Active(p)'
    BY <1>6 DEF Active
  <2>7. ASSUME NEW q \in People, NEW w \in Workspaces, Ws(w) \in h, MayAct(q, w) PROVE MayAct(q, w)'
    <3>1. w # p /\ (Alive(w) => Alive(w)')
      BY <1>6, <2>1, <2>7 DEF Alive
    <3>2. missed \subseteq missed'
      BY <1>3
    <3>3. CASE q \in missed /\ w \in Areas
      BY <3>2, <3>3 DEF MayAct
    <3>4. CASE HoldsWorkspace(q, w)
      <4>1. CASE q = w
        BY <3>1, <3>4, <4>1 DEF MayAct, HoldsWorkspace
      <4>2. CASE w \in Areas /\ Active(q) /\ q # p
        BY <2>5, <3>1, <3>4, <4>2 DEF MayAct, HoldsWorkspace
      <4>3. CASE w \in Areas /\ Active(q) /\ q = p
        <5>1. Group \notin tx[t].have
          BY <2>1, <2>7, <4>3
        <5>2. q \in missed'
          BY <1>3, <4>3, <5>1
        <5> QED
          BY <4>3, <5>2 DEF MayAct
      <4> QED
        BY <3>4, <4>1, <4>2, <4>3 DEF HoldsWorkspace
    <3> QED
      BY <2>7, <3>3, <3>4 DEF MayAct
  <2>8. \A w \in Workspaces : {Ws(w), Pool} \subseteq h /\ Draws(w) => Draws(w)'
    BY <2>1, <2>5 DEF Draws
  <2>9. \A w \in Workspaces : {Ws(w), Store(w)} \subseteq h /\ ~Draws(w) => ~Draws(w)'
    BY <2>1, <2>5 DEF Draws
  <2>10. \A w \in Workspaces \ {p} : Total(w)' <= Total(w)
    BY <1>7, RowFacts DEF Total
  <2>11. Drawing' \subseteq Drawing /\ \A w \in Areas \cup Drawing' : w \in Workspaces \ {p}
    BY <1>5, <2>5, <2>6 DEF Drawing, Workspaces
  <2>12. \A q \in People : {Group, Person(q)} \subseteq h /\ member[q] = "accepted" => member'[q] = "accepted"
    BY <1>6, <2>1
  <2>13. \A w \in Workspaces : Store(w) \in h => Total(w)' <= Total(w)
    BY <2>1, <2>10
  <2>14. plan'.quota = plan.quota /\ plan'.live = plan.live
    BY <1>1
  <2>15. Respects(h)
    BY <2>2, <2>3, <2>4, <2>7, <2>8, <2>9, <2>10, <2>11, <2>12, <2>13, <2>14 DEF Respects
  <2>16. tx[s].op = "begin" => up'[tx[s].u] = up[tx[s].u]
    BY <1>9, RowFacts
  <2> QED
    BY <2>15, <2>16 DEF Spares
<1> QED
  BY <1>1, <1>15, <1>16, CommitStep

-----------------------------------------------------------------------------
(* The invariant holds from the start and every step keeps it. *)

(* The counters start exact, and no transaction is open. *)
LEMMA InitInv == Init => IInv
<1> SUFFICES ASSUME Init PROVE IInv
  OBVIOUS
<1>1. PICK at \in [Old -> OldAt] :
          file = [f \in Files |-> IF f \in Old THEN OneVersion(f, at[f]) ELSE PurgedAt(Nothing)]
  BY DEF Init
<1>2. /\ up = [u \in Uploads |-> NoUpload] /\ tx = [t \in Txs |-> NoTx]
      /\ used = [w \in Workspaces |-> BytesAt(w)] /\ reserved = [w \in Workspaces |-> 0]
  BY DEF Init
<1>3. member \in [People -> {"out", "accepted", "active", "held", "gone"}]
  BY DEF Init
<1>4. plan \in [quota : Nat, live : BOOLEAN]
  BY PlanFacts DEF Init
<1>5. ASSUME NEW f \in Files PROVE file[f] \in FileRow /\ FileOK(f)
  <2>1. CASE f \in Old
    <3>1. at[f] \in Workspaces
      BY <2>1, InstanceAssumption
    <3>2. file[f] = OneVersion(f, at[f])
      BY <1>1, <2>1
    <3> QED
      BY <3>1, <3>2, OneVersionFacts DEF FileOK
  <2>2. CASE f \notin Old
    <3>1. file[f] = PurgedAt(Nothing)
      BY <1>1, <2>2
    <3> QED
      BY <3>1, PurgedFacts DEF FileOK
  <2> QED
    BY <2>1, <2>2
<1>6. file \in [Files -> FileRow]
  BY <1>1, <1>5
<1>7. NoUpload \in UpRow /\ NoUpload.st = "none" /\ NoUpload.res = 0
  BY DEF NoUpload, UpRow
<1>8. up \in [Uploads -> UpRow]
  BY <1>2, <1>7
<1>9. ASSUME NEW u \in Uploads PROVE UploadOK(u)
  <2>1. u \in Files /\ u \notin Old
    BY InstanceAssumption DEF Files
  <2>2. file[u].at = Nothing /\ ~file[u].there
    BY <1>1, <2>1, PurgedFacts
  <2>3. up[u] = NoUpload
    BY <1>2
  <2> QED
    BY <1>7, <2>2, <2>3 DEF UploadOK
<1>10. DataRows
  BY <1>6, <1>8 DEF DataRows
<1>11. IsFiniteSet(Files) /\ IsFiniteSet(Uploads)
  BY InstanceAssumption, FS_Subset DEF Files
<1>12. ASSUME NEW w \in Workspaces PROVE BytesAt(w) \in Nat /\ ReservedAt(w) = 0
  <2>1. /\ BytesAt(w) = SumOf(BytesOf(w), Files) /\ ReservedAt(w) = SumOf(ResOf(w), Uploads)
        /\ \A f \in Files : BytesOf(w)[f] \in Nat
    BY <1>10, MaskedHold DEF Masked
  <2>2. SumOf(BytesOf(w), Files) \in Nat
    BY <1>11, <2>1, SumNat
  <2>3. \A u \in Uploads : ResOf(w)[u] = 0
    BY <1>2, <1>7 DEF ResOf
  <2>4. SumOf(ResOf(w), Uploads) = 0
    BY <1>11, <2>3, SumZero
  <2> QED
    BY <2>1, <2>2, <2>4
<1>13. Exact /\ used \in [Workspaces -> Int] /\ reserved \in [Workspaces -> Int]
  BY <1>2, <1>12 DEF Exact, CountersExact
<1>14. tx \in [Txs -> TxRow] /\ \A t \in Txs : tx[t] = NoTx
  BY <1>2, NoTxFacts
<1>15. Exclusive /\ AskedOnce
  BY <1>14, NoTxFacts DEF Exclusive, AskedOnce
<1>16. \A t \in Txs : TxOK(tx[t])
  BY <1>14, NoTxFacts DEF TxOK
<1>17. Rows
  BY <1>3, <1>4, <1>6, <1>8, <1>13, <1>14 DEF Rows
<1> QED
  BY <1>5, <1>9, <1>13, <1>15, <1>16, <1>17 DEF IInv

(* A step that changes nothing keeps it. *)
LEMMA StutterInv == IInv /\ UNCHANGED vars => IInv'
<1> SUFFICES ASSUME IInv, UNCHANGED vars PROVE IInv'
  OBVIOUS
<1>1. Quiet /\ tx' = tx
  BY DEF vars, Quiet, family, storage
<1>2. /\ Rows /\ (\A u \in Uploads : UploadOK(u)) /\ (\A f \in Files : FileOK(f))
      /\ Exact /\ \A t \in Txs : TxOK(tx[t])
  BY DEF IInv
<1>3. member' = member /\ plan' = plan /\ used' = used /\ reserved' = reserved /\ file' = file
      /\ up' = up /\ missed' = missed
  BY <1>1 DEF Quiet, family, storage
<1>4. Settles /\ \A h : Respects(h)
  BY <1>1, <1>2, QuietRespects
<1>5. Exact'
  BY <1>2, <1>3 DEF Exact, CountersExact, BytesAt, ReservedAt
<1>6. \A f \in Files : FileOK(f)'
  BY <1>2, <1>3 DEF FileOK
<1>7. \A u \in Uploads : UploadOK(u)'
  <2> SUFFICES ASSUME NEW u \in Uploads PROVE UploadOK(u)'
    OBVIOUS
  <2>1. UploadOK(u)
    BY <1>2
  <2> QED
    BY <1>3, <2>1 DEF UploadOK, Under, OwnEnd, IsMove, Source
<1>8. /\ member \in [People -> {"out", "accepted", "active", "held", "gone"}]
      /\ plan \in [quota : Nat, live : BOOLEAN]
      /\ used \in [Workspaces -> Int] /\ reserved \in [Workspaces -> Int]
      /\ file \in [Files -> FileRow] /\ up \in [Uploads -> UpRow]
  BY <1>2 DEF Rows
<1>9. Kept
  BY <1>3, <1>4, <1>5, <1>6, <1>7, <1>8 DEF Kept
<1>10. \A s \in Txs : Spares(s)
  BY <1>3, <1>4 DEF Spares
<1> QED
  BY <1>1, <1>9, <1>10, FreeStep

(* Every step keeps it. *)
LEMMA NextInv == IInv /\ [Next]_vars => IInv'
<1> SUFFICES ASSUME IInv, [Next]_vars PROVE IInv'
  OBVIOUS
<1>1. CASE UNCHANGED vars
  BY <1>1, StutterInv
<1>2. ASSUME NEW t \in Txs, NEW u \in Uploads, NEW p \in People, NEW w \in Workspaces,
             NEW f \in Files \cup {Nothing}, NEW k \in Kinds[u], BeginUpload(t, u, k, w, p, f)
      PROVE  IInv'
  <2>1. k \in {"new", "version", "move", "copy"}
    BY InstanceAssumption
  <2> QED
    BY <1>2, <2>1, StepBeginUpload
<1>3. ASSUME NEW t \in Txs, BeginAtWorkspace(t) PROVE IInv'
  BY <1>3, StepBeginAtWorkspace
<1>4. ASSUME NEW t \in Txs, TakePool(t) PROVE IInv'
  BY <1>4, StepTakePool
<1>5. ASSUME NEW t \in Txs, BeginFigures(t) PROVE IInv'
  BY <1>5, StepBeginFigures
<1>6. ASSUME NEW t \in Txs, CommitBegin(t) PROVE IInv'
  BY <1>6, StepCommitBegin
<1>7. ASSUME NEW t \in Txs, BeginMoving(t) PROVE IInv'
  BY <1>7, StepBeginMoving
<1>8. ASSUME NEW t \in Txs, NEW u \in Uploads, NEW writer \in BOOLEAN, FinishCompleting(t, u, writer)
      PROVE  IInv'
  BY <1>8, StepFinishCompleting
<1>9. ASSUME NEW t \in Txs, FinishAtWorkspace(t) PROVE IInv'
  BY <1>9, StepFinishAtWorkspace
<1>10. ASSUME NEW t \in Txs, FinishAtStore(t) PROVE IInv'
  BY <1>10, StepFinishAtStore
<1>11. ASSUME NEW t \in Txs, CommitPublish(t) PROVE IInv'
  BY <1>11, StepCommitPublish
<1>12. ASSUME NEW t \in Txs, CommitRelease(t) PROVE IInv'
  BY <1>12, StepCommitRelease
<1>13. ASSUME NEW t \in Txs, NEW p \in People, AdmitMember(t, p) PROVE IInv'
  BY <1>13, StepAdmitMember
<1>14. ASSUME NEW t \in Txs, NEW p \in People, LeaveFamily(t, p) PROVE IInv'
  BY <1>14, StepLeaveFamily
<1>15. ASSUME NEW t \in Txs, NEW p \in People, DeleteAccount(t, p) PROVE IInv'
  BY <1>15, StepDeleteAccount
<1>16. ASSUME NEW t \in Txs, ApplyPlan(t) PROVE IInv'
  BY <1>16, StepApplyPlan
<1>17. ASSUME NEW t \in Txs, TakeInTurn(t) PROVE IInv'
  BY <1>17, StepTakeInTurn
<1>18. ASSUME NEW t \in Txs, AdmitFigures(t) PROVE IInv'
  BY <1>18, StepAdmitFigures
<1>19. ASSUME NEW t \in Txs, CommitMember(t) PROVE IInv'
  BY <1>19, StepCommitMember
<1>20. ASSUME NEW t \in Txs, CommitDelete(t) PROVE IInv'
  BY <1>20, StepCommitDelete
<1>21. ASSUME NEW t \in Txs, CommitPlan(t) PROVE IInv'
  BY <1>21, StepCommitPlan
<1>22. ASSUME NEW u \in Uploads, AbortUpload(u) PROVE IInv'
  BY <1>22, StepAbortUpload
<1>23. ASSUME NEW f \in Files, DeleteFile(f) PROVE IInv'
  BY <1>23, StepDeleteFile
<1>24. ASSUME NEW p \in People, AcceptInvitation(p) PROVE IInv'
  BY <1>24, StepAcceptInvitation
<1>25. ASSUME NEW p \in People, PlaceHold(p) PROVE IInv'
  BY <1>25, StepPlaceHold
<1>26. ASSUME NEW p \in People, HoldEnds(p) PROVE IInv'
  BY <1>26, StepHoldEnds
<1>27. CASE PlanExpires
  BY <1>27, StepPlanExpires
<1> QED
  BY <1>1, <1>2, <1>3, <1>4, <1>5, <1>6, <1>7, <1>8, <1>9, <1>10, <1>11, <1>12, <1>13, <1>14, <1>15,
     <1>16, <1>17, <1>18, <1>19, <1>20, <1>21, <1>22, <1>23, <1>24, <1>25, <1>26, <1>27 DEF Next

(* Every transaction of a reachable state has, under the locks it holds, what it went on. *)
THEOREM Invariance == Spec => []IInv
<1> QED
  BY InitInv, NextInv, PTL DEF Spec

(* The counters are exact. *)
LEMMA InvAccounted == IInv => Accounted
<1> SUFFICES ASSUME IInv PROVE Accounted
  OBVIOUS
<1>1. Rows /\ Exact /\ Exclusive /\ CountRows
  BY RowFacts DEF IInv
<1>2. TypeOK
  BY <1>1 DEF TypeOK, Rows, CountRows, Exclusive, TxRow
<1> QED
  BY <1>1, <1>2 DEF Accounted, Exact

(* used_bytes and reserved_bytes of every workspace are what its ready     *)
(* versions and its uploads take, through every transaction; no lock has   *)
(* two holders.                                                            *)
THEOREM CountersStayExact == Spec => []Accounted
<1> QED
  BY Invariance, InvAccounted, PTL

-----------------------------------------------------------------------------
(* What a commit acts on is as it was read. *)

(* A move that is about to be published takes what its mover read. *)
LEMMA PublishTakes ==
    ASSUME IInv, NEW t \in Txs, CommitPublish(t), IsMove(tx[t].u)
    PROVE  LET r == up[tx[t].u]
           IN  /\ MayAct(r.by, r.at) /\ MayAct(r.by, file[r.of].at)
               /\ file[r.of].there /\ file[r.of].seq = r.seq
               /\ \A v \in Uploads : up[v].st = "open" => up[v].kind # "version" \/ up[v].of # r.of
<1>1. Ready(t, "finish", "publish")
  BY DEF CommitPublish
<1>2. PICK u \in Uploads : u = tx[t].u /\ MoverMay(u) /\ (IsMove(u) => SourceAsBegun(u))
  BY <1>1, PublishFacts
<1>3. MayAct(up[u].by, up[u].at) /\ MayAct(up[u].by, Source(u)) /\ SourceAsBegun(u)
  BY <1>2 DEF MoverMay
<1> QED
  BY <1>2, <1>3 DEF SourceAsBegun, Source

(* A move's completion purges its source only while its mover may act in   *)
(* both ends, and only the version they read when the move was begun, with *)
(* no newer one there or on its way (moveStillHolds, settleMove).          *)
THEOREM MoveTakesWhatWasReadHolds == Spec => MoveTakesWhatWasRead
<1>1. IInv /\ [Next]_vars =>
        [\A t \in Txs : CommitPublish(t) /\ IsMove(tx[t].u) =>
          LET r == up[tx[t].u]
          IN  /\ MayAct(r.by, r.at) /\ MayAct(r.by, file[r.of].at)
              /\ file[r.of].there /\ file[r.of].seq = r.seq
              /\ \A v \in Uploads : up[v].st = "open" => up[v].kind # "version" \/ up[v].of # r.of]_vars
  BY PublishTakes
<1> QED
  BY Invariance, <1>1, PTL DEF Spec, MoveTakesWhatWasRead

(* Who commits a begin, or publishes as its writer, may act where it lands. *)
LEMMA LandsForMembers ==
    ASSUME IInv, NEW t \in Txs, CommitBegin(t) \/ (CommitPublish(t) /\ tx[t].writer)
    PROVE  MayAct(up[tx[t].u].by, up[tx[t].u].at)
<1>1. CASE CommitBegin(t)
  <2>1. Ready(t, "begin", "reserve")
    BY <1>1 DEF CommitBegin
  <2> QED
    BY <2>1, ReserveFacts
<1>2. CASE CommitPublish(t) /\ tx[t].writer
  <2>1. Ready(t, "finish", "publish")
    BY <1>2 DEF CommitPublish
  <2> QED
    BY <1>2, <2>1, PublishFacts
<1> QED
  BY <1>1, <1>2

(* Nothing a person asked for lands in a family's folder once they are out *)
(* of the family: whoever took them out waited for the folder's rows       *)
(* (departGroup), or missed the membership (departAllForDeletion).         *)
THEOREM NothingAfterLeavingHolds == Spec => NothingAfterLeaving
<1>1. IInv /\ [Next]_vars =>
        [\A t \in Txs : CommitBegin(t) \/ (CommitPublish(t) /\ tx[t].writer) =>
          MayAct(up[tx[t].u].by, up[tx[t].u].at)]_vars
  BY LandsForMembers
<1> QED
  BY Invariance, <1>1, PTL DEF Spec, NothingAfterLeaving

-----------------------------------------------------------------------------
(* What each step is to the ledger. *)

(* The ledger counts what the pool counts. *)
LEMMA AtOnceSame ==
    /\ AtOnce!Workspaces = Workspaces /\ AtOnce!Plans = Plans
    /\ \A w : AtOnce!Total(w) = Total(w) /\ AtOnce!OwnFree(w) = OwnFree(w)
    /\ \A p : AtOnce!Active(p) <=> Active(p)
    /\ \A w, q : AtOnce!PoolFree(w, q) = PoolFree(w, q)
    /\ \A p : AtOnce!AdmissionFits(p) <=> AdmissionFits(p)
<1>1. /\ AtOnce!Workspaces = Workspaces /\ AtOnce!Plans = Plans
      /\ \A p : AtOnce!Active(p) <=> Active(p)
      /\ \A w : AtOnce!Total(w) = Total(w)
  BY DEF AtOnce!Workspaces, Workspaces, AtOnce!Plans, Plans, AtOnce!Active, Active, AtOnce!Total, Total
<1>2. \A w : AtOnce!OwnFree(w) = OwnFree(w)
  BY <1>1 DEF AtOnce!OwnFree, OwnFree
<1>3. ASSUME NEW f, NEW S PROVE AtOnce!SumOf(f, S) = SumOf(f, S)
  BY DEF AtOnce!SumOf, SumOf, AtOnce!MapThenSumSet, MapThenSumSet, AtOnce!MapThenFoldSet, MapThenFoldSet
<1>4. AtOnce!Drawing = Drawing
  BY <1>1 DEF AtOnce!Drawing, Drawing
<1>5. ASSUME NEW S PROVE AtOnce!SumOver(S) = SumOver(S)
  BY <1>1, <1>3 DEF AtOnce!SumOver, SumOver
<1>6. ASSUME NEW b PROVE AtOnce!WholeGibUp(b) = WholeGibUp(b)
  BY DEF AtOnce!WholeGibUp, WholeGibUp
<1>7. AtOnce!CountedReserved = CountedReserved
  <2>1. [p \in AtOnce!Drawing |-> AtOnce!WholeGibUp(AtOnce!Total(p))] = [p \in Drawing |-> WholeGibUp(Total(p))]
    BY <1>1, <1>4, <1>6
  <2>2. AtOnce!WholeGibUp(AtOnce!SumOver(Areas)) = WholeGibUp(SumOver(Areas))
    BY <1>5, <1>6
  <2> QED
    BY <1>3, <1>4, <2>1, <2>2 DEF AtOnce!CountedReserved, CountedReserved
<1>8. ASSUME NEW w, NEW q PROVE AtOnce!PoolFree(w, q) = PoolFree(w, q)
  BY <1>1, <1>5, <1>6, <1>7 DEF AtOnce!PoolFree, PoolFree
<1>9. ASSUME NEW p PROVE AtOnce!AdmissionFits(p) <=> AdmissionFits(p)
  BY <1>1, <1>6, <1>7 DEF AtOnce!AdmissionFits, AdmissionFits
<1> QED
  BY <1>1, <1>2, <1>8, <1>9

(* What a workspace affords fits. *)
LEMMA AtOnceFits ==
    ASSUME NEW w \in Workspaces, NEW n \in Nat
    PROVE  AtOnce!Fits(w, n) <=> Affords(w, n)
BY AtOnceSame DEF AtOnce!Fits, Affords, Draws

Most == Max({Size[f] : f \in Files})

(* No version is larger than the largest. *)
LEMMA MostFacts ==
    ASSUME NEW u \in Files
    PROVE  Most \in Nat /\ Size[u] \in Nat /\ Size[u] <= Most
<1> DEFINE F == {T \in SUBSET Files : T = {} \/ \E m \in T : \A y \in T : Size[y] <= Size[m]}
<1>1. IsFiniteSet(Files) /\ \A f \in Files : Size[f] \in Nat
  BY InstanceAssumption
<1>2. {} \in F
  OBVIOUS
<1>3. ASSUME NEW T \in SUBSET Files, NEW x \in Files \ T, T \in F PROVE T \cup {x} \in F
  <2>1. CASE T = {}
    <3>1. \A y \in T \cup {x} : Size[y] <= Size[x]
      BY <1>1, <2>1
    <3> QED
      BY <3>1
  <2>2. CASE T # {}
    <3>1. PICK m \in T : \A y \in T : Size[y] <= Size[m]
      BY <1>3, <2>2
    <3>2. CASE Size[x] <= Size[m]
      <4>1. \A y \in T \cup {x} : Size[y] <= Size[m]
        BY <3>1, <3>2
      <4> QED
        BY <4>1
    <3>3. CASE ~(Size[x] <= Size[m])
      <4>1. \A y \in T \cup {x} : Size[y] <= Size[x]
        BY <1>1, <3>1, <3>3
      <4> QED
        BY <4>1
    <3> QED
      BY <3>2, <3>3
  <2> QED
    BY <2>1, <2>2
<1> HIDE DEF F
<1>4. Files \in F
  BY <1>1, <1>2, <1>3, FiniteInduction
<1>5. PICK m \in Files : \A y \in Files : Size[y] <= Size[m]
  BY <1>4 DEF F
<1>6. PICK a \in Nat : a = Size[m]
  BY <1>1
<1> DEFINE S == {Size[f] : f \in Files}
<1>7. a \in S /\ \A y \in S : a >= y
  BY <1>1, <1>5, <1>6
<1>8. \A x \in S : (\A y \in S : x >= y) => x = a
  BY <1>1, <1>7
<1> HIDE DEF S
<1>9. Max(S) = a
  BY <1>7, <1>8 DEF Max
<1> QED
  BY <1>1, <1>5, <1>6, <1>9 DEF Most, S

(* A file's bytes are counted where it is. *)
LEMMA FileCounted ==
    ASSUME IInv, NEW f \in Files, NEW w \in Workspaces, file[f].at = w
    PROVE  file[f].bytes \in Nat /\ used[w] \in Nat /\ file[f].bytes <= used[w]
<1>1. IsFiniteSet(Files) /\ Masked /\ used[w] = BytesAt(w) /\ used[w] \in Nat
  BY RowFacts, MaskedHold, InstanceAssumption DEF CountRows
<1>2. BytesAt(w) = SumOf(BytesOf(w), Files) /\ \A x \in Files : BytesOf(w)[x] \in Nat
  BY <1>1 DEF Masked
<1>3. SumOf(BytesOf(w), Files) = BytesOf(w)[f] + SumOf(BytesOf(w), Files \ {f})
  BY <1>1, <1>2, SumRemove
<1>4. SumOf(BytesOf(w), Files \ {f}) \in Nat
  <2>1. IsFiniteSet(Files \ {f}) /\ \A x \in Files \ {f} : BytesOf(w)[x] \in Nat
    BY <1>1, <1>2, FS_RemoveElement
  <2> QED
    BY <2>1, SumNat
<1>5. BytesOf(w)[f] = file[f].bytes /\ file[f].bytes \in Nat
  BY RowFacts DEF BytesOf, FileRow
<1> QED
  BY <1>1, <1>2, <1>3, <1>4, <1>5

(* An upload's reservation is counted where it lands. *)
LEMMA UploadCounted ==
    ASSUME IInv, NEW u \in Uploads, NEW w \in Workspaces, up[u].at = w
    PROVE  up[u].res \in Nat /\ reserved[w] \in Nat /\ up[u].res <= reserved[w]
<1>1. IsFiniteSet(Uploads) /\ Masked /\ reserved[w] = ReservedAt(w) /\ reserved[w] \in Nat
  BY RowFacts, MaskedHold, InstanceAssumption, FS_Subset DEF CountRows, Files
<1>2. ReservedAt(w) = SumOf(ResOf(w), Uploads) /\ \A x \in Uploads : ResOf(w)[x] \in Nat
  BY <1>1 DEF Masked
<1>3. SumOf(ResOf(w), Uploads) = ResOf(w)[u] + SumOf(ResOf(w), Uploads \ {u})
  BY <1>1, <1>2, SumRemove
<1>4. SumOf(ResOf(w), Uploads \ {u}) \in Nat
  <2>1. IsFiniteSet(Uploads \ {u}) /\ \A x \in Uploads \ {u} : ResOf(w)[x] \in Nat
    BY <1>1, <1>2, FS_RemoveElement
  <2> QED
    BY <2>1, SumNat
<1>5. ResOf(w)[u] = up[u].res /\ up[u].res \in Nat
  BY RowFacts DEF ResOf, UpRow
<1> QED
  BY <1>1, <1>2, <1>3, <1>4, <1>5

(* A lean move judged once the plan has ended is between folders. *)
LEMMA BarePublishes ==
    ASSUME IInv, NEW t \in Txs, Ready(t, "finish", "publish"), IsMove(tx[t].u), Lean(tx[t].u),
           ~tx[t].live
    PROVE  {up[tx[t].u].at, Source(tx[t].u)} \subseteq Areas
<1>1. tx[t].op = "finish" /\ tx[t].verdict = "publish" /\ TxOK(tx[t])
  BY RowFacts DEF Ready
<1>2. Inside(tx[t])
  BY <1>1 DEF TxOK, FinishOK, Entering
<1> QED
  BY <1>1, <1>2 DEF Inside

(* A begin reserves, or takes for a copy, what its workspace affords. *)
LEMMA LedgerBegin ==
    ASSUME IInv, NEW t \in Txs, CommitBegin(t)
    PROVE  AtOnce!LedgerNext
<1>1. PICK u \in Uploads, w \in Workspaces, n \in Nat :
               /\ u = tx[t].u /\ w = up[u].at /\ n = tx[t].cost /\ Affords(w, n) /\ n <= Size[u]
  BY ReserveFacts DEF CommitBegin
<1>2. u \in Files /\ n \in 0..Most
  BY <1>1, MostFacts DEF Files
<1>3. AtOnce!Fits(w, n) /\ w \in AtOnce!Workspaces
  BY <1>1, AtOnceFits, AtOnceSame
<1>4. CASE up[u].kind = "copy"
  <2>1. AtOnce!Take(w, n)
    BY <1>1, <1>3, <1>4 DEF CommitBegin, AtOnce!Take, AtOnce!family, family
  <2> QED
    BY <1>2, <1>3, <2>1 DEF AtOnce!LedgerNext, Most
<1>5. CASE up[u].kind # "copy"
  <2>1. AtOnce!Reserve(w, n)
    BY <1>1, <1>3, <1>5 DEF CommitBegin, AtOnce!Reserve, AtOnce!family, family
  <2> QED
    BY <1>2, <1>3, <2>1 DEF AtOnce!LedgerNext, Most
<1> QED
  BY <1>4, <1>5

(* A reservation that goes unused is given back. *)
LEMMA LedgerGivesBack ==
    ASSUME IInv, NEW u \in Uploads, up[u].st = "open",
           reserved' = [reserved EXCEPT ![up[u].at] = @ - up[u].res],
           UNCHANGED <<family, used>>
    PROVE  AtOnce!LedgerNext
<1>1. PICK w \in Workspaces : w = up[u].at
  BY RowFacts, UnderFacts
<1>2. PICK n \in Nat : n = up[u].res /\ n \in 0..reserved[w]
  BY <1>1, UploadCounted
<1>3. used' = [used EXCEPT ![w] = @ - 0] /\ 0 \in 0..used[w]
  <2>1. used \in [Workspaces -> Nat]
    BY RowFacts DEF CountRows
  <2> QED
    BY <2>1
<1>4. AtOnce!GiveBack(w, n, 0)
  BY <1>1, <1>2, <1>3 DEF AtOnce!GiveBack, AtOnce!family, family
<1>5. w \in AtOnce!Workspaces
  BY AtOnceSame
<1> QED
  BY <1>2, <1>3, <1>4, <1>5 DEF AtOnce!LedgerNext

(* A deleted file's bytes are given back. *)
LEMMA LedgerDeletes ==
    ASSUME IInv, NEW f \in Files, DeleteFile(f)
    PROVE  AtOnce!LedgerNext
<1>1. PICK w \in Workspaces : w = file[f].at
  BY RowFacts DEF FileOK, DeleteFile
<1>2. PICK n \in Nat : n = file[f].bytes /\ n \in 0..used[w]
  BY <1>1, FileCounted
<1>3. reserved' = [reserved EXCEPT ![w] = @ - 0] /\ 0 \in 0..reserved[w]
  <2>1. reserved \in [Workspaces -> Nat]
    BY RowFacts DEF CountRows
  <2> QED
    BY <2>1 DEF DeleteFile
<1>4. AtOnce!GiveBack(w, 0, n)
  BY <1>1, <1>2, <1>3 DEF AtOnce!GiveBack, AtOnce!family, family, DeleteFile
<1>5. w \in AtOnce!Workspaces
  BY AtOnceSame
<1> QED
  BY <1>2, <1>3, <1>4, <1>5 DEF AtOnce!LedgerNext

(* What lands in place is what was reserved for it; what it displaces goes. *)
LEMMA LedgerLands ==
    ASSUME IInv, NEW t \in Txs, NEW u \in Uploads, NEW w \in Workspaces, NEW n \in Nat,
           NEW node, NEW row, NEW added \in Int, Lands(t, u, w, n, node, row, added),
           w = up[u].at, n = up[u].res, n - added \in 0..used[w]
    PROVE  \E m \in 0..reserved[w], freed \in 0..used[w] : AtOnce!Land(w, m, freed)
<1>1. n \in 0..reserved[w]
  BY UploadCounted
<1>2. PICK freed \in 0..used[w] : freed = n - added
  OBVIOUS
<1>3. used' = [used EXCEPT ![w] = @ + n - freed]
  <2>1. used[w] + added = used[w] + n - freed
    BY <1>2, RowFacts
  <2>2. used' = [used EXCEPT ![w] = @ + added]
    BY DEF Lands
  <2> QED
    BY <2>1, <2>2
<1>4. AtOnce!Land(w, n, freed)
  BY <1>3 DEF Lands, AtOnce!Land, AtOnce!family, family
<1> QED
  BY <1>1, <1>2, <1>4

(* A move's copy takes no more than its source gives back, and more than   *)
(* was reserved for it only within the pool.                               *)
LEMMA LedgerMoves ==
    ASSUME IInv, NEW t \in Txs, NEW u \in Uploads, NEW w \in Workspaces, NEW n \in Nat,
           NEW e \in Files, NEW source \in Workspaces, NEW freed \in Nat,
           Moves(t, u, w, n, e, source, freed),
           w = up[u].at, n = up[u].res, source = file[e].at, freed = file[e].bytes, source # w,
           n <= Size[u], Size[u] <= n + freed,
           Size[u] = n \/ (Draws(w) /\ Draws(source)),
           Size[u] = n \/ tx[t].live \/ {w, source} \subseteq Areas
    PROVE  \E m \in 0..reserved[w], f \in 0..used[source] : \E size \in m..(m + f) :
               /\ AtOnce!Move(w, source, m, size, f)
               /\ size = m \/ tx[t].live \/ {w, source} \subseteq Areas
<1>1. n \in 0..reserved[w] /\ freed \in 0..used[source]
  BY UploadCounted, FileCounted
<1>2. PICK size \in Nat : size = Size[u]
  BY MostFacts DEF Files
<1>3. size \in n..(n + freed)
  BY <1>2
<1>4. size = n \/ \A x \in {w, source} \cap People : AtOnce!Active(x)
  BY <1>2, AtOnceSame DEF Draws
<1>5. /\ used' = [used EXCEPT ![w] = @ + size, ![source] = @ - freed]
      /\ reserved' = [reserved EXCEPT ![w] = @ - n] /\ UNCHANGED <<member, plan>>
  BY <1>2 DEF Moves, family
<1>6. AtOnce!Move(w, source, n, size, freed)
  BY <1>4, <1>5 DEF AtOnce!Move, AtOnce!family
<1>7. size = n \/ tx[t].live \/ {w, source} \subseteq Areas
  BY <1>2
<1> QED
  BY <1>1, <1>3, <1>6, <1>7

(* A completion lands what was reserved, or moves. *)
LEMMA PublishLedger ==
    ASSUME IInv, NEW t \in Txs, CommitPublish(t)
    PROVE  \/ \E w \in Workspaces : \E n \in 0..reserved[w], freed \in 0..used[w] :
                  AtOnce!Land(w, n, freed)
           \/ \E w, source \in Workspaces : \E n \in 0..reserved[w], freed \in 0..used[source] :
                  \E size \in n..(n + freed) :
                     /\ AtOnce!Move(w, source, n, size, freed)
                     /\ size = n \/ tx[t].live \/ {w, source} \subseteq Areas
<1>1. PICK u \in Uploads, w \in Workspaces, n \in Nat :
               /\ u = tx[t].u /\ w = up[u].at /\ n = up[u].res /\ up[u].st = "open" /\ Under(u)
               /\ file[u].at = Nothing /\ ~file[u].there /\ OwnEnd(u) /\ MoverMay(u)
               /\ up[u].kind \in {"new", "version", "move"}
               /\ {Ws(w), Store(w)} \subseteq tx[t].have
               /\ n <= Size[u] /\ Size[u] <= n + up[u].freed
               /\ up[u].kind # "move" => n = Size[u]
               /\ up[u].kind = "version" => up[u].of \in Files /\ file[up[u].of].there /\ file[up[u].of].at = w
               /\ IsMove(u) => /\ SourceAsBegun(u) /\ up[u].of \in Files
                               /\ Source(u) \in Workspaces /\ Source(u) # w
                               /\ {Ws(Source(u)), Store(Source(u))} \subseteq tx[t].have
               /\ IsMove(u) /\ Lean(u) => Pool \in tx[t].have /\ Draws(w) /\ Draws(Source(u))
               /\ tx[t].writer => MayAct(up[u].by, w)
  BY PublishFacts DEF CommitPublish
<1>2. u \in Files /\ Size[u] \in Nat /\ Nothing \notin Workspaces
  BY InstanceAssumption DEF Files
<1>3. CASE up[u].kind = "new"
  <2>1. Lands(t, u, w, n, u, OneVersion(u, w), Size[u] - 0)
    BY <1>1, <1>3, PublishShape
  <2>2. n - (Size[u] - 0) = 0 /\ Size[u] - 0 \in Int /\ used[w] \in Nat
    BY <1>1, <1>2, <1>3, RowFacts DEF CountRows
  <2>3. n - (Size[u] - 0) \in 0..used[w]
    BY <2>2
  <2> QED
    BY <1>1, <2>1, <2>2, <2>3, LedgerLands
<1>4. CASE up[u].kind = "version"
  <2>1. PICK f \in Files : f = up[u].of /\ file[f].there /\ file[f].at = w
    BY <1>1, <1>4
  <2>2. n = Size[u] /\ file[f].at # Nothing
    BY <1>1, <1>2, <1>4, <2>1
  <2>3. PICK b \in Nat, c \in Nat : b = file[f].bytes /\ c = file[f].cur /\ c <= b
    BY RowFacts DEF FileRow, FileOK
  <2>4. PICK row : row = [file[f] EXCEPT !.bytes = Size[u] + file[f].cur, !.cur = Size[u], !.seq = @ + 1]
    OBVIOUS
  <2>5. row.bytes = Size[u] + c
    BY <2>3, <2>4, RowFacts DEF FileRow
  <2>6. PICK added \in Int : added = row.bytes - file[f].bytes
    BY <1>2, <2>3, <2>5
  <2>7. Lands(t, u, w, n, f, row, added)
    BY <1>1, <1>4, <2>1, <2>2, <2>4, <2>6, PublishShape
  <2>8. n - added = b - c /\ b <= used[w] /\ used[w] \in Nat
    BY <1>2, <2>1, <2>2, <2>3, <2>5, <2>6, FileCounted
  <2>9. n - added \in 0..used[w]
    BY <2>3, <2>8
  <2> QED
    BY <1>1, <2>7, <2>9, LedgerLands
<1>5. CASE IsMove(u)
  <2>1. PICK e \in Files : e = up[u].of
    BY <1>1, <1>5
  <2>2. PICK source \in Workspaces : source = file[e].at /\ source = Source(u)
    BY <1>1, <1>5, <2>1 DEF Source
  <2>3. PICK freed \in Nat : freed = file[e].bytes
    BY RowFacts DEF FileRow
  <2>4. file[e].there /\ e # u /\ freed = up[u].freed
    BY <1>1, <1>2, <1>5, <2>1, <2>2, <2>3 DEF SourceAsBegun
  <2>5. Moves(t, u, w, n, e, source, freed)
    BY <1>1, <1>5, <2>1, <2>2, <2>3, <2>4, PublishShape, ZenonT(40)
  <2>6. Size[u] = n \/ (Draws(w) /\ Draws(source))
    BY <1>1, <1>2, <1>5, <2>2 DEF Lean
  <2>7. Size[u] = n \/ tx[t].live \/ {w, source} \subseteq Areas
    <3>1. Lean(u) /\ ~tx[t].live => {up[u].at, Source(u)} \subseteq Areas
      BY <1>1, <1>5, BarePublishes DEF CommitPublish
    <3>2. Lean(u) \/ Size[u] = n
      BY <1>1, <1>2 DEF Lean
    <3> QED
      BY <1>1, <2>2, <3>1, <3>2
  <2>8. \E m \in 0..reserved[w], f \in 0..used[source] : \E size \in m..(m + f) :
            /\ AtOnce!Move(w, source, m, size, f)
            /\ size = m \/ tx[t].live \/ {w, source} \subseteq Areas
    <3>1. w = up[u].at /\ n = up[u].res /\ source = file[e].at /\ freed = file[e].bytes
      BY <1>1, <2>2, <2>3
    <3>2. source # w
      BY <1>1, <1>5, <2>2
    <3>3. n <= Size[u] /\ Size[u] <= n + freed
      BY <1>1, <2>4
    <3> QED
      BY <2>5, <2>6, <2>7, <3>1, <3>2, <3>3, LedgerMoves
  <2> QED
    BY <2>8
<1> QED
  BY <1>1, <1>3, <1>4, <1>5 DEF IsMove

LEMMA LedgerPublish ==
    ASSUME IInv, NEW t \in Txs, CommitPublish(t)
    PROVE  AtOnce!LedgerNext
BY PublishLedger, AtOnceSame DEF AtOnce!LedgerNext

(* Someone is admitted while the pool has room for them, or leaves. *)
LEMMA LedgerMember ==
    ASSUME IInv, NEW t \in Txs, CommitMember(t)
    PROVE  AtOnce!LedgerNext \/ UNCHANGED <<family, storage>>
<1>1. tx[t].p \in People
  BY FamilyReady DEF CommitMember
<1>2. PICK p \in People : p = tx[t].p
  BY <1>1
<1>3. CASE Ready(t, "admit", "none") /\ member' = [member EXCEPT ![p] = "active"]
  <2>1. FamilyOK(tx[t]) /\ tx[t].op = "admit" /\ tx[t].have = FamilyLocks(tx[t])
    BY <1>3, FamilyReady
  <2>2. Store(p) \in tx[t].have
    BY <1>2, <2>1 DEF FamilyLocks
  <2>3. member[p] = "accepted" /\ AtOnce!AdmissionFits(p)
    BY <1>2, <2>1, <2>2, AtOnceSame DEF FamilyOK
  <2>4. AtOnce!Admit(p)
    BY <1>3, <2>3 DEF CommitMember, AtOnce!Admit, AtOnce!storage, storage
  <2> QED
    BY <2>4 DEF AtOnce!LedgerNext
<1>4. CASE Ready(t, "leave", "none") /\ member' = [member EXCEPT ![p] = IF @ = "gone" THEN @ ELSE "out"]
  <2>1. CASE member[p] = "gone"
    <3>1. member' = member
      BY <1>4, <2>1, RowFacts
    <3> QED
      BY <1>4, <3>1 DEF CommitMember, family
  <2>2. CASE member[p] # "gone"
    <3>1. member' = [member EXCEPT ![p] = "out"]
      BY <1>4, <2>2, RowFacts
    <3>2. AtOnce!Stand(p, "out")
      BY <1>4, <2>2, <3>1 DEF CommitMember, AtOnce!Stand, AtOnce!storage, storage
    <3> QED
      BY <3>2 DEF AtOnce!LedgerNext
  <2> QED
    BY <2>1, <2>2
<1> QED
  BY <1>2, <1>3, <1>4 DEF CommitMember

(* Invitations, holds, deletions and the plan are the ledger's own steps.  *)
LEMMA LedgerFamily ==
    ASSUME IInv
    PROVE  /\ \A p \in People : AcceptInvitation(p) \/ PlaceHold(p) \/ HoldEnds(p) => AtOnce!LedgerNext
           /\ \A t \in Txs : CommitDelete(t) \/ CommitPlan(t) => AtOnce!LedgerNext
           /\ PlanExpires => AtOnce!LedgerNext
<1>1. ASSUME NEW p \in People, AcceptInvitation(p) PROVE AtOnce!LedgerNext
  <2>1. AtOnce!Stand(p, "accepted")
    BY <1>1 DEF AcceptInvitation, AtOnce!Stand, AtOnce!storage, storage
  <2> QED
    BY <2>1 DEF AtOnce!LedgerNext
<1>2. ASSUME NEW p \in People, PlaceHold(p) PROVE AtOnce!LedgerNext
  <2>1. AtOnce!Stand(p, "held")
    BY <1>2 DEF PlaceHold, AtOnce!Stand, AtOnce!storage, storage, AtOnce!Active
  <2> QED
    BY <2>1 DEF AtOnce!LedgerNext
<1>3. ASSUME NEW p \in People, HoldEnds(p) PROVE AtOnce!LedgerNext
  <2>1. AtOnce!Stand(p, "active")
    BY <1>3 DEF HoldEnds, AtOnce!Stand, AtOnce!storage, storage, AtOnce!Active
  <2> QED
    BY <2>1 DEF AtOnce!LedgerNext
<1>4. ASSUME NEW t \in Txs, CommitDelete(t) PROVE AtOnce!LedgerNext
  <2>1. PICK p \in People : p = tx[t].p
    BY <1>4, FamilyReady DEF CommitDelete
  <2>2. AtOnce!Delete(p)
    BY <1>4, <2>1 DEF CommitDelete, AtOnce!Delete
  <2> QED
    BY <2>2 DEF AtOnce!LedgerNext
<1>5. ASSUME NEW t \in Txs, CommitPlan(t) PROVE AtOnce!LedgerNext
  <2>1. AtOnce!SetPlan
    BY <1>5, AtOnceSame DEF CommitPlan, AtOnce!SetPlan, AtOnce!storage, storage
  <2> QED
    BY <2>1 DEF AtOnce!LedgerNext
<1>6. ASSUME PlanExpires PROVE AtOnce!LedgerNext
  <2>1. AtOnce!SetPlan
    BY <1>6, AtOnceSame DEF PlanExpires, AtOnce!SetPlan, AtOnce!storage, storage
  <2> QED
    BY <2>1 DEF AtOnce!LedgerNext
<1> QED
  BY <1>1, <1>2, <1>3, <1>4, <1>5, <1>6

(* Whatever a step does, the ledger makes it at one instant, or sees nothing. *)
LEMMA LedgerStep ==
    ASSUME IInv, [Next]_vars
    PROVE  [AtOnce!LedgerNext]_(AtOnce!Ledger)
<1> SUFFICES ASSUME ~UNCHANGED <<family, storage>> PROVE AtOnce!LedgerNext
  BY DEF AtOnce!Ledger, family, storage
<1>1. CASE UNCHANGED vars
  BY <1>1 DEF vars, family, storage
<1>2. ASSUME NEW t \in Txs, NEW u \in Uploads, NEW p \in People, NEW w \in Workspaces,
             NEW f \in Files \cup {Nothing}, NEW k \in Kinds[u], BeginUpload(t, u, k, w, p, f)
      PROVE  FALSE
  BY <1>2 DEF BeginUpload
<1>3. ASSUME NEW t \in Txs,
             \/ BeginAtWorkspace(t) \/ TakePool(t) \/ BeginFigures(t) \/ BeginMoving(t)
             \/ FinishAtWorkspace(t) \/ FinishAtStore(t) \/ ApplyPlan(t) \/ TakeInTurn(t) \/ AdmitFigures(t)
      PROVE  FALSE
  BY <1>3 DEF BeginAtWorkspace, TakePool, BeginFigures, BeginMoving, FinishAtWorkspace, FinishAtStore,
              ApplyPlan, TakeInTurn, AdmitFigures
<1>4. ASSUME NEW t \in Txs, NEW u \in Uploads, NEW writer \in BOOLEAN, FinishCompleting(t, u, writer)
      PROVE  FALSE
  BY <1>4 DEF FinishCompleting
<1>5. ASSUME NEW t \in Txs, NEW p \in People, AdmitMember(t, p) \/ LeaveFamily(t, p) \/ DeleteAccount(t, p)
      PROVE  FALSE
  BY <1>5 DEF AdmitMember, LeaveFamily, DeleteAccount
<1>6. ASSUME NEW t \in Txs, CommitBegin(t) PROVE AtOnce!LedgerNext
  BY <1>6, LedgerBegin
<1>7. ASSUME NEW t \in Txs, CommitPublish(t) PROVE AtOnce!LedgerNext
  BY <1>7, LedgerPublish
<1>8. ASSUME NEW t \in Txs, CommitRelease(t) PROVE AtOnce!LedgerNext
  <2>1. tx[t].op = "finish" /\ tx[t].verdict = "release" /\ tx[t].want = <<>>
    BY <1>8 DEF CommitRelease, Ready
  <2>2. PICK u \in Uploads : u = tx[t].u /\ up[u].st = "open"
    BY <2>1, RowFacts DEF TxOK, FinishOK, Entering, Inside
  <2>3. reserved' = [reserved EXCEPT ![up[u].at] = @ - up[u].res] /\ UNCHANGED <<family, used>>
    BY <1>8, <2>2 DEF CommitRelease
  <2> QED
    BY <2>2, <2>3, LedgerGivesBack
<1>9. ASSUME NEW u \in Uploads, AbortUpload(u) PROVE AtOnce!LedgerNext
  <2>1. /\ up[u].st = "open" /\ reserved' = [reserved EXCEPT ![up[u].at] = @ - up[u].res]
        /\ UNCHANGED <<family, used>>
    BY <1>9 DEF AbortUpload
  <2> QED
    BY <2>1, LedgerGivesBack
<1>10. ASSUME NEW f \in Files, DeleteFile(f) PROVE AtOnce!LedgerNext
  BY <1>10, LedgerDeletes
<1>11. ASSUME NEW t \in Txs, CommitMember(t) PROVE AtOnce!LedgerNext
  BY <1>11, LedgerMember
<1>12. ASSUME NEW t \in Txs, CommitDelete(t) \/ CommitPlan(t) PROVE AtOnce!LedgerNext
  BY <1>12, LedgerFamily
<1>13. ASSUME NEW p \in People, AcceptInvitation(p) \/ PlaceHold(p) \/ HoldEnds(p) PROVE AtOnce!LedgerNext
  BY <1>13, LedgerFamily
<1>14. CASE PlanExpires
  BY <1>14, LedgerFamily
<1> QED
  BY <1>1, <1>2, <1>3, <1>4, <1>5, <1>6, <1>7, <1>8, <1>9, <1>10, <1>11, <1>12, <1>13, <1>14 DEF Next

(* The counters start exact, and nothing is reserved. *)
LEMMA LedgerStart == Init => AtOnce!LedgerInit
<1> SUFFICES ASSUME Init PROVE AtOnce!LedgerInit
  OBVIOUS
<1>1. used \in [Workspaces -> Nat]
  BY InitInv, RowFacts DEF CountRows
<1> QED
  BY <1>1, AtOnceSame DEF Init, AtOnce!LedgerInit

(* Every transaction takes effect at its commit as if it were alone,       *)
(* judged by the pool as it stands then: the locks, the retries and what   *)
(* is read between them come to the ledger.                                *)
THEOREM KeepsLedgerHolds == Spec => KeepsLedger
<1> QED
  BY Invariance, LedgerStart, LedgerStep, PTL DEF Spec, KeepsLedger, AtOnce!LedgerSpec

-----------------------------------------------------------------------------
(* What the ledger keeps within the plan. *)

(* Who takes how much, and whose bytes the pool counts.                    *)
Takes == [w \in Workspaces |-> Total(w)]
Counted == Areas \cup Drawing
CountedOnce == /\ PoolBytes = SumOf(Takes, Counted) /\ Counted \subseteq Workspaces /\ IsFiniteSet(Counted)
        /\ \A w \in Workspaces : Takes[w] = Total(w) /\ Takes[w] \in Nat

(* The pool's bytes are one sum. *)
LEMMA OnceHold == CountRows => CountedOnce
<1> SUFFICES ASSUME CountRows PROVE CountedOnce
  OBVIOUS
<1>1. /\ Counts /\ Areas \subseteq Workspaces /\ Drawing \subseteq Workspaces
      /\ IsFiniteSet(Areas) /\ IsFiniteSet(Drawing)
  BY CountsHold, PoolAssumption DEF Counts, Workspaces
<1>2. Counted \subseteq Workspaces /\ IsFiniteSet(Counted)
  BY <1>1, FS_Union DEF Counted
<1>3. \A w \in Workspaces : Takes[w] = Total(w) /\ Takes[w] \in Nat
  BY <1>1 DEF Counts, Takes
<1>4. ASSUME NEW S \in SUBSET Workspaces, IsFiniteSet(S) PROVE SumOver(S) = SumOf(Takes, S)
  <2> DEFINE f == [w \in S |-> Total(w)]
  <2>1. \A w \in S : Takes[w] \in Int /\ f[w] = Takes[w]
    BY <1>3
  <2>2. SumOf(f, S) = SumOf(Takes, S)
    <3> HIDE DEF f
    <3> QED
      BY <1>4, <2>1, SumAgree
  <2> QED
    BY <2>2 DEF SumOver
<1>5. SumOf(Takes, Counted) = SumOf(Takes, Counted \ Drawing) + SumOf(Takes, Drawing)
  <2>1. Drawing \in SUBSET Counted /\ \A w \in Counted : Takes[w] \in Int
    BY <1>2, <1>3 DEF Counted
  <2> QED
    BY <1>2, <2>1, SumSplit
<1>6. Counted \ Drawing = Areas
  BY <1>1, PoolAssumption DEF Counted, Counts
<1>7. PoolBytes = SumOver(Areas) + SumOver(Drawing)
  BY DEF PoolBytes
<1> QED
  BY <1>1, <1>2, <1>3, <1>4, <1>5, <1>6, <1>7 DEF CountedOnce

(* And after a step. *)
LEMMA OnceHoldNext == CountRows' => CountedOnce'
BY OnceHold, PTL

(* One workspace of the pool takes more or less. *)
LEMMA PoolChange ==
    ASSUME CountRows, CountRows', Drawing' = Drawing, NEW w \in Counted, NEW a \in Int,
           Total(w)' = Total(w) + a, \A x \in Counted \ {w} : Total(x)' = Total(x)
    PROVE  PoolBytes' = PoolBytes + a
<1>1. CountedOnce /\ CountedOnce'
  BY OnceHold, OnceHoldNext
<1>2. PICK f : f = Takes
  OBVIOUS
<1>3. PICK g : g = Takes'
  OBVIOUS
<1>4. PICK S : S = Counted /\ S = Counted' /\ w \in S
  BY DEF Counted
<1>5. /\ PoolBytes = SumOf(f, S) /\ PoolBytes' = SumOf(g, S) /\ IsFiniteSet(S)
      /\ \A x \in S : f[x] = Total(x) /\ f[x] \in Int /\ g[x] = Total(x)' /\ g[x] \in Int
  BY <1>1, <1>2, <1>3, <1>4 DEF CountedOnce
<1>6. DifferAt(f, g, S, w)
  BY <1>4, <1>5 DEF DifferAt
<1>7. SumOf(g, S) = SumOf(f, S) + g[w] - f[w]
  BY <1>4, <1>5, <1>6, SumDiffer
<1>8. SumOf(f, S) \in Int
  BY <1>5, SumType
<1> QED
  BY <1>4, <1>5, <1>7, <1>8

(* Sums of functions that differ in two places. *)
DifferAtTwo(f, g, S, w, v) ==
    \A x \in S : f[x] \in Int /\ g[x] \in Int /\ (x \notin {w, v} => g[x] = f[x])

LEMMA SumDifferTwo ==
    ASSUME NEW S, IsFiniteSet(S), NEW f, NEW g, NEW w \in S, NEW v \in S, w # v,
           DifferAtTwo(f, g, S, w, v)
    PROVE  SumOf(g, S) = SumOf(f, S) + (g[w] - f[w]) + (g[v] - f[v])
<1> DEFINE h == [x \in S |-> IF x = w THEN g[x] ELSE f[x]]
<1>1. DifferAt(f, h, S, w)
  BY DEF DifferAt, DifferAtTwo
<1>2. DifferAt(h, g, S, v)
  BY DEF DifferAt, DifferAtTwo
<1>3. h[w] = g[w] /\ h[v] = f[v]
  OBVIOUS
<1> HIDE DEF h
<1>4. SumOf(h, S) = SumOf(f, S) + h[w] - f[w]
  BY <1>1, SumDiffer
<1>5. SumOf(g, S) = SumOf(h, S) + g[v] - h[v]
  BY <1>2, SumDiffer
<1>6. SumOf(f, S) \in Int
  BY SumType DEF DifferAtTwo
<1> QED
  BY <1>3, <1>4, <1>5, <1>6 DEF DifferAtTwo

(* Two of them do. *)
LEMMA PoolChangeTwo ==
    ASSUME CountRows, CountRows', Drawing' = Drawing, NEW w \in Counted, NEW v \in Counted, w # v,
           NEW a \in Int, NEW b \in Int, Total(w)' = Total(w) + a, Total(v)' = Total(v) + b,
           \A x \in Counted \ {w, v} : Total(x)' = Total(x)
    PROVE  PoolBytes' = PoolBytes + a + b
<1>1. CountedOnce /\ CountedOnce'
  BY OnceHold, OnceHoldNext
<1>2. PICK f : f = Takes
  OBVIOUS
<1>3. PICK g : g = Takes'
  OBVIOUS
<1>4. PICK S : S = Counted /\ S = Counted' /\ w \in S /\ v \in S
  BY DEF Counted
<1>5. /\ PoolBytes = SumOf(f, S) /\ PoolBytes' = SumOf(g, S) /\ IsFiniteSet(S)
      /\ \A x \in S : f[x] = Total(x) /\ f[x] \in Int /\ g[x] = Total(x)' /\ g[x] \in Int
  BY <1>1, <1>2, <1>3, <1>4 DEF CountedOnce
<1>6. DifferAtTwo(f, g, S, w, v)
  <2> SUFFICES ASSUME NEW x \in S
               PROVE  f[x] \in Int /\ g[x] \in Int /\ (x \notin {w, v} => g[x] = f[x])
    BY DEF DifferAtTwo
  <2>1. f[x] = Total(x) /\ f[x] \in Int /\ g[x] = Total(x)' /\ g[x] \in Int /\ x \in Counted
    BY <1>4, <1>5
  <2> QED
    BY <2>1
<1>7. SumOf(g, S) = SumOf(f, S) + (g[w] - f[w]) + (g[v] - f[v])
  BY <1>4, <1>5, <1>6, SumDifferTwo
<1>8. SumOf(f, S) \in Int
  BY <1>5, SumType
<1>9. g[w] = f[w] + a /\ g[v] = f[v] + b /\ f[w] \in Int /\ f[v] \in Int
  BY <1>4, <1>5
<1> QED
  BY <1>5, <1>7, <1>8, <1>9

(* A newcomer's bytes come with them. *)
LEMMA PoolGrows ==
    ASSUME CountRows, CountRows', NEW p \in People \ Drawing, Drawing' = Drawing \cup {p},
           \A x \in Workspaces : Total(x)' = Total(x)
    PROVE  PoolBytes' = PoolBytes + Total(p)
<1>1. CountedOnce /\ CountedOnce' /\ p \in Workspaces /\ p \notin Counted
  BY OnceHold, OnceHoldNext, PoolAssumption DEF Workspaces, Counted
<1>2. PICK f : f = Takes /\ f = Takes'
  BY DEF Takes
<1>3. PICK S : S = Counted
  OBVIOUS
<1>4. Counted' = S \cup {p}
  BY <1>3 DEF Counted
<1>5. /\ PoolBytes = SumOf(f, S) /\ PoolBytes' = SumOf(f, S \cup {p}) /\ IsFiniteSet(S)
      /\ f[p] = Total(p) /\ \A x \in S \cup {p} : f[x] \in Int
  BY <1>1, <1>2, <1>3, <1>4 DEF CountedOnce
<1>6. SumOf(f, S \cup {p}) = f[p] + SumOf(f, S)
  BY <1>1, <1>3, <1>5, SumInsert
<1>7. SumOf(f, S) \in Int
  BY <1>5, SumType
<1> QED
  BY <1>5, <1>6, <1>7

(* What a step may raise. *)
Within ==
    /\ plan.live /\ plan'.live /\ PoolBytes' > PoolBytes => PoolBytes' <= plan'.quota
    /\ \A p \in People : ~Active(p) /\ ~Active(p)' /\ Total(p)' > Total(p) => Total(p)' <= Base

(* A step after which nobody takes more raises nothing. *)
LEMMA NothingRises ==
    ASSUME CountRows, CountRows', Drawing' \subseteq Drawing, \A w \in Workspaces : Total(w)' <= Total(w)
    PROVE  Within
<1>1. Counts /\ Counts'
  BY CountsHold, CountsHoldNext
<1>2. \A w \in Areas \cup Drawing' : w \in Workspaces
  BY <1>1 DEF Counts, Workspaces
<1>3. PoolBytes' <= PoolBytes
  BY <1>2, CountMono
<1>4. PoolBytes \in Nat /\ PoolBytes' \in Nat
  BY <1>1 DEF Counts
<1>5. \A p \in People : Total(p)' <= Total(p) /\ Total(p) \in Nat /\ Total(p)' \in Nat
  BY <1>1 DEF Counts, Workspaces
<1> QED
  BY <1>3, <1>4, <1>5 DEF Within

(* What a workspace affords stays within the plan, or its own allowance.   *)
LEMMA AffordedWithin ==
    ASSUME CountRows, CountRows', member' = member, plan' = plan,
           NEW w \in Workspaces, NEW n \in Nat, Affords(w, n),
           Total(w)' = Total(w) + n, \A x \in Workspaces \ {w} : Total(x)' = Total(x)
    PROVE  Within
<1>1. Counts /\ Counts' /\ plan.quota \in Nat /\ Base \in Nat
  BY CountsHold, CountsHoldNext, PoolAssumption DEF CountRows
<1>2. /\ Total(w) \in Nat /\ PoolBytes \in Nat /\ PoolBytes' \in Nat /\ Drawing' = Drawing
      /\ \A x \in Workspaces : Total(x) \in Nat /\ Total(x)' \in Nat
  BY <1>1 DEF Counts, Drawing, Active
<1>3. CASE Draws(w) /\ n <= PoolFree(w, plan.quota)
  <2>1. w \in Counted /\ \A x \in Counted : x \in Workspaces
    BY <1>1, <1>3 DEF Counted, Counts, Draws, Drawing, Workspaces
  <2>2. PoolBytes' = PoolBytes + n
    BY <1>2, <2>1, PoolChange
  <2>3. PoolBytes + n <= plan.quota
    <3>1. CASE w \in Areas
      <4>1. PoolFree(w, plan.quota) = plan.quota - CountedReserved /\ CountedReserved \in Nat
        BY <1>1, <1>3, <3>1 DEF Counts
      <4>2. PoolBytes <= CountedReserved
        BY BytesUnder
      <4> QED
        BY <1>1, <1>2, <1>3, <4>1, <4>2
    <3>2. CASE w \in People
      <4>1. /\ PoolFree(w, plan.quota) = plan.quota - Others(w) - Total(w)
            /\ w \in Drawing /\ Others(w) \in Nat
        BY <1>1, <1>3, <3>2 DEF Counts
      <4>2. PoolBytes <= Others(w) + Total(w)
        BY <4>1, BytesUnder
      <4> QED
        BY <1>1, <1>2, <1>3, <4>1, <4>2
    <3> QED
      BY <3>1, <3>2 DEF Workspaces
  <2>4. \A p \in People : ~Active(p) => p # w /\ p \in Workspaces
    BY <1>3 DEF Draws, Workspaces
  <2>5. \A p \in People : ~Active(p) => ~(Total(p)' > Total(p))
    BY <1>2, <2>4
  <2> QED
    BY <2>2, <2>3, <2>5 DEF Within
<1>4. CASE ~(Draws(w) /\ plan.live) /\ w \in People /\ n <= OwnFree(w)
  <2>1. Total(w)' <= Base
    BY <1>1, <1>2, <1>4 DEF OwnFree
  <2>2. \A p \in People \ {w} : ~(Total(p)' > Total(p))
    BY <1>2 DEF Workspaces
  <2>3. plan.live => PoolBytes' <= PoolBytes
    <3>1. SUFFICES ASSUME plan.live PROVE PoolBytes' <= PoolBytes
      OBVIOUS
    <3>2. w \notin Areas \cup Drawing
      BY <1>4, <3>1, PoolAssumption DEF Draws, Drawing
    <3>3. \A x \in Areas \cup Drawing' : Total(x)' <= Total(x)
      <4>1. \A x \in Areas \cup Drawing' : x \in Workspaces \ {w}
        BY <1>1, <1>2, <3>2 DEF Counts, Workspaces
      <4> QED
        BY <1>2, <4>1
    <3> QED
      BY <1>2, <3>3, CountMono
  <2> QED
    BY <1>2, <2>1, <2>2, <2>3 DEF Within
<1>5. CASE n = 0
  <2>1. \A x \in Workspaces : Total(x)' <= Total(x)
    BY <1>2, <1>5
  <2> QED
    BY <1>2, <2>1, NothingRises
<1> QED
  BY <1>3, <1>4, <1>5 DEF Affords

(* A move raises nothing of a pool it stays in.                            *)
LEMMA MoveWithin ==
    ASSUME CountRows, CountRows', NEW w \in Workspaces, NEW source \in Workspaces,
           NEW n \in Nat, NEW size \in Nat, NEW freed \in Nat, AtOnce!Move(w, source, n, size, freed),
           n <= size, size <= n + freed
    PROVE  Within
<1>1. /\ member' = member /\ plan' = plan /\ w # source
      /\ reserved' = [reserved EXCEPT ![w] = @ - n]
      /\ used' = [used EXCEPT ![w] = @ + size, ![source] = @ - freed]
      /\ size = n \/ \A x \in {w, source} \cap People : Active(x)
  BY AtOnceSame DEF AtOnce!Move, AtOnce!family
<1>2. Drawing' = Drawing
  BY <1>1 DEF Drawing, Active
<1>3. \A x \in Workspaces : used[x] \in Nat /\ reserved[x] \in Nat /\ Total(x) \in Nat
  BY DEF CountRows, Total
<1>4. /\ used'[w] = used[w] + size /\ reserved'[w] = reserved[w] - n
      /\ used'[source] = used[source] - freed /\ reserved'[source] = reserved[source]
      /\ \A x \in Workspaces \ {w, source} : used'[x] = used[x] /\ reserved'[x] = reserved[x]
  BY <1>1 DEF CountRows
<1>5. PICK a \in Int, b \in Int : a = size - n /\ b = 0 - freed
  OBVIOUS
<1>6. /\ Total(w)' = Total(w) + a /\ Total(source)' = Total(source) + b
      /\ \A x \in Workspaces \ {w, source} : Total(x)' = Total(x)
  BY <1>3, <1>4, <1>5 DEF Total
<1>7. CASE size = n
  <2>1. \A x \in Workspaces : Total(x)' <= Total(x)
    BY <1>3, <1>5, <1>6, <1>7
  <2> QED
    BY <1>2, <2>1, NothingRises
<1>8. CASE \A x \in {w, source} \cap People : Active(x)
  <2>1. w \in Counted /\ source \in Counted /\ Counted \subseteq Workspaces
    BY <1>8 DEF Counted, Drawing, Workspaces
  <2>2. PoolBytes' = PoolBytes + a + b
    BY <1>1, <1>2, <1>6, <2>1, PoolChangeTwo
  <2>3. PoolBytes \in Nat /\ a + b <= 0
    BY <1>5, CountsHold DEF Counts
  <2>4. \A p \in People : ~Active(p) => p \in Workspaces \ {w, source}
    BY <1>8 DEF Workspaces
  <2>5. \A p \in People : ~Active(p) => ~(Total(p)' > Total(p))
    BY <1>3, <1>6, <2>4
  <2>6. ~(PoolBytes' > PoolBytes)
    BY <2>2, <2>3
  <2> QED
    BY <2>5, <2>6 DEF Within
<1> QED
  BY <1>1, <1>7, <1>8

(* The ledger overspends nothing. *)
LEMMA LedgerWithin ==
    ASSUME CountRows, CountRows', [AtOnce!LedgerNext]_(AtOnce!Ledger)
    PROVE  Within
<1>1. \A x \in Workspaces : used[x] \in Nat /\ reserved[x] \in Nat /\ Total(x) \in Nat
  BY DEF CountRows, Total
<1>2. CASE UNCHANGED AtOnce!Ledger
  <2>1. Drawing' = Drawing /\ \A x \in Workspaces : Total(x)' <= Total(x)
    BY <1>1, <1>2 DEF AtOnce!Ledger, Drawing, Active, Total
  <2> QED
    BY <2>1, NothingRises
<1>3. ASSUME NEW w \in Workspaces, NEW n \in Nat, AtOnce!Reserve(w, n) \/ AtOnce!Take(w, n) PROVE Within
  <2>1. member' = member /\ plan' = plan /\ Affords(w, n)
    BY <1>3, AtOnceFits DEF AtOnce!Reserve, AtOnce!Take, AtOnce!family
  <2>2. Total(w)' = Total(w) + n /\ \A x \in Workspaces \ {w} : Total(x)' = Total(x)
    BY <1>1, <1>3 DEF AtOnce!Reserve, AtOnce!Take, Total, CountRows
  <2> QED
    BY <2>1, <2>2, AffordedWithin
<1>4. ASSUME NEW w \in Workspaces, NEW n \in Nat, NEW freed \in Nat,
             AtOnce!Land(w, n, freed) \/ AtOnce!GiveBack(w, n, freed)
      PROVE  Within
  <2>1. Drawing' = Drawing
    BY <1>4 DEF AtOnce!Land, AtOnce!GiveBack, AtOnce!family, Drawing, Active
  <2>2. \A x \in Workspaces : Total(x)' <= Total(x)
    BY <1>1, <1>4 DEF AtOnce!Land, AtOnce!GiveBack, Total, CountRows
  <2> QED
    BY <2>1, <2>2, NothingRises
<1>5. ASSUME NEW w \in Workspaces, NEW source \in Workspaces, NEW n \in Nat, NEW freed \in Nat,
             NEW size \in n..(n + freed), AtOnce!Move(w, source, n, size, freed)
      PROVE  Within
  BY <1>5, MoveWithin
<1>6. ASSUME NEW p \in People, AtOnce!Admit(p) PROVE Within
  <2>1. /\ member[p] = "accepted" /\ AdmissionFits(p) /\ member' = [member EXCEPT ![p] = "active"]
        /\ plan' = plan /\ used' = used /\ reserved' = reserved
    BY <1>6, AtOnceSame DEF AtOnce!Admit, AtOnce!storage
  <2>2. p \in People \ Drawing /\ Drawing' = Drawing \cup {p}
    BY <2>1 DEF Drawing, Active, CountRows
  <2>3. \A x \in Workspaces : Total(x)' = Total(x)
    BY <2>1 DEF Total
  <2>4. PoolBytes' = PoolBytes + Total(p)
    BY <2>2, <2>3, PoolGrows
  <2>5. plan.live => PoolBytes + Total(p) <= plan.quota
    <3>1. SUFFICES ASSUME plan.live PROVE PoolBytes + Total(p) <= plan.quota
      OBVIOUS
    <3>2. p \in Workspaces /\ Total(p) \in Nat
      BY <1>1 DEF Workspaces
    <3>3. WholeGibUp(Total(p)) \in Nat /\ Total(p) <= WholeGibUp(Total(p))
      BY <3>2, WholeGibFacts
    <3>4. PoolBytes <= CountedReserved /\ PoolBytes \in Nat /\ CountedReserved \in Nat
      BY BytesUnder, CountTypes
    <3>5. CountedReserved + WholeGibUp(Total(p)) <= plan.quota /\ plan.quota \in Nat
      BY <2>1, <3>1 DEF AdmissionFits, CountRows
    <3> QED
      BY <3>2, <3>3, <3>4, <3>5
  <2>6. \A q \in People : ~(Total(q)' > Total(q))
    BY <1>1, <2>3 DEF Workspaces
  <2> QED
    BY <2>1, <2>4, <2>5, <2>6 DEF Within
<1>7. ASSUME NEW p \in People, NEW m, AtOnce!Stand(p, m) PROVE Within
  <2>1. /\ member' = [member EXCEPT ![p] = m] /\ (m \in {"active", "held"} => Active(p))
        /\ plan' = plan /\ used' = used /\ reserved' = reserved
    BY <1>7, AtOnceSame DEF AtOnce!Stand, AtOnce!storage
  <2>2. Drawing' \subseteq Drawing
    BY <2>1 DEF Drawing, Active, CountRows
  <2>3. \A x \in Workspaces : Total(x)' <= Total(x)
    BY <1>1, <2>1 DEF Total
  <2> QED
    BY <2>2, <2>3, NothingRises
<1>8. ASSUME NEW p \in People, AtOnce!Delete(p) PROVE Within
  <2>1. Drawing' \subseteq Drawing
    BY <1>8 DEF AtOnce!Delete, Drawing, Active, CountRows
  <2>2. \A x \in Workspaces : Total(x)' <= Total(x)
    BY <1>1, <1>8 DEF AtOnce!Delete, Total, CountRows, Workspaces
  <2> QED
    BY <2>1, <2>2, NothingRises
<1>9. ASSUME AtOnce!SetPlan PROVE Within
  <2>1. Drawing' = Drawing /\ \A x \in Workspaces : Total(x)' <= Total(x)
    BY <1>1, <1>9 DEF AtOnce!SetPlan, AtOnce!storage, Drawing, Active, Total
  <2> QED
    BY <2>1, NothingRises
<1>10. \A x \in Workspaces : 0..used[x] \subseteq Nat /\ 0..reserved[x] \subseteq Nat
  BY <1>1
<1>11. ASSUME AtOnce!LedgerNext PROVE Within
  <2>1. ASSUME NEW w \in Workspaces, NEW n \in 0..Most, AtOnce!Reserve(w, n) \/ AtOnce!Take(w, n)
        PROVE  Within
    <3>1. n \in Nat
      BY <2>1
    <3> QED
      BY <1>3, <2>1, <3>1
  <2> QED
    BY <1>4, <1>5, <1>6, <1>7, <1>8, <1>9, <1>10, <1>11, <2>1, AtOnceSame DEF AtOnce!LedgerNext, Most
<1> QED
  BY <1>2, <1>11

(* What may rise once the plan has ended, but for what was judged before.  *)
EndedWithin ==
    ~plan.live /\ (\A t \in Txs : tx[t].live => tx'[t] = tx[t]) =>
        /\ SumOver(Areas)' <= SumOver(Areas)
        /\ \A p \in People : Total(p)' > Total(p) => Total(p)' <= Base

(* Nothing, where nobody takes more. *)
LEMMA NoneTakesMore ==
    ASSUME CountRows, CountRows', \A w \in Workspaces : Total(w)' <= Total(w)
    PROVE  EndedWithin
<1>1. Counts /\ Counts'
  BY CountsHold, CountsHoldNext
<1>2. \A p \in People : ~(Total(p)' > Total(p))
  BY <1>1 DEF Counts, Workspaces
<1>3. SumOver(Areas)' <= SumOver(Areas)
  BY AreasMono DEF Workspaces
<1> QED
  BY <1>2, <1>3 DEF EndedWithin

(* A begin that read its figures since. *)
LEMMA EndedBegin ==
    ASSUME IInv, IInv', NEW t \in Txs, CommitBegin(t), ~tx[t].live
    PROVE  EndedWithin
<1>1. CountRows /\ CountRows'
  BY RowFacts, PTL
<1>2. PICK u \in Uploads, w \in Workspaces, n \in Nat :
               /\ u = tx[t].u /\ w = up[u].at /\ n = tx[t].cost
  BY ReserveFacts DEF CommitBegin
<1>3. Bare(w, n)
  <2>1. BeginOK(tx[t]) /\ tx[t].verdict = "reserve"
    BY RowFacts DEF CommitBegin, Ready, TxOK
  <2> QED
    BY <1>2, <2>1 DEF BeginOK
<1>4. Total(w)' = Total(w) + n /\ \A v \in Workspaces \ {w} : Total(v)' = Total(v)
  <2>1. used \in [Workspaces -> Nat] /\ reserved \in [Workspaces -> Nat]
    BY <1>1 DEF CountRows
  <2>2. CASE up[u].kind = "copy"
    BY <1>2, <2>1, <2>2 DEF CommitBegin, Total
  <2>3. CASE up[u].kind # "copy"
    BY <1>2, <2>1, <2>3 DEF CommitBegin, Total
  <2> QED
    BY <2>2, <2>3
<1>5. Counts /\ Counts' /\ Base \in Nat
  BY <1>1, CountsHold, CountsHoldNext, PoolAssumption
<1>6. CASE n = 0
  <2>1. \A v \in Workspaces : Total(v)' <= Total(v)
    BY <1>4, <1>5, <1>6 DEF Counts
  <2> QED
    BY <1>1, <2>1, NoneTakesMore
<1>7. CASE w \in People /\ n <= OwnFree(w)
  <2>1. Total(w)' <= Base
    BY <1>4, <1>5, <1>7 DEF Counts, OwnFree
  <2>2. \A v \in Workspaces \ {w} : Total(v)' <= Total(v)
    BY <1>4, <1>5 DEF Counts
  <2>3. SumOver(Areas)' <= SumOver(Areas)
    BY <1>1, <1>7, <2>2, AreasMono, PoolAssumption DEF Workspaces
  <2>4. \A p \in People \ {w} : ~(Total(p)' > Total(p))
    BY <1>4, <1>5 DEF Counts, Workspaces
  <2> QED
    BY <2>1, <2>3, <2>4 DEF EndedWithin
<1> QED
  BY <1>3, <1>6, <1>7 DEF Bare

(* What lands in place takes no more than was reserved. *)
LEMMA LandTakes ==
    ASSUME CountRows, NEW w \in Workspaces, NEW n \in Nat, NEW freed \in Nat,
           AtOnce!Land(w, n, freed)
    PROVE  \A x \in Workspaces : Total(x)' <= Total(x)
BY DEF CountRows, AtOnce!Land, Total

(* A completion decided since. *)
LEMMA EndedPublish ==
    ASSUME IInv, IInv', NEW t \in Txs, CommitPublish(t), ~tx[t].live
    PROVE  EndedWithin
<1>1. CountRows /\ CountRows'
  BY RowFacts, PTL
<1>2. Counts /\ Counts' /\ used \in [Workspaces -> Nat] /\ reserved \in [Workspaces -> Nat]
  BY <1>1, CountsHold, CountsHoldNext DEF CountRows
<1>3. ASSUME NEW w \in Workspaces, NEW n \in 0..reserved[w], NEW freed \in 0..used[w],
             AtOnce!Land(w, n, freed)
      PROVE  EndedWithin
  <2>1. n \in Nat /\ freed \in Nat
    BY <1>2
  <2>2. \A x \in Workspaces : Total(x)' <= Total(x)
    BY <1>1, <1>3, <2>1, LandTakes
  <2> QED
    BY <1>1, <2>2, NoneTakesMore
<1>4. ASSUME NEW w \in Workspaces, NEW source \in Workspaces, NEW n \in 0..reserved[w],
             NEW freed \in 0..used[source], NEW size \in n..(n + freed),
             AtOnce!Move(w, source, n, size, freed), size = n \/ {w, source} \subseteq Areas
      PROVE  EndedWithin
  <2>1. n \in Nat /\ freed \in Nat /\ size \in Nat /\ n <= size /\ size <= n + freed
    BY <1>2
  <2>2. PICK a \in Int, b \in Int : a = size - n /\ b = 0 - freed
    BY <2>1
  <2>3. /\ Total(w)' = Total(w) + a /\ Total(source)' = Total(source) + b /\ w # source
        /\ \A x \in Workspaces \ {w, source} : Total(x)' = Total(x)
    <3>1. /\ w # source
          /\ reserved' = [reserved EXCEPT ![w] = @ - n]
          /\ used' = [used EXCEPT ![w] = @ + size, ![source] = @ - freed]
      BY <1>4 DEF AtOnce!Move
    <3>2. /\ used'[w] = used[w] + size /\ reserved'[w] = reserved[w] - n
          /\ used'[source] = used[source] - freed /\ reserved'[source] = reserved[source]
          /\ \A x \in Workspaces \ {w, source} : used'[x] = used[x] /\ reserved'[x] = reserved[x]
      BY <1>2, <3>1
    <3> QED
      BY <1>2, <2>1, <2>2, <3>1, <3>2 DEF Total
  <2>4. CASE size = n
    <3>1. \A x \in Workspaces : Total(x)' <= Total(x)
      BY <1>2, <2>1, <2>2, <2>3, <2>4 DEF Counts
    <3> QED
      BY <1>1, <3>1, NoneTakesMore
  <2>5. CASE {w, source} \subseteq Areas
    <3> DEFINE f == [x \in Areas |-> Total(x)]
               g == [x \in Areas |-> Total(x)']
    <3>1. IsFiniteSet(Areas) /\ Areas \subseteq Workspaces
      BY PoolAssumption DEF Workspaces
    <3>2. DifferAtTwo(f, g, Areas, w, source)
      BY <1>2, <2>3, <3>1 DEF Counts, DifferAtTwo
    <3>3. g[w] - f[w] = a /\ g[source] - f[source] = b
      BY <1>2, <2>3, <2>5 DEF Counts
    <3>4. SumOver(Areas) = SumOf(f, Areas) /\ SumOver(Areas)' = SumOf(g, Areas)
      BY DEF SumOver
    <3> HIDE DEF f, g
    <3>5. SumOf(g, Areas) = SumOf(f, Areas) + (g[w] - f[w]) + (g[source] - f[source])
      BY <2>3, <2>5, <3>1, <3>2, SumDifferTwo
    <3>6. SumOf(f, Areas) \in Int
      BY <3>1, <3>2, SumType DEF DifferAtTwo
    <3>7. SumOver(Areas)' <= SumOver(Areas)
      BY <2>1, <2>2, <3>3, <3>4, <3>5, <3>6
    <3>8. \A p \in People : p \in Workspaces \ {w, source}
      BY <2>5, PoolAssumption DEF Workspaces
    <3>9. \A p \in People : ~(Total(p)' > Total(p))
      BY <1>2, <2>3, <3>8 DEF Counts
    <3> QED
      BY <3>7, <3>9 DEF EndedWithin
  <2> QED
    BY <1>4, <2>4, <2>5
<1> QED
  BY <1>3, <1>4, PublishLedger

(* Any other step leaves everyone with no more than before. *)
LEMMA OthersTakeNoMore ==
    ASSUME IInv, [Next]_vars, \A t \in Txs : ~CommitBegin(t) /\ ~CommitPublish(t)
    PROVE  \A w \in Workspaces : Total(w)' <= Total(w)
<1>1. used \in [Workspaces -> Nat] /\ reserved \in [Workspaces -> Nat]
  BY RowFacts DEF CountRows
<1>2. CASE UNCHANGED <<used, reserved>>
  BY <1>1, <1>2 DEF Total
<1>3. ASSUME NEW u \in Uploads, up[u].st = "open", used' = used,
             reserved' = [reserved EXCEPT ![up[u].at] = @ - up[u].res]
      PROVE  \A w \in Workspaces : Total(w)' <= Total(w)
  <2>1. up[u].res \in Nat
    BY RowFacts DEF UpRow
  <2> QED
    BY <1>1, <1>3, <2>1 DEF Total
<1>4. ASSUME NEW t \in Txs, CommitRelease(t) PROVE \A w \in Workspaces : Total(w)' <= Total(w)
  <2>1. tx[t].op = "finish" /\ tx[t].verdict = "release" /\ tx[t].want = <<>>
    BY <1>4 DEF CommitRelease, Ready
  <2>2. PICK u \in Uploads : u = tx[t].u /\ up[u].st = "open"
    BY <2>1, RowFacts DEF TxOK, FinishOK, Entering, Inside
  <2> QED
    BY <1>3, <1>4, <2>2 DEF CommitRelease
<1>5. ASSUME NEW u \in Uploads, AbortUpload(u) PROVE \A w \in Workspaces : Total(w)' <= Total(w)
  BY <1>3, <1>5 DEF AbortUpload
<1>6. ASSUME NEW f \in Files, DeleteFile(f) PROVE \A w \in Workspaces : Total(w)' <= Total(w)
  <2>1. file[f].bytes \in Nat
    BY RowFacts DEF FileRow
  <2> QED
    BY <1>1, <1>6, <2>1 DEF DeleteFile, Total
<1>7. ASSUME NEW t \in Txs, CommitDelete(t) PROVE \A w \in Workspaces : Total(w)' <= Total(w)
  BY <1>1, <1>7 DEF CommitDelete, Total
<1>8. UNCHANGED vars => UNCHANGED <<used, reserved>>
  BY DEF vars
<1>9. ASSUME NEW t \in Txs, NEW u \in Uploads, NEW p \in People, NEW w \in Workspaces,
             NEW f \in Files \cup {Nothing}, NEW k \in Kinds[u], BeginUpload(t, u, k, w, p, f)
      PROVE  UNCHANGED <<used, reserved>>
  BY <1>9 DEF BeginUpload, storage
<1>10. ASSUME NEW t \in Txs,
              \/ BeginAtWorkspace(t) \/ TakePool(t) \/ BeginFigures(t) \/ BeginMoving(t)
              \/ FinishAtWorkspace(t) \/ FinishAtStore(t) \/ ApplyPlan(t) \/ TakeInTurn(t) \/ AdmitFigures(t)
              \/ CommitMember(t) \/ CommitPlan(t)
       PROVE  UNCHANGED <<used, reserved>>
  BY <1>10 DEF BeginAtWorkspace, TakePool, BeginFigures, BeginMoving, FinishAtWorkspace, FinishAtStore,
               ApplyPlan, TakeInTurn, AdmitFigures, CommitMember, CommitPlan, storage
<1>11. ASSUME NEW t \in Txs, NEW u \in Uploads, NEW writer \in BOOLEAN, FinishCompleting(t, u, writer)
       PROVE  UNCHANGED <<used, reserved>>
  BY <1>11 DEF FinishCompleting, storage
<1>12. ASSUME NEW t \in Txs, NEW p \in People, AdmitMember(t, p) \/ LeaveFamily(t, p) \/ DeleteAccount(t, p)
       PROVE  UNCHANGED <<used, reserved>>
  BY <1>12 DEF AdmitMember, LeaveFamily, DeleteAccount, storage
<1>13. ASSUME NEW p \in People, AcceptInvitation(p) \/ PlaceHold(p) \/ HoldEnds(p)
       PROVE  UNCHANGED <<used, reserved>>
  BY <1>13 DEF AcceptInvitation, PlaceHold, HoldEnds, storage
<1>14. PlanExpires => UNCHANGED <<used, reserved>>
  BY DEF PlanExpires, storage
<1> QED
  BY <1>2, <1>4, <1>5, <1>6, <1>7, <1>8, <1>9, <1>10, <1>11, <1>12, <1>13, <1>14 DEF Next

LEMMA EndedStep ==
    ASSUME IInv, IInv', [Next]_vars
    PROVE  EndedWithin
<1>1. CountRows /\ CountRows'
  BY RowFacts, PTL
<1>2. ASSUME NEW t \in Txs, CommitBegin(t) \/ CommitPublish(t), tx[t].live PROVE EndedWithin
  <2>1. tx[t].op = "begin" \/ tx[t].op = "finish"
    BY <1>2 DEF CommitBegin, CommitPublish, Ready
  <2>2. Ends(t)
    BY <1>2 DEF CommitBegin, CommitPublish
  <2>3. tx'[t] = NoTx
    <3>1. tx \in [Txs -> TxRow]
      BY RowFacts DEF Rows
    <3> QED
      BY <2>2, <3>1 DEF Ends
  <2>4. tx'[t] # tx[t]
    BY <2>1, <2>3, NoTxFacts
  <2> QED
    BY <1>2, <2>4 DEF EndedWithin
<1>3. ASSUME NEW t \in Txs, CommitBegin(t) \/ CommitPublish(t), ~tx[t].live PROVE EndedWithin
  BY <1>3, EndedBegin, EndedPublish
<1>4. CASE \A t \in Txs : ~CommitBegin(t) /\ ~CommitPublish(t)
  BY <1>1, <1>4, OthersTakeNoMore, NoneTakesMore
<1> QED
  BY <1>2, <1>3, <1>4

(* While a plan runs, what a family stores and reserves never rises past   *)
(* it; nor, in no family, what a person does past their own allowance: two *)
(* reservations, admissions or moves at once do not spend the same bytes.  *)
(* Once it has ended, nothing judged since takes from it.                  *)
THEOREM SpendsWithinHolds == Spec => SpendsWithin
<1>1. IInv => CountRows
  BY RowFacts
<1>2. (IInv => CountRows)'
  BY <1>1, PTL
<1>3. IInv /\ IInv' /\ [Next]_vars =>
        [/\ plan.live /\ plan'.live /\ PoolBytes' > PoolBytes => PoolBytes' <= plan'.quota
         /\ \A p \in People :
               ~Active(p) /\ ~Active(p)' /\ Total(p)' > Total(p) => Total(p)' <= Base
         /\ ~plan.live /\ (\A t \in Txs : tx[t].live => tx'[t] = tx[t]) =>
               /\ SumOver(Areas)' <= SumOver(Areas)
               /\ \A p \in People : Total(p)' > Total(p) => Total(p)' <= Base]_vars
  BY <1>1, <1>2, LedgerStep, LedgerWithin, EndedStep DEF Within, EndedWithin
<1> QED
  BY Invariance, <1>3, PTL DEF Spec, SpendsWithin

-----------------------------------------------------------------------------
(* Who waits for whom. *)

(* A transaction that wants a lock and holds one, as one in a circle does:  *)
(* what it may want next, and what it then holds.                          *)
Awaits(x) ==
    LET next == Head(x.want)
    IN  /\ next = Pool \/ \E w \in Workspaces : next = Store(w) \/ next = Ws(w)
        /\ \A w \in Workspaces : next = Store(w) => Ws(w) \in x.have
        /\ \A w \in Workspaces : Store(w) \in x.have => Ws(w) \in x.have
        /\ Pool \in x.have => \E w \in Workspaces : next = Store(w)
        /\ \A w \in Workspaces : next = Ws(w) => InTurn(x)

(* The lock wanted next is after those held and before the rest.           *)
LEMMA NextInTurn ==
    ASSUME NEW x \in TxRow, x.want # <<>>, InTurn(x)
    PROVE  /\ Head(x.want) \in Wanted(x) /\ Head(x.want) \in Locks /\ Head(x.want) \in Mine(x)
           /\ \A l \in x.have : Earlier(l, Head(x.want))
           /\ \A k \in Wanted(x) : k = Head(x.want) \/ Earlier(Head(x.want), k)
           /\ \A l \in x.have, k \in Wanted(x) : Earlier(l, k)
<1>1. PICK s \in Seq(Locks) : s = x.want /\ s # <<>>
  BY DEF TxRow
<1>2. Head(s) = s[1] /\ 1 \in 1..Len(s) /\ Len(s) \in Nat /\ s[1] \in Locks
  BY <1>1
<1>3. Wanted(x) = {s[i] : i \in 1..Len(s)}
  BY <1>1 DEF Wanted
<1>4. \A l \in x.have, i \in 1..Len(s) : Earlier(l, s[i])
  BY <1>1 DEF InTurn
<1>5. \A i \in 1..Len(s) : i = 1 \/ Earlier(s[1], s[i])
  <2>1. \A i \in 1..Len(s) : i # 1 => 1 < i
    BY <1>2
  <2> QED
    BY <1>1, <1>2, <2>1 DEF InTurn
<1> QED
  BY <1>1, <1>2, <1>3, <1>4, <1>5 DEF Mine

(* What may come before a lock. *)
LEMMA EarlierFacts ==
    /\ \A l \in Locks : ~Earlier(l, Group)
    /\ ~Earlier(Pool, Pool)
    /\ \A a \in Areas : \A l \in Locks : Earlier(l, Ws(a)) => l = Group \/ \E b \in Areas : l = Ws(b)
    /\ \A p \in People : /\ ~Earlier(Person(p), Person(p)) /\ ~Earlier(Store(p), Person(p))
                         /\ ~Earlier(Ws(p), Person(p)) /\ ~Earlier(Store(p), Ws(p))
<1>1. ASSUME NEW l \in Locks PROVE ~Earlier(l, Group)
  <2>1. ~(Grade(l) < Grade(Group)) /\ Group[1] # "ws"
    BY Grades, LockFacts
  <2> QED
    BY <2>1 DEF Earlier
<1>2. ~Earlier(Pool, Pool)
  <2>1. ~(Grade(Pool) < Grade(Pool)) /\ Pool[1] # "ws"
    BY Grades, LockFacts
  <2> QED
    BY <2>1 DEF Earlier
<1>3. ASSUME NEW a \in Areas, NEW l \in Locks, Earlier(l, Ws(a))
      PROVE  l = Group \/ \E b \in Areas : l = Ws(b)
  <2>1. Grade(Ws(a)) = 1 /\ Ws(a)[2] = a
    BY Grades, LockFacts
  <2>2. CASE Grade(l) < 1
    <3>1. l # Pool
      BY <2>2, Grades
    <3>2. ASSUME NEW w \in Workspaces, l = Ws(w) \/ l = Store(w) \/ l = Person(w) PROVE FALSE
      <4>1. Grade(l) \in {1, 3, 4, 5}
        BY <3>2, Grades
      <4> QED
        BY <2>2, <4>1
    <3> QED
      BY <3>1, <3>2, LockFacts
  <2>3. CASE l[1] = "ws" /\ Before(l[2], a)
    <3>1. PICK w \in Workspaces : l = Ws(w)
      BY <2>3, LockFacts
    <3>2. Before(w, a)
      BY <2>3, <3>1, LockFacts
    <3>3. w \in Areas
      BY <3>2 DEF Before
    <3> QED
      BY <3>1, <3>3
  <2> QED
    BY <1>3, <2>1, <2>2, <2>3 DEF Earlier
<1>4. ASSUME NEW p \in People
      PROVE  /\ ~Earlier(Person(p), Person(p)) /\ ~Earlier(Store(p), Person(p))
             /\ ~Earlier(Ws(p), Person(p)) /\ ~Earlier(Store(p), Ws(p))
  <2>1. p \notin Areas
    BY PoolAssumption
  <2>2. Grade(Person(p)) = 3 /\ Grade(Store(p)) = 5 /\ Grade(Ws(p)) = 4
    BY <2>1, Grades
  <2>3. Person(p)[1] # "ws" /\ Store(p)[1] # "ws"
    BY LockFacts
  <2> QED
    BY <2>2, <2>3 DEF Earlier
<1> QED
  BY <1>1, <1>2, <1>3, <1>4

(* One of the family's, while someone else has a folder's row. *)
LEMMA FamilyAwaits ==
    ASSUME NEW x \in TxRow, FamilyOK(x), x.op \in {"admit", "leave", "delete", "plan"},
           x.want # <<>>, x.have # {}, NEW a \in Areas, Ws(a) \notin x.have
    PROVE  Awaits(x)
<1> DEFINE next == Head(x.want)
<1>1. InTurn(x) /\ Mine(x) = FamilyLocks(x) /\ (x.op # "plan" => x.p \in People)
  BY DEF FamilyOK
<1>2. /\ next \in Wanted(x) /\ next \in Locks /\ next \in Mine(x)
      /\ \A l \in x.have : Earlier(l, next)
      /\ \A k \in Wanted(x) : k = next \/ Earlier(next, k)
      /\ \A l \in x.have, k \in Wanted(x) : Earlier(l, k)
  BY <1>1, NextInTurn
<1>3. x.have \subseteq Mine(x) /\ Wanted(x) \subseteq Mine(x) /\ x.have \subseteq Locks
      /\ \A l \in Mine(x) : l \in x.have \/ l \in Wanted(x)
  BY DEF Mine, TxRow
<1> HIDE DEF next
<1>4. PICK held \in x.have : held \in Locks
  BY <1>3
<1>5. next # Group
  BY <1>2, <1>4, EarlierFacts
<1>6. CASE x.op = "plan"
  <2>1. Mine(x) = {Group, Pool} /\ next = Pool
    BY <1>1, <1>2, <1>5, <1>6 DEF FamilyLocks
  <2>2. Pool \notin x.have
    BY <1>2, <2>1, EarlierFacts
  <2> QED
    BY <1>1, <1>3, <2>1, <2>2, LockFacts DEF Awaits, next
<1>7. CASE AreaRows \subseteq Mine(x)
  <2>1. Ws(a) \in Wanted(x) /\ Ws(a) \in Locks
    BY <1>3, <1>7, LockFacts DEF AreaRows, Workspaces
  <2>2. PICK b \in Areas : next = Ws(b)
    BY <1>2, <1>5, <2>1, EarlierFacts
  <2>3. \A l \in x.have : l = Group \/ \E c \in Areas : l = Ws(c)
    BY <1>2, <1>3, <2>2, EarlierFacts
  <2>4. b \in Workspaces /\ Areas \subseteq Workspaces
    BY DEF Workspaces
  <2>5. Pool \notin x.have /\ \A w : Store(w) \notin x.have
    BY <2>3, LockFacts
  <2> QED
    BY <1>1, <2>2, <2>4, <2>5, LockFacts DEF Awaits, next
<1>8. CASE x.op = "delete" /\ Group \notin Mine(x)
  <2>1. PICK p \in People : p = x.p /\ Mine(x) = {Person(p), Ws(p), Store(p)}
    BY <1>1, <1>8 DEF FamilyLocks
  <2>2. held \in {Person(p), Ws(p), Store(p)} /\ p \in Workspaces
    BY <1>3, <2>1 DEF Workspaces
  <2>3. next # Person(p)
    BY <1>2, <2>2, EarlierFacts
  <2>4. next \in {Ws(p), Store(p)}
    BY <1>2, <2>1, <2>3
  <2>5. \A w : Store(w) \notin x.have
    BY <1>1, <1>2, StoreLast
  <2>6. Pool \notin x.have
    BY <1>3, <2>1, LockFacts
  <2>7. next = Store(p) => Ws(p) \in x.have
    <3>1. ASSUME next = Store(p), Ws(p) \in Wanted(x) PROVE FALSE
      BY <1>2, <3>1, EarlierFacts, LockFacts
    <3> QED
      BY <1>3, <2>1, <3>1
  <2> QED
    BY <1>1, <2>2, <2>4, <2>5, <2>6, <2>7, LockFacts DEF Awaits, next
<1>9. x.op = "plan" \/ AreaRows \subseteq Mine(x) \/ (x.op = "delete" /\ Group \notin Mine(x))
  BY <1>1 DEF FamilyLocks
<1> QED
  BY <1>6, <1>7, <1>8, <1>9

(* A begin. *)
LEMMA BeginAwaits ==
    ASSUME IInv, NEW x \in TxRow, BeginOK(x), x.want # <<>>, x.have # {}
    PROVE  Awaits(x)
<1>1. PICK u \in Uploads : u = x.u /\ up[u].st = "asked"
  BY DEF BeginOK
<1>2. PICK w \in Workspaces : w = up[u].at
  BY <1>1, RowFacts, UnderFacts
<1>3. x.verdict = "figures" /\ Figures(x, w, {Ws(w)})
  BY <1>1, <1>2 DEF BeginOK
<1>4. CASE x.want = <<Pool, Store(w)>> /\ x.have = {Ws(w)}
  BY <1>2, <1>4, LockFacts DEF Awaits
<1>5. CASE x.want = <<Store(w)>> /\ x.have \subseteq {Ws(w), Pool} /\ Ws(w) \in x.have
  BY <1>2, <1>5, LockFacts DEF Awaits
<1> QED
  BY <1>3, <1>4, <1>5 DEF Figures

(* A completion. *)
LEMMA FinishAwaits ==
    ASSUME IInv, NEW x \in TxRow, FinishOK(x), x.want # <<>>
    PROVE  Awaits(x)
<1>1. PICK u \in Uploads : u = x.u
  BY DEF FinishOK
<1>2. PICK next : next = Head(x.want) /\ next \in Wanted(x)
  <2>1. PICK s \in Seq(Locks) : s = x.want /\ s # <<>>
    BY DEF TxRow
  <2>2. Head(s) = s[1] /\ 1 \in 1..Len(s)
    BY <2>1
  <2> QED
    BY <2>1, <2>2 DEF Wanted
<1>3. CASE Entering(x)
  <2>1. /\ InTurn(x) /\ next \in {Ws(w) : w \in Workspaces}
        /\ x.have \subseteq {Ws(w) : w \in Workspaces}
    BY <1>2, <1>3 DEF Entering, Mine
  <2> QED
    BY <1>2, <2>1, LockFacts DEF Awaits
<1>4. CASE Inside(x)
  <2>1. up[u].st = "open" /\ EndRows(u) \subseteq x.have
    BY <1>1, <1>4 DEF Inside
  <2>2. PICK w \in Workspaces : w = up[u].at
    BY <2>1, RowFacts, UnderFacts
  <2>3. IsMove(u) => Source(u) \in Workspaces
    BY <2>1, RowFacts, UnderFacts
  <2>4. \A v \in Workspaces : Store(v) \in StoreRows(u) => Ws(v) \in EndRows(u)
    BY LockFacts DEF StoreRows, EndRows
  <2>5. \A l \in StoreRows(u) : \E v \in Workspaces : l = Store(v)
    BY <2>2, <2>3 DEF StoreRows
  <2>6. \A l \in EndRows(u) : \E v \in Workspaces : l = Ws(v)
    BY <2>2, <2>3 DEF EndRows
  <2>7. CASE x.verdict = "figures"
    <3>1. Figures(x, w, EndRows(u))
      BY <1>1, <1>4, <2>2, <2>7 DEF Inside
    <3>2. Ws(w) \in EndRows(u)
      BY <2>2 DEF EndRows
    <3>3. CASE x.want = <<Pool, Store(w)>> /\ x.have = EndRows(u)
      BY <2>2, <2>6, <3>3, LockFacts DEF Awaits
    <3>4. CASE x.want = <<Store(w)>> /\ EndRows(u) \subseteq x.have /\ x.have \subseteq EndRows(u) \cup {Pool}
      BY <2>2, <2>6, <3>2, <3>4, LockFacts DEF Awaits
    <3> QED
      BY <3>1, <3>3, <3>4 DEF Figures
  <2>8. CASE x.verdict \in {"publish", "release"}
    <3>1. next \in StoreRows(u) /\ x.have \subseteq EndRows(u) \cup StoreRows(u) \cup {Pool}
      BY <1>1, <1>2, <1>4, <2>8 DEF Inside
    <3>2. PICK v \in Workspaces : next = Store(v) /\ Ws(v) \in x.have
      BY <2>1, <2>4, <2>5, <3>1
    <3>3. \A y \in Workspaces : Store(y) \in x.have => Ws(y) \in x.have
      BY <2>1, <2>4, <2>6, <3>1, LockFacts
    <3> QED
      BY <1>2, <3>2, <3>3, LockFacts DEF Awaits
  <2> QED
    BY <1>1, <1>4, <2>7, <2>8 DEF Inside
<1> QED
  BY <1>3, <1>4 DEF FinishOK

(* A move's completion that has any row has a folder's. *)
LEMMA MoverHasFolder ==
    ASSUME IInv, NEW x \in TxRow, FinishOK(x), IsMove(x.u), x.have # {}
    PROVE  \E a \in Areas : Ws(a) \in x.have
<1>1. PICK u \in Uploads : u = x.u
  BY DEF FinishOK
<1>2. up[u].st = "open" /\ UploadOK(u)
  <2>1. Over.kind = "new"
    BY DEF Over, NoUpload
  <2> QED
    BY <1>1, <2>1, RowFacts DEF FinishOK, Entering, Inside, UploadOK, IsMove
<1>3. /\ up[u].at \in Workspaces /\ Source(u) \in Workspaces /\ Source(u) # up[u].at
      /\ up[u].at \in People => up[u].by = up[u].at
  BY <1>1, <1>2, RowFacts, UnderFacts
<1>4. Source(u) = up[u].by \/ Source(u) \in Areas
  BY <1>1, <1>2 DEF UploadOK, OwnEnd
<1>5. PICK a \in Areas : Ws(a) \in EndRows(u)
  BY <1>1, <1>3, <1>4 DEF EndRows, Workspaces
<1>6. CASE Inside(x)
  BY <1>1, <1>5, <1>6 DEF Inside
<1>7. CASE Entering(x)
  <2>1. InTurn(x) /\ Mine(x) = EndRows(u) /\ x.want # <<>>
    BY <1>1, <1>2, <1>7 DEF Entering
  <2>2. PICK l \in x.have : l \in EndRows(u)
    BY <2>1 DEF Mine
  <2>3. l \in Locks /\ l # Group
    BY <1>3, <2>2, LockFacts DEF EndRows, TxRow
  <2>4. CASE Ws(a) \in Wanted(x)
    <3>1. Earlier(l, Ws(a))
      BY <2>1, <2>4, NextInTurn
    <3> QED
      BY <2>3, <3>1, EarlierFacts
  <2> QED
    BY <1>5, <2>1, <2>4 DEF Mine
<1> QED
  BY <1>6, <1>7 DEF FinishOK

(* Everyone in the circle of S waits for one of it, and is waited for. *)
Circle(S) ==
    \A s \in S : (\E t \in S \ {s} : WaitsOn(s, t)) /\ (\E t \in S \ {s} : WaitsOn(t, s))

(* Whoever waits in a circle wants what is named by Awaits. *)
LEMMA CircleAwaits ==
    ASSUME IInv, NEW S \in SUBSET Txs, Circle(S), NEW f \in S, tx[f].op = "finish", IsMove(tx[f].u),
           NEW s \in S
    PROVE  Awaits(tx[s])
<1>1. \A t \in S : tx[t].want # <<>> /\ tx[t].have # {}
  BY DEF Circle, WaitsOn
<1>2. \A t \in S : TxOK(tx[t]) /\ tx[t] \in TxRow
  BY RowFacts
<1>3. PICK a \in Areas : Ws(a) \in tx[f].have
  BY <1>1, <1>2, MoverHasFolder DEF TxOK
<1>4. CASE tx[s].op \in {"admit", "leave", "delete", "plan"}
  <2>1. s # f /\ Ws(a) \notin tx[s].have
    BY <1>3, <1>4, RowFacts
  <2>2. FamilyOK(tx[s])
    BY <1>2, <1>4 DEF TxOK
  <2> QED
    BY <1>1, <1>2, <1>4, <2>1, <2>2, FamilyAwaits
<1>5. CASE tx[s].op = "begin"
  BY <1>1, <1>2, <1>5, BeginAwaits DEF TxOK
<1>6. CASE tx[s].op = "finish"
  BY <1>1, <1>2, <1>6, FinishAwaits DEF TxOK
<1>7. tx[s].op # "none"
  BY <1>1, <1>2, NoTxFacts DEF TxOK
<1> QED
  BY <1>2, <1>4, <1>5, <1>6, <1>7 DEF TxRow

(* No move's completion is in one. *)
LEMMA NoCircle == IInv => MovesNeverDeadlock
<1> SUFFICES ASSUME IInv, NEW S \in SUBSET Txs, Circle(S),
                    NEW f \in S, tx[f].op = "finish", IsMove(tx[f].u)
             PROVE  FALSE
  BY DEF MovesNeverDeadlock, Circle
<1>1. \A s \in S : Awaits(tx[s]) /\ tx[s].want # <<>> /\ tx[s] \in TxRow
  BY CircleAwaits, RowFacts DEF Circle, WaitsOn
<1>2. \A s \in S : \E t \in S : t # s /\ Head(tx[s].want) \in tx[t].have
  BY DEF Circle, WaitsOn
<1>3. \A s, t \in S : s # t => tx[s].have \cap tx[t].have = {}
  BY RowFacts
<1>4. \A s \in S, w \in Workspaces : Head(tx[s].want) # Store(w)
  <2> SUFFICES ASSUME NEW s \in S, NEW w \in Workspaces, Head(tx[s].want) = Store(w) PROVE FALSE
    OBVIOUS
  <2>1. PICK t \in S : t # s /\ Store(w) \in tx[t].have
    BY <1>2
  <2>2. Ws(w) \in tx[s].have /\ Ws(w) \in tx[t].have
    BY <1>1, <2>1 DEF Awaits
  <2> QED
    BY <1>3, <2>1, <2>2
<1>5. \A s \in S : Head(tx[s].want) # Pool
  <2> SUFFICES ASSUME NEW s \in S, Head(tx[s].want) = Pool PROVE FALSE
    OBVIOUS
  <2>1. PICK t \in S : Pool \in tx[t].have
    BY <1>2
  <2> QED
    BY <1>1, <1>4, <2>1 DEF Awaits
<1> DEFINE W == {w \in Workspaces : \E s \in S : Head(tx[s].want) = Ws(w)}
<1>6. \A s \in S : \E w \in W : Head(tx[s].want) = Ws(w) /\ InTurn(tx[s])
  BY <1>1, <1>4, <1>5 DEF Awaits
<1>7. W \in SUBSET Workspaces /\ IsFiniteSet(W) /\ W # {}
  <2>1. IsFiniteSet(Workspaces)
    BY PoolAssumption, FS_Union DEF Workspaces
  <2> QED
    BY <1>6, <2>1, FS_Subset
<1>8. \A w \in W : \E s \in S : Head(tx[s].want) = Ws(w)
  OBVIOUS
<1> HIDE DEF W
<1>9. PICK m \in W : \A w \in W \ {m} : Before(w, m)
  BY <1>7, LastBefore
<1>10. PICK s \in S : Head(tx[s].want) = Ws(m)
  BY <1>8
<1>11. PICK t \in S : Ws(m) \in tx[t].have
  BY <1>2, <1>10
<1>12. PICK v \in W : Head(tx[t].want) = Ws(v) /\ InTurn(tx[t])
  BY <1>6
<1>13. Earlier(Ws(m), Ws(v))
  <2>1. tx[t] \in TxRow /\ tx[t].want # <<>> /\ Ws(m) \in tx[t].have
    BY <1>1, <1>11
  <2> QED
    BY <1>12, <2>1, NextInTurn
<1>14. Before(m, v)
  <2>1. Grade(Ws(m)) < Grade(Ws(v)) => m \in Areas /\ v \notin Areas
    BY Grades
  <2> QED
    BY <1>13, <2>1, LockFacts DEF Earlier, Before
<1> QED
  BY <1>7, <1>9, <1>14, BeforeFacts

(* No move's completion is in a circle of transactions that wait for each  *)
(* other: lockForCompletion takes a folder's row first, as those do that   *)
(* take all of them, and nobody waits for a pool or a storage row while a  *)
(* row of the same workspace is another's.                                 *)
THEOREM MovesDoNotDeadlock == Spec => []MovesNeverDeadlock
<1> QED
  BY Invariance, NoCircle, PTL
=============================================================================
