--------------------------- MODULE DriveWalks_proofs ---------------------------
(***************************************************************************)
(* Facts about walks up a tree, for every finite set of rows and every way *)
(* they name their parents: circles and missing rows too, unless a lemma   *)
(* says otherwise.                                                         *)
(***************************************************************************)
EXTENDS DriveWalks, Sums_proofs

-----------------------------------------------------------------------------
(* The walk as the least set closed under the step. *)

(* The walk may not leave itself. *)
LEMMA ChainRises ==
    ASSUME NEW up, NEW n \in DOMAIN up
    PROVE  Chain(up, n) \in RisingFrom(up, n)
<1>1. \A S \in RisingFrom(up, n) : n \in S /\ \A m \in S : up[m] \in DOMAIN up => up[m] \in S
  BY DEF RisingFrom
<1>2. n \in Chain(up, n)
  BY <1>1 DEF Chain
<1>3. \A m \in Chain(up, n) : up[m] \in DOMAIN up => up[m] \in Chain(up, n)
  BY <1>1 DEF Chain
<1> QED
  BY <1>2, <1>3 DEF RisingFrom, Chain

(* It is the least such set. *)
LEMMA ChainLeast ==
    ASSUME NEW up, NEW n \in DOMAIN up, NEW S, n \in S,
           \A m \in S \cap DOMAIN up : up[m] \in DOMAIN up => up[m] \in S
    PROVE  Chain(up, n) \subseteq S
<1>1. S \cap DOMAIN up \in RisingFrom(up, n)
  BY DEF RisingFrom
<1> QED
  BY <1>1 DEF Chain

(* A walk has its start, stays among the rows and goes on while there is a *)
(* parent.                                                                 *)
LEMMA ChainFacts ==
    ASSUME NEW up, NEW n \in DOMAIN up
    PROVE  /\ n \in Chain(up, n) /\ Chain(up, n) \subseteq DOMAIN up
           /\ \A m \in Chain(up, n) : up[m] \in DOMAIN up => up[m] \in Chain(up, n)
BY ChainRises DEF RisingFrom

(* The walk from a row on the way is the rest of the walk. *)
LEMMA ChainRest ==
    ASSUME NEW up, NEW n \in DOMAIN up, NEW m \in Chain(up, n)
    PROVE  m \in DOMAIN up /\ Chain(up, m) \subseteq Chain(up, n)
<1>1. /\ m \in DOMAIN up
      /\ \A k \in Chain(up, n) : up[k] \in DOMAIN up => up[k] \in Chain(up, n)
  BY ChainFacts
<1> QED
  BY <1>1, ChainLeast

(* One step of the walk. *)
LEMMA ChainStep ==
    ASSUME NEW up, NEW n \in DOMAIN up
    PROVE  /\ up[n] \in DOMAIN up => Chain(up, n) = {n} \cup Chain(up, up[n])
           /\ up[n] \notin DOMAIN up => Chain(up, n) = {n}
<1>1. n \in Chain(up, n)
  BY ChainFacts
<1>2. ASSUME up[n] \in DOMAIN up PROVE Chain(up, n) = {n} \cup Chain(up, up[n])
  <2>1. up[n] \in Chain(up, n)
    BY <1>1, <1>2, ChainFacts
  <2>2. Chain(up, up[n]) \subseteq Chain(up, n)
    BY <2>1, ChainRest
  <2>3. /\ up[n] \in Chain(up, up[n])
        /\ \A m \in Chain(up, up[n]) : up[m] \in DOMAIN up => up[m] \in Chain(up, up[n])
    BY <1>2, ChainFacts
  <2> DEFINE S == {n} \cup Chain(up, up[n])
  <2>4. n \in S /\ \A m \in S \cap DOMAIN up : up[m] \in DOMAIN up => up[m] \in S
    BY <2>3
  <2> HIDE DEF S
  <2>5. Chain(up, n) \subseteq S
    BY <2>4, ChainLeast
  <2> USE DEF S
  <2> QED
    BY <1>1, <2>2, <2>5
<1>3. ASSUME up[n] \notin DOMAIN up PROVE Chain(up, n) = {n}
  <2>1. Chain(up, n) \subseteq {n}
    BY <1>3, ChainLeast
  <2> QED
    BY <1>1, <2>1
<1> QED
  BY <1>2, <1>3

(* What a walk meets after its start, it meets as somebody's parent. *)
LEMMA ChainParent ==
    ASSUME NEW up, NEW n \in DOMAIN up, NEW m \in Chain(up, n), m # n
    PROVE  \E k \in Chain(up, n) : up[k] = m
<1> SUFFICES ASSUME \A k \in Chain(up, n) : up[k] # m PROVE FALSE
  OBVIOUS
<1> DEFINE S == Chain(up, n) \ {m}
<1>1. n \in S /\ \A k \in S \cap DOMAIN up : up[k] \in DOMAIN up => up[k] \in S
  BY ChainFacts
<1> HIDE DEF S
<1>2. Chain(up, n) \subseteq S
  BY <1>1, ChainLeast
<1> QED
  BY <1>2 DEF S

(* There is one way up: of two rows on it, one is above the other. *)
LEMMA ChainLinear ==
    ASSUME NEW up, NEW n \in DOMAIN up, NEW r \in Chain(up, n), NEW g \in Chain(up, n)
    PROVE  g \in Chain(up, r) \/ r \in Chain(up, g)
<1> DEFINE S == {k \in DOMAIN up : r \in Chain(up, k)} \cup Chain(up, r)
<1>1. r \in DOMAIN up
  BY ChainFacts
<1>2. ASSUME NEW k \in S, up[k] \in DOMAIN up PROVE up[k] \in S
  <2>1. CASE k \in Chain(up, r)
    BY <1>1, <1>2, <2>1, ChainFacts
  <2>2. CASE k \in DOMAIN up /\ r \in Chain(up, k) /\ k \notin Chain(up, r)
    <3>1. k # r
      BY <1>1, <2>2, ChainFacts
    <3>2. Chain(up, k) = {k} \cup Chain(up, up[k])
      BY <1>2, <2>2, ChainStep
    <3> QED
      BY <1>2, <2>2, <3>1, <3>2
  <2> QED
    BY <2>1, <2>2
<1>3. n \in S
  OBVIOUS
<1> HIDE DEF S
<1>4. Chain(up, n) \subseteq S
  BY <1>2, <1>3, ChainLeast
<1> QED
  BY <1>4 DEF S

(* A walk sees only the rows on its way. *)
LEMMA ChainAgree ==
    ASSUME NEW up, NEW vp, DOMAIN vp = DOMAIN up, NEW n \in DOMAIN up,
           \A m \in Chain(up, n) : vp[m] = up[m]
    PROVE  Chain(vp, n) = Chain(up, n)
<1>1. Chain(vp, n) \subseteq Chain(up, n)
  <2>1. /\ n \in Chain(up, n)
        /\ \A m \in Chain(up, n) \cap DOMAIN vp : vp[m] \in DOMAIN vp => vp[m] \in Chain(up, n)
    BY ChainFacts
  <2> QED
    BY <2>1, ChainLeast
<1>2. Chain(up, n) \subseteq Chain(vp, n)
  <2>1. /\ n \in Chain(vp, n)
        /\ \A m \in Chain(vp, n) \cap DOMAIN up : up[m] \in DOMAIN up => up[m] \in Chain(vp, n)
    BY <1>1, ChainFacts
  <2> QED
    BY <2>1, ChainLeast
<1> QED
  BY <1>1, <1>2

(* vp is up with x moved under p. *)
Moves(up, vp, x, p) ==
    /\ DOMAIN vp = DOMAIN up /\ x \in DOMAIN up /\ vp[x] = p
    /\ \A m \in DOMAIN up \ {x} : vp[m] = up[m]

(* Who was not above x keeps its walk. *)
LEMMA ChainUnmoved ==
    ASSUME NEW up, NEW vp, NEW x, NEW p, Moves(up, vp, x, p), NEW n \in DOMAIN up,
           x \notin Chain(up, n)
    PROVE  Chain(vp, n) = Chain(up, n)
<1>1. DOMAIN vp = DOMAIN up /\ \A m \in Chain(up, n) : vp[m] = up[m]
  BY ChainFacts DEF Moves
<1> QED
  BY <1>1, ChainAgree

(* Of what was above a row, a move takes away only what was above x. *)
LEMMA ChainKept ==
    ASSUME NEW up, NEW vp, NEW x, NEW p, Moves(up, vp, x, p), NEW n \in DOMAIN up,
           NEW m \in Chain(up, n), m \notin Chain(up, x)
    PROVE  m \in Chain(vp, n)
<1>1. DOMAIN vp = DOMAIN up /\ x \in DOMAIN up
  BY DEF Moves
<1> DEFINE S == Chain(vp, n) \cup Chain(up, x)
<1>2. ASSUME NEW k \in S, up[k] \in DOMAIN up PROVE up[k] \in S
  <2>1. CASE k \in Chain(up, x)
    BY <1>1, <1>2, <2>1, ChainFacts
  <2>2. CASE k \in Chain(vp, n) /\ k \notin Chain(up, x)
    <3>1. k \in DOMAIN up /\ k # x
      BY <1>1, <2>2, ChainFacts
    <3>2. vp[k] = up[k]
      BY <3>1 DEF Moves
    <3> QED
      BY <1>1, <1>2, <2>2, <3>2, ChainFacts
  <2> QED
    BY <2>1, <2>2
<1>3. n \in S
  BY <1>1, ChainFacts
<1> HIDE DEF S
<1>4. Chain(up, n) \subseteq S
  BY <1>2, <1>3, ChainLeast
<1> QED
  BY <1>4 DEF S

-----------------------------------------------------------------------------
(* The walk a row at a time. *)

(* A row at a time: where the k-th step is. *)
StepUp(up, x) == IF x \in DOMAIN up THEN up[x] ELSE x
IsClimb(at, up, n, r) ==
    at = [k \in 0..r |-> IF k = 0 THEN n
                         ELSE IF at[k - 1] \in DOMAIN up THEN up[at[k - 1]] ELSE at[k - 1]]

(* The steps, one from the other, and the last one's way on. *)
Stepwise(at, up, n, r) ==
    at[0] = n /\ \A k \in 0..(r - 1) : at[k + 1] = StepUp(up, at[k])

(* Some function takes the steps. *)
LEMMA ClimbExists ==
    ASSUME NEW up, NEW n, NEW r \in Nat
    PROVE  \E at : IsClimb(at, up, n, r)
<1> DEFINE P == {k \in Nat : \E at : IsClimb(at, up, n, k)}
<1>1. 0 \in P
  <2> DEFINE f == [k \in 0..0 |-> n]
  <2>1. f = [k \in 0..0 |-> IF k = 0 THEN n
                            ELSE IF f[k - 1] \in DOMAIN up THEN up[f[k - 1]] ELSE f[k - 1]]
    OBVIOUS
  <2> HIDE DEF f
  <2>2. IsClimb(f, up, n, 0)
    BY <2>1 DEF IsClimb
  <2> QED
    BY <2>2
<1>2. ASSUME NEW k \in Nat, k \in P PROVE k + 1 \in P
  <2>1. PICK f : IsClimb(f, up, n, k)
    BY <1>2
  <2> DEFINE g == [j \in 0..(k + 1) |-> IF j \in 0..k THEN f[j] ELSE StepUp(up, f[k])]
  <2>2. ASSUME NEW j \in 0..(k + 1)
        PROVE  g[j] = IF j = 0 THEN n
                      ELSE IF g[j - 1] \in DOMAIN up THEN up[g[j - 1]] ELSE g[j - 1]
    <3>1. CASE j = 0
      <4>1. g[j] = f[j] /\ j \in 0..k
        BY <3>1
      <4> QED
        BY <2>1, <3>1, <4>1 DEF IsClimb
    <3>2. CASE j \in 1..k
      <4>1. j \in 0..k /\ j - 1 \in 0..k /\ j - 1 \in 0..(k + 1)
        BY <3>2
      <4>2. g[j] = f[j] /\ g[j - 1] = f[j - 1]
        BY <4>1
      <4>3. f[j] = IF j = 0 THEN n
                   ELSE IF f[j - 1] \in DOMAIN up THEN up[f[j - 1]] ELSE f[j - 1]
        BY <2>1, <4>1 DEF IsClimb
      <4> HIDE DEF g
      <4> QED
        BY <4>2, <4>3
    <3>3. CASE j = k + 1
      <4>1. j \notin 0..k /\ j - 1 = k /\ k \in 0..k /\ k \in 0..(k + 1) /\ j # 0
        BY <3>3
      <4>2. g[j] = StepUp(up, f[k]) /\ g[k] = f[k]
        BY <4>1
      <4> HIDE DEF g
      <4> QED
        BY <4>1, <4>2 DEF StepUp
    <3> QED
      BY <3>1, <3>2, <3>3
  <2>3. g = [j \in 0..(k + 1) |->
                IF j = 0 THEN n
                ELSE IF g[j - 1] \in DOMAIN up THEN up[g[j - 1]] ELSE g[j - 1]]
    <3>1. \A j \in 0..(k + 1) :
              g[j] = IF j = 0 THEN n
                     ELSE IF g[j - 1] \in DOMAIN up THEN up[g[j - 1]] ELSE g[j - 1]
      BY <2>2
    <3>2. g = [j \in 0..(k + 1) |-> g[j]]
      OBVIOUS
    <3> HIDE DEF g
    <3> QED
      BY <3>1, <3>2
  <2> HIDE DEF g
  <2>4. IsClimb(g, up, n, k + 1)
    BY <2>3 DEF IsClimb
  <2> QED
    BY <2>4
<1>3. Nat \subseteq P
  <2> HIDE DEF P
  <2> QED
    BY <1>1, <1>2, NatSetInduction
<1> QED
  BY <1>3

(* What Climb returns: the rows among the steps. *)
LEMMA ClimbSteps ==
    ASSUME NEW up, IsFiniteSet(DOMAIN up), NEW n
    PROVE  \E at : /\ Stepwise(at, up, n, Cardinality(DOMAIN up))
                   /\ Climb(up, n) = {at[k] : k \in 0..Cardinality(DOMAIN up)} \cap DOMAIN up
<1> DEFINE rows == Cardinality(DOMAIN up)
<1>1. rows \in Nat
  BY FS_CardinalityType
<1> DEFINE at == CHOOSE f : IsClimb(f, up, n, rows)
<1>2. Climb(up, n) = {at[k] : k \in 0..rows} \cap DOMAIN up
  BY DEF Climb, IsClimb
<1> HIDE DEF rows
<1>3. IsClimb(at, up, n, rows)
  BY <1>1, ClimbExists
<1> HIDE DEF at
<1>4. \A k \in 0..rows :
          at[k] = IF k = 0 THEN n
                  ELSE IF at[k - 1] \in DOMAIN up THEN up[at[k - 1]] ELSE at[k - 1]
  BY <1>3 DEF IsClimb
<1>5. Stepwise(at, up, n, rows)
  <2>1. at[0] = n
    BY <1>1, <1>4
  <2>2. ASSUME NEW k \in 0..(rows - 1) PROVE at[k + 1] = StepUp(up, at[k])
    <3>1. k + 1 \in 0..rows /\ k + 1 # 0 /\ (k + 1) - 1 = k
      BY <1>1
    <3> QED
      BY <1>4, <3>1 DEF StepUp
  <2> QED
    BY <2>1, <2>2 DEF Stepwise
<1> QED
  BY <1>2, <1>5 DEF rows

(* As many steps as there are rows are enough: by then a walk has left the *)
(* rows, or it has come to a row a second time and only repeats itself.    *)
LEMMA StepsClosed ==
    ASSUME NEW up, IsFiniteSet(DOMAIN up), NEW n, NEW at, NEW rows,
           rows = Cardinality(DOMAIN up), Stepwise(at, up, n, rows),
           at[rows] \in DOMAIN up
    PROVE  \E k \in 0..rows : StepUp(up, at[rows]) = at[k]
<1>1. rows \in Nat
  BY FS_CardinalityType
<1>2. \A k \in 0..rows : at[k] \in DOMAIN up
  <2> DEFINE P == {d \in Nat : d <= rows => at[rows - d] \in DOMAIN up}
  <2>1. 0 \in P
    BY <1>1
  <2>2. ASSUME NEW d \in Nat, d \in P PROVE d + 1 \in P
    <3> SUFFICES ASSUME d + 1 <= rows PROVE at[rows - (d + 1)] \in DOMAIN up
      OBVIOUS
    <3>1. rows - (d + 1) \in 0..(rows - 1) /\ (rows - (d + 1)) + 1 = rows - d
      BY <1>1
    <3>2. at[rows - d] = StepUp(up, at[rows - (d + 1)])
      BY <3>1 DEF Stepwise
    <3>3. at[rows - d] \in DOMAIN up
      BY <1>1, <2>2
    <3> QED
      BY <3>2, <3>3 DEF StepUp
  <2>3. Nat \subseteq P
    <3> HIDE DEF P
    <3> QED
      BY <2>1, <2>2, NatSetInduction
  <2>4. ASSUME NEW k \in 0..rows PROVE at[k] \in DOMAIN up
    <3>1. rows - k \in Nat /\ rows - k <= rows /\ rows - (rows - k) = k
      BY <1>1
    <3> QED
      BY <2>3, <3>1
  <2> QED
    BY <2>4
<1>3. PICK i, j \in 0..rows : i < j /\ at[i] = at[j]
  <2> DEFINE f == [k \in 0..rows |-> at[k]]
  <2>1. f \in [0..rows -> DOMAIN up]
    BY <1>2
  <2>2. IsFiniteSet(0..rows) /\ Cardinality(0..rows) = rows + 1
    BY <1>1, FS_Interval
  <2>3. \A x, y \in 0..rows : f[x] = f[y] => at[x] = at[y]
    OBVIOUS
  <2>4. Cardinality(DOMAIN up) < Cardinality(0..rows)
    BY <1>1, <2>2
  <2> HIDE DEF f
  <2>5. \E x, y \in 0..rows : x # y /\ f[x] = f[y]
    BY <2>1, <2>2, <2>4, FS_PigeonHole
  <2> QED
    BY <1>1, <2>3, <2>5
<1>4. \A d \in Nat : j + d <= rows => at[i + d] = at[j + d]
  <2> DEFINE P == {d \in Nat : j + d <= rows => at[i + d] = at[j + d]}
  <2>1. 0 \in P
    BY <1>1, <1>3
  <2>2. ASSUME NEW d \in Nat, d \in P PROVE d + 1 \in P
    <3> SUFFICES ASSUME j + (d + 1) <= rows PROVE at[i + (d + 1)] = at[j + (d + 1)]
      OBVIOUS
    <3>1. /\ i + d \in 0..(rows - 1) /\ (i + d) + 1 = i + (d + 1)
          /\ j + d \in 0..(rows - 1) /\ (j + d) + 1 = j + (d + 1) /\ j + d <= rows
      BY <1>1, <1>3
    <3>2. at[i + (d + 1)] = StepUp(up, at[i + d]) /\ at[j + (d + 1)] = StepUp(up, at[j + d])
      BY <3>1 DEF Stepwise
    <3> QED
      BY <2>2, <3>1, <3>2
  <2>3. Nat \subseteq P
    <3> HIDE DEF P
    <3> QED
      BY <2>1, <2>2, NatSetInduction
  <2> QED
    BY <2>3
<1>5. at[i + (rows - j)] = at[rows]
  <2>1. rows - j \in Nat /\ j + (rows - j) = rows
    BY <1>1
  <2> QED
    BY <1>1, <1>4, <2>1
<1>6. /\ i + (rows - j) \in 0..(rows - 1)
      /\ (i + (rows - j)) + 1 \in 0..rows
  BY <1>1, <1>3
<1>7. at[(i + (rows - j)) + 1] = StepUp(up, at[rows])
  BY <1>5, <1>6 DEF Stepwise
<1> QED
  BY <1>6, <1>7

(* The walk a row at a time, for as many steps as there are rows, meets    *)
(* exactly what the walk is defined to.                                    *)
THEOREM ClimbIsChain ==
    ASSUME NEW up, IsFiniteSet(DOMAIN up), NEW n \in DOMAIN up
    PROVE  Climb(up, n) = Chain(up, n)
<1> DEFINE rows == Cardinality(DOMAIN up)
<1>1. rows \in Nat
  BY FS_CardinalityType
<1>2. PICK at : Stepwise(at, up, n, rows) /\ Climb(up, n) = {at[k] : k \in 0..rows} \cap DOMAIN up
  BY ClimbSteps
<1>3. Chain(up, n) \subseteq Climb(up, n)
  <2>1. n \in Climb(up, n)
    BY <1>1, <1>2 DEF Stepwise
  <2>2. ASSUME NEW m \in Climb(up, n), up[m] \in DOMAIN up PROVE up[m] \in Climb(up, n)
    <3>1. PICK k \in 0..rows : m = at[k]
      BY <1>2
    <3>2. at[k] \in DOMAIN up /\ up[m] = StepUp(up, at[k])
      BY <1>2, <3>1 DEF StepUp
    <3>3. \E j \in 0..rows : StepUp(up, at[k]) = at[j]
      <4>1. CASE k = rows
        BY <1>2, <3>2, <4>1, StepsClosed
      <4>2. CASE k # rows
        <5>1. k \in 0..(rows - 1) /\ k + 1 \in 0..rows
          BY <1>1, <4>2
        <5> QED
          BY <1>2, <5>1 DEF Stepwise
      <4> QED
        BY <4>1, <4>2
    <3> QED
      BY <1>2, <2>2, <3>2, <3>3
  <2> QED
    BY <2>1, <2>2, ChainLeast
<1>4. Climb(up, n) \subseteq Chain(up, n)
  <2> DEFINE P == {k \in Nat : k <= rows /\ at[k] \in DOMAIN up => at[k] \in Chain(up, n)}
  <2>1. 0 \in P
    BY <1>1, <1>2, ChainFacts DEF Stepwise
  <2>2. ASSUME NEW k \in Nat, k \in P PROVE k + 1 \in P
    <3> SUFFICES ASSUME k + 1 <= rows, at[k + 1] \in DOMAIN up PROVE at[k + 1] \in Chain(up, n)
      OBVIOUS
    <3>1. at[k + 1] = StepUp(up, at[k]) /\ k <= rows
      BY <1>1, <1>2 DEF Stepwise
    <3>2. at[k] \in DOMAIN up /\ at[k + 1] = up[at[k]]
      BY <3>1 DEF StepUp
    <3> QED
      BY <2>2, <3>1, <3>2, ChainFacts
  <2>3. Nat \subseteq P
    <3> HIDE DEF P
    <3> QED
      BY <2>1, <2>2, NatSetInduction
  <2>4. ASSUME NEW m \in Climb(up, n) PROVE m \in Chain(up, n)
    <3>1. PICK k \in 0..rows : m = at[k] /\ m \in DOMAIN up
      BY <1>2
    <3>2. k \in P
      BY <1>1, <2>3
    <3> QED
      BY <1>1, <3>1, <3>2
  <2> QED
    BY <2>4
<1> QED
  BY <1>3, <1>4

-----------------------------------------------------------------------------
(* Trees: walks end, and one row is at the top. *)

(* No row is above its own parent. *)
LEMMA NeverAbove ==
    ASSUME NEW up, Acyclic(up), NEW n \in DOMAIN up, up[n] \in DOMAIN up
    PROVE  n \notin Chain(up, up[n])
<1> SUFFICES ASSUME n \in Chain(up, up[n]) PROVE FALSE
  OBVIOUS
<1> DEFINE C == {k \in Chain(up, up[n]) : n \in Chain(up, k)}
<1>1. C \subseteq DOMAIN up /\ up[n] \in C
  BY ChainFacts
<1>2. ASSUME NEW k \in C PROVE up[k] \in C
  <2>1. k \in DOMAIN up
    BY <1>1
  <2>2. CASE k = n
    BY <1>1, <2>2
  <2>3. CASE k # n
    <3>1. up[k] \in DOMAIN up
      BY <2>1, <2>3, ChainStep
    <3>2. n \in Chain(up, up[k])
      BY <2>1, <2>3, <3>1, ChainStep
    <3>3. up[k] \in Chain(up, up[n])
      BY <3>1, ChainFacts
    <3> QED
      BY <3>2, <3>3
  <2> QED
    BY <2>2, <2>3
<1> HIDE DEF C
<1> QED
  BY <1>1, <1>2 DEF Acyclic

(* Two rows are not above each other. *)
LEMMA ChainAntisymmetric ==
    ASSUME NEW up, Acyclic(up), NEW n \in DOMAIN up, NEW m \in Chain(up, n), n \in Chain(up, m)
    PROVE  m = n
<1> SUFFICES ASSUME m # n PROVE FALSE
  OBVIOUS
<1>1. up[n] \in DOMAIN up /\ m \in Chain(up, up[n])
  BY ChainStep
<1>2. n \in Chain(up, up[n])
  BY <1>1, ChainRest
<1> QED
  BY <1>1, <1>2, NeverAbove

(* The rows P hang from r, each from one of them; the others hang nowhere. *)
Hangs(up, P, r) ==
    /\ r \in P /\ P \subseteq DOMAIN up /\ up[r] \notin DOMAIN up
    /\ \A n \in P \ {r} : up[n] \in P
    /\ \A n \in DOMAIN up \ P : up[n] \notin DOMAIN up
    /\ Acyclic(up)

(* Every walk from a row that hangs stays among them and ends at the top. *)
LEMMA HangsChain ==
    ASSUME NEW up, NEW P, NEW r, Hangs(up, P, r), NEW n \in P
    PROVE  Chain(up, n) \subseteq P /\ r \in Chain(up, n)
<1>1. n \in DOMAIN up /\ \A m \in P \cap DOMAIN up : up[m] \in DOMAIN up => up[m] \in P
  BY DEF Hangs
<1>2. Chain(up, n) \subseteq P
  BY <1>1, ChainLeast
<1>3. Chain(up, n) # {} /\ Chain(up, n) \in SUBSET DOMAIN up
  BY <1>1, ChainFacts
<1>4. PICK m \in Chain(up, n) : up[m] \notin Chain(up, n)
  BY <1>3 DEF Hangs, Acyclic
<1>5. up[m] \notin DOMAIN up
  BY <1>1, <1>4, ChainFacts
<1>6. m = r
  BY <1>2, <1>5 DEF Hangs
<1> QED
  BY <1>2, <1>6

(* A row put under one that is there. *)
LEMMA HangsPlaced ==
    ASSUME NEW up, NEW P, NEW r, Hangs(up, P, r), NEW vp, NEW n, NEW p \in P,
           n \notin P, Moves(up, vp, n, p)
    PROVE  /\ Hangs(vp, P \cup {n}, r)
           /\ \A m \in P : Chain(vp, m) = Chain(up, m)
           /\ Chain(vp, n) = {n} \cup Chain(up, p)
<1>1. /\ DOMAIN vp = DOMAIN up /\ n \in DOMAIN up /\ vp[n] = p
      /\ \A m \in DOMAIN up \ {n} : vp[m] = up[m]
  BY DEF Moves
<1>2. Acyclic(vp)
  <2> SUFFICES ASSUME NEW S \in SUBSET DOMAIN up, S # {}, \A m \in S : vp[m] \in S PROVE FALSE
    BY <1>1 DEF Acyclic
  <2>1. CASE n \notin S
    <3>1. \A m \in S : up[m] \in S
      BY <1>1, <2>1
    <3> QED
      BY <3>1 DEF Hangs, Acyclic
  <2>2. CASE n \in S
    <3>1. p \in S \cap P /\ S \cap P \in SUBSET DOMAIN up
      BY <1>1, <2>2 DEF Hangs
    <3>2. PICK m \in S \cap P : up[m] \notin S \cap P
      BY <3>1 DEF Hangs, Acyclic
    <3>3. up[m] \in S /\ up[m] \in DOMAIN up
      BY <1>1, <3>2
    <3> QED
      BY <3>2, <3>3 DEF Hangs
  <2> QED
    BY <2>1, <2>2
<1>3. Hangs(vp, P \cup {n}, r)
  BY <1>1, <1>2 DEF Hangs
<1>4. ASSUME NEW m \in P PROVE Chain(vp, m) = Chain(up, m)
  <2>1. n \notin Chain(up, m) /\ m \in DOMAIN up
    BY HangsChain DEF Hangs
  <2> QED
    BY <2>1, ChainUnmoved
<1>5. Chain(vp, n) = {n} \cup Chain(vp, p)
  <2>1. n \in DOMAIN vp /\ vp[n] \in DOMAIN vp
    BY <1>1 DEF Hangs
  <2> QED
    BY <1>1, <2>1, ChainStep
<1> QED
  BY <1>3, <1>4, <1>5

(* A row put under one that is not below it. *)
LEMMA HangsMoved ==
    ASSUME NEW up, NEW P, NEW r, Hangs(up, P, r), NEW vp, NEW x \in P, NEW p \in P,
           x # r, x \notin Chain(up, p), Moves(up, vp, x, p)
    PROVE  Hangs(vp, P, r)
<1>1. /\ DOMAIN vp = DOMAIN up /\ x \in DOMAIN up /\ vp[x] = p
      /\ \A m \in DOMAIN up \ {x} : vp[m] = up[m]
  BY DEF Moves
<1>2. Acyclic(vp)
  <2> SUFFICES ASSUME NEW S \in SUBSET DOMAIN up, S # {}, \A m \in S : vp[m] \in S PROVE FALSE
    BY <1>1 DEF Acyclic
  <2>1. CASE x \notin S
    <3>1. \A m \in S : up[m] \in S
      BY <1>1, <2>1
    <3> QED
      BY <3>1 DEF Hangs, Acyclic
  <2>2. CASE x \in S
    <3> DEFINE T == S \cap Chain(up, p)
    <3>0. p \in DOMAIN up
      BY DEF Hangs
    <3>1. p \in T /\ T \in SUBSET DOMAIN up
      BY <1>1, <2>2, <3>0, ChainFacts
    <3>2. PICK m \in T : up[m] \notin T
      BY <3>1 DEF Hangs, Acyclic
    <3>3. m # x /\ up[m] \in S
      BY <1>1, <3>2
    <3> QED
      BY <3>0, <3>2, <3>3, ChainFacts
  <2> QED
    BY <2>1, <2>2
<1> QED
  BY <1>1, <1>2 DEF Hangs

(* vp is up without the rows D of P, which nothing in P hangs from. *)
Drops(up, vp, P, D) ==
    /\ D \subseteq P /\ \A m \in P : up[m] \notin D
    /\ DOMAIN vp = DOMAIN up
    /\ \A m \in DOMAIN up \ D : vp[m] = up[m]
    /\ \A m \in D : vp[m] \notin DOMAIN up

(* Rows that nothing hangs from taken away. *)
LEMMA HangsDropped ==
    ASSUME NEW up, NEW P, NEW r, Hangs(up, P, r), NEW vp, NEW D, r \notin D,
           Drops(up, vp, P, D)
    PROVE  Hangs(vp, P \ D, r) /\ \A m \in P \ D : Chain(vp, m) = Chain(up, m)
<1> USE DEF Drops
<1>1. Acyclic(vp)
  <2> SUFFICES ASSUME NEW S \in SUBSET DOMAIN up, S # {}, \A m \in S : vp[m] \in S PROVE FALSE
    BY DEF Acyclic
  <2>1. \A m \in S : up[m] \in S
    OBVIOUS
  <2> QED
    BY <2>1 DEF Hangs, Acyclic
<1>2. Hangs(vp, P \ D, r)
  BY <1>1 DEF Hangs
<1>3. ASSUME NEW m \in P \ D PROVE Chain(vp, m) = Chain(up, m)
  <2>1. m \in DOMAIN up
    BY DEF Hangs
  <2>2. \A k \in Chain(up, m) : k \notin D
    BY <2>1, HangsChain, ChainParent
  <2>3. \A k \in Chain(up, m) : vp[k] = up[k]
    BY <2>1, <2>2, ChainFacts
  <2> QED
    BY <2>1, <2>3, ChainAgree
<1> QED
  BY <1>2, <1>3

-----------------------------------------------------------------------------
(* How deep a row is. *)

Depth(up, n) == Cardinality(Chain(up, n) \ {n})

(* Walks are finite, and depths numbers. *)
LEMMA DepthNat ==
    ASSUME NEW up, IsFiniteSet(DOMAIN up), NEW n \in DOMAIN up
    PROVE  /\ IsFiniteSet(Chain(up, n)) /\ IsFiniteSet(Chain(up, n) \ {n})
           /\ Depth(up, n) \in Nat /\ Cardinality(Chain(up, n)) = Depth(up, n) + 1
<1>1. IsFiniteSet(Chain(up, n)) /\ n \in Chain(up, n)
  BY ChainFacts, FS_Subset
<1>2. /\ IsFiniteSet(Chain(up, n) \ {n})
      /\ Cardinality(Chain(up, n) \ {n}) = Cardinality(Chain(up, n)) - 1
  BY <1>1, FS_RemoveElement
<1>3. Cardinality(Chain(up, n)) \in Nat /\ Cardinality(Chain(up, n) \ {n}) \in Nat
  BY <1>1, <1>2, FS_CardinalityType
<1> QED
  BY <1>1, <1>2, <1>3 DEF Depth

(* A row is one deeper than its parent. *)
LEMMA DepthStep ==
    ASSUME NEW up, IsFiniteSet(DOMAIN up), Acyclic(up), NEW n \in DOMAIN up
    PROVE  /\ up[n] \in DOMAIN up => Depth(up, n) = Depth(up, up[n]) + 1
           /\ up[n] \notin DOMAIN up => Depth(up, n) = 0
<1>1. ASSUME up[n] \in DOMAIN up PROVE Depth(up, n) = Depth(up, up[n]) + 1
  <2>1. Chain(up, n) = {n} \cup Chain(up, up[n]) /\ n \notin Chain(up, up[n])
    BY <1>1, ChainStep, NeverAbove
  <2>2. Chain(up, n) \ {n} = Chain(up, up[n])
    BY <2>1
  <2> QED
    BY <1>1, <2>2, DepthNat DEF Depth
<1>2. ASSUME up[n] \notin DOMAIN up PROVE Depth(up, n) = 0
  <2>1. Chain(up, n) \ {n} = {}
    BY <1>2, ChainStep
  <2> QED
    BY <2>1, FS_EmptySet DEF Depth
<1> QED
  BY <1>1, <1>2

(* The rows from one down to another count the levels between them. *)
LEMMA DepthBetween ==
    ASSUME NEW up, IsFiniteSet(DOMAIN up), Acyclic(up), NEW n \in DOMAIN up, NEW m \in Chain(up, n)
    PROVE  Cardinality({x \in Chain(up, n) : m \in Chain(up, x)}) = Depth(up, n) - Depth(up, m) + 1
<1> DEFINE B == {x \in Chain(up, n) : m \in Chain(up, x)}
<1> DEFINE A == Chain(up, m) \ {m}
<1>1. m \in DOMAIN up /\ Chain(up, m) \subseteq Chain(up, n) /\ IsFiniteSet(Chain(up, n))
  BY ChainRest, DepthNat
<1>2. A \subseteq Chain(up, n) /\ IsFiniteSet(A) /\ Cardinality(A) = Depth(up, m)
  BY <1>1, DepthNat DEF Depth
<1>3. B = Chain(up, n) \ A
  <2>1. ASSUME NEW x \in B PROVE x \notin A
    <3> SUFFICES ASSUME x \in Chain(up, m), x # m PROVE FALSE
      OBVIOUS
    <3>1. x \in DOMAIN up /\ m \in Chain(up, x)
      BY ChainFacts
    <3> QED
      BY <1>1, <3>1, ChainAntisymmetric
  <2>2. ASSUME NEW x \in Chain(up, n), x \notin A PROVE x \in B
    <3>1. x \in Chain(up, m) \/ m \in Chain(up, x)
      BY ChainLinear
    <3>2. x = m => m \in Chain(up, x)
      BY <1>1, ChainFacts
    <3> QED
      BY <2>2, <3>1, <3>2
  <2> QED
    BY <2>1, <2>2
<1> HIDE DEF A, B
<1>4. IsFiniteSet(B) /\ B \cap A = {} /\ B \cup A = Chain(up, n)
  BY <1>1, <1>2, <1>3, FS_Subset
<1>5. Cardinality(Chain(up, n)) = Cardinality(B) + Cardinality(A) - Cardinality(B \cap A)
  BY <1>2, <1>4, FS_Union
<1>6. Cardinality(B \cap A) = 0
  BY <1>4, FS_EmptySet
<1>7. Cardinality(Chain(up, n)) = Depth(up, n) + 1 /\ Depth(up, n) \in Nat /\ Depth(up, m) \in Nat
      /\ Cardinality(B) \in Nat
  BY <1>1, <1>4, DepthNat, FS_CardinalityType
<1> QED
  BY <1>2, <1>5, <1>6, <1>7 DEF B

(* What is above a row is no deeper. *)
LEMMA DepthAbove ==
    ASSUME NEW up, IsFiniteSet(DOMAIN up), Acyclic(up), NEW n \in DOMAIN up, NEW m \in Chain(up, n)
    PROVE  Depth(up, n) >= Depth(up, m) /\ Depth(up, n) \in Nat /\ Depth(up, m) \in Nat
<1>1. m \in DOMAIN up /\ Chain(up, m) \subseteq Chain(up, n)
  BY ChainRest
<1>2. IsFiniteSet(Chain(up, n)) /\ IsFiniteSet(Chain(up, m))
  BY <1>1, DepthNat
<1>3. Cardinality(Chain(up, m)) <= Cardinality(Chain(up, n))
  BY <1>1, <1>2, FS_Subset
<1>4. Depth(up, n) \in Nat /\ Cardinality(Chain(up, n)) = Depth(up, n) + 1
  BY DepthNat
<1>5. Depth(up, m) \in Nat /\ Cardinality(Chain(up, m)) = Depth(up, m) + 1
  BY <1>1, DepthNat
<1> QED
  BY <1>3, <1>4, <1>5

(* After a move, what is below the moved row sits as far below its new     *)
(* place as it sat below the old one.                                      *)
LEMMA DepthMoved ==
    ASSUME NEW up, IsFiniteSet(DOMAIN up), Acyclic(up), NEW vp, Acyclic(vp), NEW x,
           NEW p \in DOMAIN up, Moves(up, vp, x, p), x \notin Chain(up, p),
           NEW n \in DOMAIN up, x \in Chain(up, n)
    PROVE  Depth(vp, n) = Depth(up, n) - Depth(up, x) + Depth(up, p) + 1
<1> DEFINE B == {k \in DOMAIN up : /\ x \in Chain(up, k)
                                   /\ Depth(vp, k) # Depth(up, k) - Depth(up, x) + Depth(up, p) + 1}
<1> SUFFICES ASSUME B # {} PROVE FALSE
  OBVIOUS
<1>1. /\ DOMAIN vp = DOMAIN up /\ x \in DOMAIN up /\ vp[x] = p
      /\ \A m \in DOMAIN up \ {x} : vp[m] = up[m]
  BY DEF Moves
<1>2. B \in SUBSET DOMAIN up
  OBVIOUS
<1> HIDE DEF B
<1>3. PICK k \in B : up[k] \notin B
  BY <1>2 DEF Acyclic
<1> USE DEF B
<1>4. k \in DOMAIN up /\ x \in Chain(up, k)
  OBVIOUS
<1>5. Depth(up, x) \in Nat /\ Depth(up, p) \in Nat /\ Depth(up, k) \in Nat
  BY <1>1, <1>4, DepthNat
<1>6. CASE k = x
  <2>1. Chain(vp, p) = Chain(up, p)
    BY <1>1, ChainUnmoved
  <2>2. Depth(vp, p) = Depth(up, p)
    BY <2>1 DEF Depth
  <2>3. Depth(vp, x) = Depth(vp, p) + 1
    <3>1. IsFiniteSet(DOMAIN vp) /\ x \in DOMAIN vp /\ vp[x] \in DOMAIN vp
      BY <1>1
    <3> QED
      BY <1>1, <3>1, DepthStep
  <2> QED
    BY <1>5, <1>6, <2>2, <2>3
<1>7. CASE k # x
  <2>1. up[k] \in DOMAIN up /\ x \in Chain(up, up[k])
    BY <1>4, <1>7, ChainStep
  <2>2. Depth(vp, up[k]) = Depth(up, up[k]) - Depth(up, x) + Depth(up, p) + 1
    BY <1>3, <2>1
  <2>3. Depth(up, k) = Depth(up, up[k]) + 1 /\ Depth(up, up[k]) \in Nat
    BY <1>4, <2>1, DepthStep, DepthNat
  <2>4. Depth(vp, k) = Depth(vp, up[k]) + 1
    <3>1. IsFiniteSet(DOMAIN vp) /\ k \in DOMAIN vp /\ vp[k] = up[k] /\ vp[k] \in DOMAIN vp
      BY <1>1, <1>4, <1>7, <2>1
    <3> QED
      BY <3>1, DepthStep
  <2>5. Depth(vp, k) = Depth(up, k) - Depth(up, x) + Depth(up, p) + 1
    BY <1>5, <2>2, <2>3, <2>4
  <2> QED
    BY <2>5
<1> QED
  BY <1>6, <1>7

(* After a move, above a row that was below the moved one are what was     *)
(* between them and what is above the new place.                           *)
LEMMA ChainMoved ==
    ASSUME NEW up, NEW vp, NEW x, NEW p \in DOMAIN up, Moves(up, vp, x, p),
           NEW n \in DOMAIN up, x \in Chain(up, n), NEW m \in Chain(vp, n)
    PROVE  (m \in Chain(up, n) /\ x \in Chain(up, m)) \/ m \in Chain(up, p)
<1> DEFINE S == {k \in Chain(up, n) : x \in Chain(up, k)} \cup Chain(up, p)
<1>1. /\ DOMAIN vp = DOMAIN up /\ x \in DOMAIN up /\ vp[x] = p
      /\ \A k \in DOMAIN up \ {x} : vp[k] = up[k]
  BY DEF Moves
<1>2. n \in S
  BY ChainFacts
<1>3. ASSUME NEW k \in S, vp[k] \in DOMAIN vp PROVE vp[k] \in S
  <2>0. k \in DOMAIN up /\ p \in Chain(up, p)
    BY ChainFacts
  <2>1. CASE k = x
    BY <1>1, <2>0, <2>1
  <2>2. CASE k # x /\ k \in Chain(up, p)
    BY <1>1, <1>3, <2>0, <2>2, ChainFacts
  <2>3. CASE k # x /\ k \in Chain(up, n) /\ x \in Chain(up, k)
    <3>1. vp[k] = up[k] /\ up[k] \in DOMAIN up
      BY <1>1, <1>3, <2>0, <2>3
    <3>2. x \in Chain(up, up[k]) /\ up[k] \in Chain(up, n)
      BY <2>0, <2>3, <3>1, ChainStep, ChainFacts
    <3> QED
      BY <3>1, <3>2
  <2> QED
    BY <2>1, <2>2, <2>3
<1> HIDE DEF S
<1>4. Chain(vp, n) \subseteq S
  BY <1>1, <1>2, <1>3, ChainLeast
<1> QED
  BY <1>4 DEF S
=============================================================================
