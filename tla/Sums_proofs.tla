----------------------------- MODULE Sums_proofs -----------------------------
(***************************************************************************)
(* Facts about finite sums, for every finite set and every numbers.  The   *)
(* library states induction for a predicate; here it is stated for a set,  *)
(* from the least element of a set of numbers.                             *)
(***************************************************************************)
EXTENDS Sums, TLAPS, WellFoundedInduction, FiniteSetTheorems

(* A set of natural numbers has a least one. *)
LEMMA LeastNat ==
    ASSUME NEW S \in SUBSET Nat, S # {}
    PROVE  \E m \in S : \A k \in S : m <= k
<1>1. PICK R : R = OpToRel(<, Nat)  OBVIOUS
<1>2. IsWellFoundedOn(R, Nat)  BY <1>1, NatLessThanWellFounded
<1>3. \A k, m \in Nat : k < m => <<k, m>> \in R  BY <1>1 DEF OpToRel
<1>4. PICK m \in S : \A k \in S : ~ (<<k, m>> \in R)  BY <1>2, WFMin
<1>5. ASSUME NEW k \in S PROVE m <= k
  <2>1. k \in Nat /\ m \in Nat  OBVIOUS
  <2>2. ~ (k < m)  BY <1>3, <1>4, <2>1
  <2> QED BY <2>1, <2>2
<1> QED BY <1>5

(* Induction over the numbers, for a set instead of a predicate. *)
LEMMA NatSetInduction ==
    ASSUME NEW S, 0 \in S, \A n \in Nat : n \in S => n + 1 \in S
    PROVE  Nat \subseteq S
<1> DEFINE T == {n \in Nat : n \notin S}
<1>1. SUFFICES ASSUME T # {} PROVE FALSE OBVIOUS
<1>2. PICK m \in T : \A k \in T : m <= k BY <1>1, LeastNat
<1>3. m # 0 /\ m - 1 \in Nat /\ m - 1 \notin T BY <1>2
<1> QED BY <1>2, <1>3

(* The element of a set a fold takes next. *)
Picked(s) == CHOOSE x \in s : TRUE
(* What the fold of FiniteSetsExt is defined by. *)
IsSum(g, f, S) == g = [s \in SUBSET S |-> IF s = {} THEN 0 ELSE f[Picked(s)] + g[s \ {Picked(s)}]]
SumFcn(f, S) == CHOOSE g : IsSum(g, f, S)

(* The sum is the recursive function the fold is defined by. *)
LEMMA SumOfFcn == ASSUME NEW f, NEW S PROVE SumOf(f, S) = SumFcn(f, S)[S]
BY DEF SumOf, MapThenSumSet, MapThenFoldSet, SumFcn, IsSum, Picked

(* The parts of S with at most n elements. *)
Small(S, n) == {s \in SUBSET S : Cardinality(s) <= n}
(* g follows the recursion at s. *)
Recurs(g, f, s) == g[s] = IF s = {} THEN 0 ELSE f[Picked(s)] + g[s \ {Picked(s)}]

RecursBelow(g, f, S) == \A s \in SUBSET S : Recurs(g, f, s)

(* The element a fold takes next is one of the set. *)
LEMMA PickedIn == ASSUME NEW s, s # {} PROVE Picked(s) \in s
BY DEF Picked

(* Without the element it takes, a set is smaller by one. *)
LEMMA SmallerByOne ==
    ASSUME NEW S, IsFiniteSet(S), NEW n \in Nat, NEW s \in Small(S, n + 1), s # {}
    PROVE  Picked(s) \in S /\ s \ {Picked(s)} \in Small(S, n)
<1>1. IsFiniteSet(s) /\ Picked(s) \in s  BY FS_Subset, PickedIn DEF Small
<1>2. /\ Cardinality(s) \in Nat
      /\ Cardinality(s \ {Picked(s)}) = Cardinality(s) - 1
  BY <1>1, FS_RemoveElement, FS_CardinalityType
<1> QED BY <1>1, <1>2 DEF Small

(* Two functions that follow the recursion agree. *)
LEMMA SumUnique ==
    ASSUME NEW S, IsFiniteSet(S), NEW f, NEW g, NEW h,
           RecursBelow(g, f, S), RecursBelow(h, f, S)
    PROVE  \A s \in SUBSET S : g[s] = h[s]
<1> USE DEF RecursBelow
<1> DEFINE P == {n \in Nat : \A s \in Small(S, n) : g[s] = h[s]}
<1>1. 0 \in P
  <2>1. \A s \in Small(S, 0) : s = {}
    BY FS_Subset, FS_EmptySet, FS_CardinalityType DEF Small
  <2> QED BY <2>1 DEF Recurs, Small
<1>2. ASSUME NEW n \in Nat, n \in P PROVE n + 1 \in P
  <2>1. ASSUME NEW s \in Small(S, n + 1), s # {} PROVE g[s] = h[s]
    <3>1. s \ {Picked(s)} \in Small(S, n)  BY <2>1, SmallerByOne
    <3> QED BY <1>2, <2>1, <3>1 DEF Recurs, Small
  <2>2. ASSUME NEW s \in Small(S, n + 1), s = {} PROVE g[s] = h[s]
    BY <2>2 DEF Recurs, Small
  <2> QED BY <2>1, <2>2
<1>3. Nat \subseteq P
  <2> HIDE DEF P
  <2> QED BY <1>1, <1>2, NatSetInduction
<1>4. ASSUME NEW s \in SUBSET S PROVE g[s] = h[s]
  <2>1. Cardinality(s) \in Nat  BY FS_Subset, FS_CardinalityType
  <2>2. s \in Small(S, Cardinality(s))  BY <2>1 DEF Small
  <2> QED BY <1>3, <2>1, <2>2
<1> QED BY <1>4

(* Some function follows the recursion. *)
LEMMA SumExists ==
    ASSUME NEW S, IsFiniteSet(S), NEW f, \A x \in S : f[x] \in Int
    PROVE  \E g \in [SUBSET S -> Int] : \A s \in SUBSET S : Recurs(g, f, s)
<1> DEFINE P == {n \in Nat : \E g \in [Small(S, n) -> Int] : \A s \in Small(S, n) : Recurs(g, f, s)}
<1>1. 0 \in P
  <2>1. \A s \in Small(S, 0) : s = {}
    BY FS_Subset, FS_EmptySet, FS_CardinalityType DEF Small
  <2>2. [s \in Small(S, 0) |-> 0] \in [Small(S, 0) -> Int]  OBVIOUS
  <2>3. \A s \in Small(S, 0) : Recurs([t \in Small(S, 0) |-> 0], f, s)
    BY <2>1 DEF Recurs
  <2> QED BY <2>2, <2>3
<1>2. ASSUME NEW n \in Nat, n \in P PROVE n + 1 \in P
  <2>1. PICK g \in [Small(S, n) -> Int] : \A s \in Small(S, n) : Recurs(g, f, s)
    BY <1>2
  <2> DEFINE h == [s \in Small(S, n + 1) |->
                      IF s \in Small(S, n) THEN g[s] ELSE f[Picked(s)] + g[s \ {Picked(s)}]]
  <2>2. \A s \in Small(S, n) : s \in Small(S, n + 1)
    <3>1. \A s \in SUBSET S : Cardinality(s) \in Nat  BY FS_Subset, FS_CardinalityType
    <3> QED BY <3>1 DEF Small
  <2>3. {} \in Small(S, n)  BY FS_EmptySet DEF Small
  <2>4. \A s \in Small(S, n + 1) : s # {} =>
            f[Picked(s)] \in Int /\ s \ {Picked(s)} \in Small(S, n)
    BY SmallerByOne
  <2>5. h \in [Small(S, n + 1) -> Int]
    <3>1. ASSUME NEW s \in Small(S, n + 1), s \notin Small(S, n)
          PROVE  f[Picked(s)] + g[s \ {Picked(s)}] \in Int
      <4>1. f[Picked(s)] \in Int /\ s \ {Picked(s)} \in Small(S, n)  BY <2>3, <2>4, <3>1
      <4>2. g[s \ {Picked(s)}] \in Int  BY <4>1
      <4> QED BY <4>1, <4>2
    <3>2. ASSUME NEW s \in Small(S, n) PROVE g[s] \in Int  OBVIOUS
    <3> QED BY <3>1, <3>2
  <2>6. ASSUME NEW s \in Small(S, n + 1) PROVE Recurs(h, f, s)
    <3>1. CASE s = {}
      BY <2>1, <2>3, <3>1 DEF Recurs
    <3>2. CASE s # {}
      <4>1. s \ {Picked(s)} \in Small(S, n) /\ s \ {Picked(s)} \in Small(S, n + 1)  BY <2>2, <2>4, <3>2
      <4>2. h[s \ {Picked(s)}] = g[s \ {Picked(s)}]  BY <4>1
      <4>3. h[s] = f[Picked(s)] + g[s \ {Picked(s)}]  BY <2>1, <3>2 DEF Recurs
      <4> QED BY <3>2, <4>2, <4>3 DEF Recurs
    <3> QED BY <3>1, <3>2
  <2> HIDE DEF h
  <2> QED BY <2>5, <2>6
<1>3. Nat \subseteq P
  <2> HIDE DEF P
  <2> QED BY <1>1, <1>2, NatSetInduction
<1>4. Cardinality(S) \in Nat /\ Small(S, Cardinality(S)) = SUBSET S
  BY FS_CardinalityType, FS_Subset DEF Small
<1> QED BY <1>3, <1>4

(* The fold does, and takes integer values. *)
LEMMA SumFcnRecurs ==
    ASSUME NEW S, IsFiniteSet(S), NEW f, \A x \in S : f[x] \in Int
    PROVE  \A s \in SUBSET S : Recurs(SumFcn(f, S), f, s) /\ SumFcn(f, S)[s] \in Int
<1>1. PICK g \in [SUBSET S -> Int] : \A s \in SUBSET S : Recurs(g, f, s)  BY SumExists
<1>2. g = [s \in SUBSET S |-> IF s = {} THEN 0 ELSE f[Picked(s)] + g[s \ {Picked(s)}]]
  BY <1>1 DEF Recurs
<1>3. IsSum(SumFcn(f, S), f, S)
  <2>1. IsSum(g, f, S)  BY <1>2 DEF IsSum
  <2> QED BY <2>1 DEF SumFcn
<1>4. \A s \in SUBSET S : Recurs(SumFcn(f, S), f, s)
  <2> DEFINE h == SumFcn(f, S)
  <2>1. h = [s \in SUBSET S |-> IF s = {} THEN 0 ELSE f[Picked(s)] + h[s \ {Picked(s)}]]
    BY <1>3 DEF IsSum
  <2> HIDE DEF h
  <2>2. \A s \in SUBSET S : Recurs(h, f, s)  BY <2>1 DEF Recurs
  <2> QED BY <2>2 DEF h
<1>5. \A s \in SUBSET S : SumFcn(f, S)[s] = g[s]
  <2>1. RecursBelow(SumFcn(f, S), f, S) /\ RecursBelow(g, f, S)  BY <1>1, <1>4 DEF RecursBelow
  <2> QED BY <2>1, SumUnique
<1> QED BY <1>1, <1>4, <1>5

(* A sum over part of a set is the part of the sum. *)
LEMMA SumRestricts ==
    ASSUME NEW S, IsFiniteSet(S), NEW f, \A x \in S : f[x] \in Int, NEW T \in SUBSET S
    PROVE  SumFcn(f, S)[T] = SumOf(f, T)
<1>1. IsFiniteSet(T) /\ \A x \in T : f[x] \in Int  BY FS_Subset
<1>2. \A s \in SUBSET T : Recurs(SumFcn(f, T), f, s)  BY <1>1, SumFcnRecurs
<1>3. \A s \in SUBSET T : Recurs(SumFcn(f, S), f, s)  BY SumFcnRecurs
<1>4. RecursBelow(SumFcn(f, S), f, T) /\ RecursBelow(SumFcn(f, T), f, T)
  BY <1>2, <1>3 DEF RecursBelow
<1>5. \A s \in SUBSET T : SumFcn(f, S)[s] = SumFcn(f, T)[s]  BY <1>1, <1>4, SumUnique
<1>6. SumFcn(f, S)[T] = SumFcn(f, T)[T]  BY <1>5
<1> QED BY <1>6, SumOfFcn

(* A sum of integers is an integer. *)
LEMMA SumType ==
    ASSUME NEW S, IsFiniteSet(S), NEW f, \A x \in S : f[x] \in Int
    PROVE  SumOf(f, S) \in Int
<1>1. SumFcn(f, S)[S] \in Int  BY SumFcnRecurs
<1> QED BY <1>1, SumOfFcn

(* Nothing adds up to zero. *)
LEMMA SumEmpty == ASSUME NEW f PROVE SumOf(f, {}) = 0
<1>1. Recurs(SumFcn(f, {}), f, {})
  <2>1. IsFiniteSet({}) /\ \A x \in {} : f[x] \in Int  BY FS_EmptySet
  <2> QED BY <2>1, SumFcnRecurs
<1> QED BY <1>1, SumOfFcn DEF Recurs

(* A sum, by the element the fold takes first. *)
LEMMA SumPicked ==
    ASSUME NEW S, IsFiniteSet(S), S # {}, NEW f, \A x \in S : f[x] \in Int
    PROVE  SumOf(f, S) = f[Picked(S)] + SumOf(f, S \ {Picked(S)})
<1>1. Recurs(SumFcn(f, S), f, S)  BY SumFcnRecurs
<1>2. SumFcn(f, S)[S \ {Picked(S)}] = SumOf(f, S \ {Picked(S)})
  <2>1. S \ {Picked(S)} \in SUBSET S  OBVIOUS
  <2> QED BY <2>1, SumRestricts
<1> QED BY <1>1, <1>2, SumOfFcn DEF Recurs

(* A sum, by any of its elements: the order of the fold does not matter. *)
LEMMA SumRemove ==
    ASSUME NEW S, IsFiniteSet(S), NEW f, \A x \in S : f[x] \in Int, NEW x \in S
    PROVE  SumOf(f, S) = f[x] + SumOf(f, S \ {x})
<1> DEFINE P == {n \in Nat : \A s \in Small(S, n) : \A y \in s :
                                SumOf(f, s) = f[y] + SumOf(f, s \ {y})}
<1>1. 0 \in P
  <2>1. \A s \in Small(S, 0) : s = {}
    BY FS_Subset, FS_EmptySet, FS_CardinalityType DEF Small
  <2> QED BY <2>1
<1>2. ASSUME NEW n \in Nat, n \in P PROVE n + 1 \in P
  <2>1. ASSUME NEW s \in Small(S, n + 1), NEW y \in s
        PROVE  SumOf(f, s) = f[y] + SumOf(f, s \ {y})
    <3> DEFINE c == Picked(s)
    <3>1. c \in s /\ s \in SUBSET S /\ IsFiniteSet(s)  BY PickedIn, FS_Subset DEF Small
    <3>2. SumOf(f, s) = f[c] + SumOf(f, s \ {c})  BY <3>1, SumPicked
    <3>3. CASE y = c  BY <3>2, <3>3
    <3>4. CASE y # c
      <4>1. Cardinality(s \ {c}) <= n /\ Cardinality(s \ {y}) <= n
        <5>1. Cardinality(s) \in Nat /\ Cardinality(s) <= n + 1
          BY <3>1, FS_CardinalityType DEF Small
        <5>2. Cardinality(s \ {c}) = Cardinality(s) - 1 /\ Cardinality(s \ {y}) = Cardinality(s) - 1
          BY <3>1, FS_RemoveElement
        <5> QED BY <5>1, <5>2
      <4>2. s \ {c} \in Small(S, n) /\ s \ {y} \in Small(S, n)  BY <3>1, <4>1 DEF Small
      <4>3. SumOf(f, s \ {c}) = f[y] + SumOf(f, (s \ {c}) \ {y})
        BY <1>2, <3>4, <4>2
      <4>4. SumOf(f, s \ {y}) = f[c] + SumOf(f, (s \ {y}) \ {c})
        BY <1>2, <3>1, <3>4, <4>2
      <4>5. SumOf(f, s \ {c}) = f[y] + SumOf(f, (s \ {y}) \ {c})
        <5>1. (s \ {c}) \ {y} = (s \ {y}) \ {c}  OBVIOUS
        <5> QED BY <4>3, <5>1
      <4>6. f[c] \in Int /\ f[y] \in Int /\ SumOf(f, (s \ {y}) \ {c}) \in Int
        <5>1. IsFiniteSet((s \ {y}) \ {c})  BY <3>1, FS_RemoveElement
        <5> QED BY <3>1, <5>1, SumType
      <4> HIDE DEF c
      <4> QED BY <3>2, <4>4, <4>5, <4>6
    <3> QED BY <3>3, <3>4
  <2> QED BY <2>1
<1>3. Nat \subseteq P
  <2> HIDE DEF P
  <2> QED BY <1>1, <1>2, NatSetInduction
<1>4. Cardinality(S) \in Nat /\ S \in Small(S, Cardinality(S))
  BY FS_CardinalityType DEF Small
<1> QED BY <1>3, <1>4

(* Induction over a finite set, for a set of sets instead of a predicate. *)
LEMMA FiniteInduction ==
    ASSUME NEW S, IsFiniteSet(S), NEW F, {} \in F,
           \A T \in SUBSET S : \A x \in S \ T : T \in F => T \cup {x} \in F
    PROVE  S \in F
<1> DEFINE P == {n \in Nat : \A s \in Small(S, n) : s \in F}
<1>1. 0 \in P
  <2>1. \A s \in Small(S, 0) : s = {}
    BY FS_Subset, FS_EmptySet, FS_CardinalityType DEF Small
  <2> QED BY <2>1
<1>2. ASSUME NEW n \in Nat, n \in P PROVE n + 1 \in P
  <2>1. ASSUME NEW s \in Small(S, n + 1), s # {} PROVE s \in F
    <3>1. Picked(s) \in S /\ s \ {Picked(s)} \in Small(S, n)  BY <2>1, SmallerByOne
    <3>2. s \ {Picked(s)} \in F  BY <1>2, <3>1
    <3>3. s = (s \ {Picked(s)}) \cup {Picked(s)}  BY <2>1, PickedIn
    <3>4. s \ {Picked(s)} \in SUBSET S /\ Picked(s) \in S \ (s \ {Picked(s)})  BY <3>1 DEF Small
    <3> QED BY <3>2, <3>3, <3>4
  <2> QED BY <2>1
<1>3. Nat \subseteq P
  <2> HIDE DEF P
  <2> QED BY <1>1, <1>2, NatSetInduction
<1>4. Cardinality(S) \in Nat /\ S \in Small(S, Cardinality(S))
  BY FS_CardinalityType DEF Small
<1> QED BY <1>3, <1>4

(* One more element. *)
LEMMA SumInsert ==
    ASSUME NEW S, IsFiniteSet(S), NEW x, x \notin S,
           NEW f, \A y \in S \cup {x} : f[y] \in Int
    PROVE  SumOf(f, S \cup {x}) = f[x] + SumOf(f, S)
<1>1. IsFiniteSet(S \cup {x}) /\ x \in S \cup {x}  BY FS_AddElement
<1>2. SumOf(f, S \cup {x}) = f[x] + SumOf(f, (S \cup {x}) \ {x})  BY <1>1, SumRemove
<1>3. (S \cup {x}) \ {x} = S  OBVIOUS
<1> QED BY <1>2, <1>3

(* One number adds up to itself. *)
LEMMA SumOne ==
    ASSUME NEW x, NEW f, f[x] \in Int
    PROVE  SumOf(f, {x}) = f[x]
<1>1. IsFiniteSet({}) /\ x \notin {} /\ \A y \in {} \cup {x} : f[y] \in Int  BY FS_EmptySet
<1>2. SumOf(f, {} \cup {x}) = f[x] + SumOf(f, {})  BY <1>1, SumInsert
<1>3. {} \cup {x} = {x}  OBVIOUS
<1> QED BY <1>2, <1>3, SumEmpty

(* Equal numbers have equal sums. *)
LEMMA SumAgree ==
    ASSUME NEW S, IsFiniteSet(S), NEW f, NEW g, \A x \in S : f[x] \in Int /\ g[x] = f[x]
    PROVE  SumOf(g, S) = SumOf(f, S)
<1> DEFINE F == {T \in SUBSET S : SumOf(g, T) = SumOf(f, T)}
<1>1. {} \in F  BY SumEmpty
<1>2. ASSUME NEW T \in SUBSET S, NEW x \in S \ T, T \in F PROVE T \cup {x} \in F
  <2>1. IsFiniteSet(T)  BY FS_Subset
  <2>2. SumOf(f, T \cup {x}) = f[x] + SumOf(f, T)  BY <2>1, SumInsert
  <2>3. SumOf(g, T \cup {x}) = g[x] + SumOf(g, T)  BY <2>1, SumInsert
  <2> QED BY <1>2, <2>2, <2>3
<1> HIDE DEF F
<1>3. S \in F  BY <1>1, <1>2, FiniteInduction
<1> QED BY <1>3 DEF F

(* A sum of natural numbers is one. *)
LEMMA SumNat ==
    ASSUME NEW S, IsFiniteSet(S), NEW f, \A x \in S : f[x] \in Nat
    PROVE  SumOf(f, S) \in Nat
<1> DEFINE F == {T \in SUBSET S : SumOf(f, T) \in Nat}
<1>1. {} \in F  BY SumEmpty
<1>2. ASSUME NEW T \in SUBSET S, NEW x \in S \ T, T \in F PROVE T \cup {x} \in F
  <2>1. IsFiniteSet(T) /\ \A y \in T \cup {x} : f[y] \in Int  BY FS_Subset
  <2>2. SumOf(f, T \cup {x}) = f[x] + SumOf(f, T)  BY <2>1, SumInsert
  <2> QED BY <1>2, <2>2
<1> HIDE DEF F
<1>3. S \in F  BY <1>1, <1>2, FiniteInduction
<1> QED BY <1>3 DEF F

(* One number of a sum changes. *)
LEMMA SumUpdate ==
    ASSUME NEW S, IsFiniteSet(S), NEW f, NEW g, NEW x \in S,
           \A y \in S : f[y] \in Int /\ g[y] \in Int /\ (y # x => g[y] = f[y])
    PROVE  SumOf(g, S) = SumOf(f, S) + g[x] - f[x]
<1>1. IsFiniteSet(S \ {x}) /\ \A y \in S \ {x} : f[y] \in Int /\ g[y] = f[y]  BY FS_RemoveElement
<1>2. SumOf(g, S \ {x}) = SumOf(f, S \ {x})  BY <1>1, SumAgree
<1>3. SumOf(f, S \ {x}) \in Int  BY <1>1, SumType
<1>4. SumOf(f, S) = f[x] + SumOf(f, S \ {x})  BY SumRemove
<1>5. SumOf(g, S) = g[x] + SumOf(g, S \ {x})  BY SumRemove
<1>6. f[x] \in Int /\ g[x] \in Int  OBVIOUS
<1> QED BY <1>2, <1>3, <1>4, <1>5, <1>6

(* A sum by its parts. *)
LEMMA SumSplit ==
    ASSUME NEW S, IsFiniteSet(S), NEW f, \A x \in S : f[x] \in Int, NEW R \in SUBSET S
    PROVE  SumOf(f, S) = SumOf(f, S \ R) + SumOf(f, R)
<1> DEFINE F == {T \in SUBSET R : SumOf(f, S) = SumOf(f, S \ T) + SumOf(f, T)}
<1>1. IsFiniteSet(R)  BY FS_Subset
<1>2. {} \in F
  <2>1. S \ {} = S /\ SumOf(f, S) \in Int  BY SumType
  <2> QED BY <2>1, SumEmpty
<1>3. ASSUME NEW T \in SUBSET R, NEW x \in R \ T, T \in F PROVE T \cup {x} \in F
  <2>1. IsFiniteSet(T) /\ IsFiniteSet(S \ T)  BY FS_Subset
  <2>2. SumOf(f, T \cup {x}) = f[x] + SumOf(f, T)
    <3>1. x \notin T /\ \A y \in T \cup {x} : f[y] \in Int  OBVIOUS
    <3> QED BY <2>1, <3>1, SumInsert
  <2>3. SumOf(f, S \ T) = f[x] + SumOf(f, (S \ T) \ {x})
    <3>1. x \in S \ T /\ \A y \in S \ T : f[y] \in Int  OBVIOUS
    <3> QED BY <2>1, <3>1, SumRemove
  <2>4. (S \ T) \ {x} = S \ (T \cup {x})  OBVIOUS
  <2>5. SumOf(f, T) \in Int /\ SumOf(f, S \ (T \cup {x})) \in Int /\ f[x] \in Int
    <3>1. IsFiniteSet(S \ (T \cup {x})) /\ \A y \in S \ (T \cup {x}) : f[y] \in Int  BY FS_Subset
    <3>2. \A y \in T : f[y] \in Int  OBVIOUS
    <3> QED BY <2>1, <3>1, <3>2, SumType
  <2>6. SumOf(f, S) = SumOf(f, S \ T) + SumOf(f, T)  BY <1>3
  <2>7. SumOf(f, S) = SumOf(f, S \ (T \cup {x})) + SumOf(f, T \cup {x})
    <3> DEFINE a == SumOf(f, S \ T)
    <3> DEFINE b == SumOf(f, T)
    <3> DEFINE c == SumOf(f, S \ (T \cup {x}))
    <3> DEFINE d == SumOf(f, T \cup {x})
    <3>1. a = f[x] + c  BY <2>3, <2>4
    <3>2. d = f[x] + b /\ SumOf(f, S) = a + b /\ b \in Int /\ c \in Int /\ f[x] \in Int
      BY <2>2, <2>5, <2>6
    <3> HIDE DEF a, b, c, d
    <3>3. SumOf(f, S) = c + d  BY <3>1, <3>2
    <3> QED BY <3>3 DEF c, d
  <2> QED BY <2>7
<1> HIDE DEF F
<1>4. R \in F  BY <1>1, <1>2, <1>3, FiniteInduction
<1> QED BY <1>4 DEF F

(* No part of a sum of natural numbers is more than the sum. *)
LEMMA SumPart ==
    ASSUME NEW S, IsFiniteSet(S), NEW f, \A x \in S : f[x] \in Nat, NEW R \in SUBSET S
    PROVE  SumOf(f, R) \in Nat /\ SumOf(f, R) <= SumOf(f, S)
<1>1. IsFiniteSet(R) /\ IsFiniteSet(S \ R)  BY FS_Subset
<1>2. SumOf(f, R) \in Nat  BY <1>1, SumNat
<1>3. SumOf(f, S \ R) \in Nat  BY <1>1, SumNat
<1>4. SumOf(f, S) = SumOf(f, S \ R) + SumOf(f, R)  BY SumSplit
<1> QED BY <1>2, <1>3, <1>4

(* A sum of no more is no more. *)
LEMMA SumLe ==
    ASSUME NEW S, IsFiniteSet(S), NEW f, NEW g,
           \A x \in S : f[x] \in Int /\ g[x] \in Int /\ f[x] <= g[x]
    PROVE  SumOf(f, S) <= SumOf(g, S)
<1> DEFINE F == {T \in SUBSET S : SumOf(f, T) <= SumOf(g, T)}
<1>1. {} \in F
  BY SumEmpty
<1>2. ASSUME NEW T \in SUBSET S, NEW x \in S \ T, T \in F PROVE T \cup {x} \in F
  <2>1. IsFiniteSet(T)
    BY FS_Subset
  <2>2. SumOf(f, T \cup {x}) = f[x] + SumOf(f, T) /\ SumOf(g, T \cup {x}) = g[x] + SumOf(g, T)
    BY <2>1, SumInsert
  <2>3. SumOf(f, T) \in Int /\ SumOf(g, T) \in Int /\ SumOf(f, T) <= SumOf(g, T)
    BY <1>2, <2>1, SumType
  <2>4. SumOf(f, T \cup {x}) <= SumOf(g, T \cup {x})
    BY <2>2, <2>3
  <2> QED
    BY <2>4
<1> HIDE DEF F
<1>3. S \in F
  BY <1>1, <1>2, FiniteInduction
<1> QED
  BY <1>3 DEF F

(* A sum over a part is no more than a larger one over the whole. *)
LEMMA SumLeOver ==
    ASSUME NEW S, IsFiniteSet(S), NEW R \in SUBSET S, NEW f, NEW g,
           \A x \in R : f[x] \in Nat /\ f[x] <= g[x], \A x \in S : g[x] \in Nat
    PROVE  SumOf(f, R) <= SumOf(g, S)
<1>1. IsFiniteSet(R)
  BY FS_Subset
<1>2. SumOf(f, R) <= SumOf(g, R)
  BY <1>1, SumLe
<1>3. SumOf(g, R) \in Nat /\ SumOf(g, R) <= SumOf(g, S)
  BY SumPart
<1>4. SumOf(f, R) \in Nat /\ SumOf(g, S) \in Nat
  BY <1>1, SumNat
<1> QED
  BY <1>2, <1>3, <1>4

(* A sum over a part, as one over the whole. *)
LEMMA SumMask ==
    ASSUME NEW S, IsFiniteSet(S), NEW f, \A x \in S : f[x] \in Int, NEW R \in SUBSET S
    PROVE  SumOf(f, R) = SumOf([x \in S |-> IF x \in R THEN f[x] ELSE 0], S)
<1> DEFINE g == [x \in S |-> IF x \in R THEN f[x] ELSE 0]
           zero == [x \in S |-> 0]
           F == {T \in SUBSET (S \ R) : SumOf(g, T) = 0}
<1>1. IsFiniteSet(R) /\ IsFiniteSet(S \ R) /\ \A x \in S : g[x] \in Int
  BY FS_Subset
<1>2. SumOf(g, S) = SumOf(g, S \ R) + SumOf(g, R)
  BY <1>1, SumSplit
<1>3. SumOf(f, R) = SumOf(g, R)
  BY <1>1, SumAgree
<1>4. {} \in F
  BY SumEmpty
<1>5. ASSUME NEW T \in SUBSET (S \ R), NEW x \in (S \ R) \ T, T \in F PROVE T \cup {x} \in F
  <2>1. IsFiniteSet(T) /\ \A y \in T \cup {x} : g[y] \in Int
    BY <1>1, FS_Subset
  <2>2. g[x] = 0 /\ SumOf(g, T) = 0
    BY <1>5
  <2> HIDE DEF g
  <2>3. SumOf(g, T \cup {x}) = g[x] + SumOf(g, T)
    BY <2>1, SumInsert
  <2> QED
    BY <2>2, <2>3
<1> HIDE DEF F
<1>6. S \ R \in F
  BY <1>1, <1>4, <1>5, FiniteInduction
<1>7. SumOf(g, S \ R) = 0
  BY <1>6 DEF F
<1>8. SumOf(g, R) \in Int
  BY <1>1, SumType
<1> HIDE DEF g
<1>9. SumOf(f, R) = SumOf(g, S)
  BY <1>2, <1>3, <1>7, <1>8
<1> QED
  BY <1>9 DEF g

(* Nothing adds up to nothing. *)
LEMMA SumZero ==
    ASSUME NEW S, IsFiniteSet(S), NEW f, \A x \in S : f[x] = 0
    PROVE  SumOf(f, S) = 0
<1> DEFINE z == [x \in S |-> 0]
<1>1. z = [x \in S |-> IF x \in {} THEN z[x] ELSE 0]  OBVIOUS
<1>2. {} \in SUBSET S /\ \A x \in S : z[x] \in Int /\ f[x] = z[x]  OBVIOUS
<1> HIDE DEF z
<1>3. SumOf(z, S) = SumOf(z, {})  BY <1>1, <1>2, SumMask
<1>4. SumOf(f, S) = SumOf(z, S)  BY <1>2, SumAgree
<1> QED BY <1>3, <1>4, SumEmpty
=============================================================================
