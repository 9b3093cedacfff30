---------------------------- MODULE DriveTree_proofs ----------------------------
(***************************************************************************)
(* Proofs about DriveTree, for every finite set of folders and files, every*)
(* ceiling and every choice of events.                                     *)
(***************************************************************************)
EXTENDS DriveTree, DriveWalks_proofs

-----------------------------------------------------------------------------
(* The inductive invariant, in named parts, of a tree rather than of the   *)
(* variable: some operations make theirs in two steps.                     *)

(* A row of the nodes table, as the proofs need it.                        *)
Row == [state : {"none", "pending", "live", "gone", "dropped"},
        parent : Nodes \cup {NoParent}, trashed : BOOLEAN,
        removed : BOOLEAN, aged : BOOLEAN, height : Nat]

(* The rows still in the table, tombstones included.                       *)
There(tree) == {n \in Nodes : tree[n].state \in {"pending", "live", "gone"}}

(* Every row that is there hangs from the top folder, in a folder. *)
Shape(tree) ==
    /\ Hangs(UpIn(tree), There(tree), Root)
    /\ \A n \in There(tree) \ {Root} : tree[n].parent \in Folders \cup {Root}
    /\ tree[Root].state = "live" /\ ~tree[Root].trashed

(* What an operator removed stays marked as trash. *)
RemovedMarked(tree) == \A n \in Nodes : tree[n].removed => tree[n].trashed

(* The tree of the table's rows.                                           *)
TreeOK(tree) == tree \in [Nodes -> Row] /\ Shape(tree) /\ RemovedMarked(tree)

(* A tombstone above a row stays above it while the row is there. *)
GoneStays(t, u) ==
    \A n \in There(t) : PurgedIn(t, n) => PurgedIn(u, n) \/ n \notin There(u)

(* What the fan-out has listed is below a deleted folder, or has gone. *)
FanPurged ==
    \A n \in listed["fan"] :
        /\ node[n].state # "none"
        /\ n \in There(node) => PurgedIn(node, n)

(* Jobs never list the top folder.                                         *)
ListsOK == listed \in [Jobs -> SUBSET (Nodes \ {Root})]

-----------------------------------------------------------------------------
(* Walks of a tree. *)

(* A workspace has finitely many rows.                                     *)
LEMMA NodesFinite == IsFiniteSet(Nodes)
<1>1. IsFiniteSet({Root}) /\ IsFiniteSet(Folders \cup Files)
  BY TreeAssumption, FS_Singleton, FS_Union
<1> QED
  BY <1>1, FS_Union DEF Nodes

(* UpIn is the parent column.                                              *)
LEMMA UpFacts ==
    ASSUME NEW tree
    PROVE  DOMAIN UpIn(tree) = Nodes /\ \A n \in Nodes : UpIn(tree)[n] = tree[n].parent
BY DEF UpIn

(* A walk a row at a time is the walk. *)
LEMMA WalkIsChain ==
    ASSUME NEW tree, NEW n \in Nodes
    PROVE  /\ Walk(tree, n) = Chain(UpIn(tree), n)
           /\ n \in Walk(tree, n) /\ Walk(tree, n) \subseteq Nodes
<1>1. IsFiniteSet(DOMAIN UpIn(tree)) /\ n \in DOMAIN UpIn(tree)
  BY NodesFinite, UpFacts
<1> QED
  BY <1>1, ClimbIsChain, ChainFacts, UpFacts DEF Walk

(* Trees with the same parents have the same walks. *)
LEMMA SameUp ==
    ASSUME NEW t, NEW u, \A n \in Nodes : u[n].parent = t[n].parent
    PROVE  UpIn(u) = UpIn(t) /\ \A n \in Nodes : Walk(u, n) = Walk(t, n)
<1>1. UpIn(u) = UpIn(t)
  BY DEF UpIn
<1> QED
  BY <1>1 DEF Walk

(* Steps that move nothing and take nothing away: rows are marked, deleted *)
(* or published.                                                           *)
LEMMA Remarked ==
    ASSUME NEW t, TreeOK(t), NEW u \in [Nodes -> Row],
           \A n \in Nodes : u[n].parent = t[n].parent, There(u) = There(t),
           \A n \in Nodes : t[n].state = "gone" => u[n].state = "gone",
           u[Root].state = "live" /\ ~u[Root].trashed, RemovedMarked(u)
    PROVE  TreeOK(u) /\ GoneStays(t, u) /\ \A n \in Nodes : Walk(u, n) = Walk(t, n)
<1>1. UpIn(u) = UpIn(t) /\ \A n \in Nodes : Walk(u, n) = Walk(t, n)
  BY SameUp
<1>2. GoneStays(t, u)
  <2> SUFFICES ASSUME NEW n \in There(t), PurgedIn(t, n) PROVE PurgedIn(u, n)
    BY DEF GoneStays
  <2>1. n \in Nodes /\ Walk(t, n) \subseteq Nodes
    BY WalkIsChain DEF There
  <2> QED
    BY <1>1, <2>1 DEF PurgedIn
<1>3. Shape(u)
  <2>1. There(t) \subseteq Nodes
    BY DEF There
  <2> QED
    BY <1>1, <2>1 DEF TreeOK, Shape
<1> QED
  BY <1>1, <1>2, <1>3 DEF TreeOK

(* A new row in a folder that is there. *)
LEMMA PlacedOK ==
    ASSUME NEW t, TreeOK(t), NEW n \in Folders \cup Files, t[n].state = "none",
           NEW p \in There(t), p \in Folders \cup {Root}, NEW s \in {"pending", "live"}
    PROVE  /\ TreeOK(Placed(t, n, p, s)) /\ GoneStays(t, Placed(t, n, p, s))
           /\ There(Placed(t, n, p, s)) = There(t) \cup {n}
           /\ Placed(t, n, p, s)[n].state = s /\ Placed(t, n, p, s)[n].parent = p
           /\ Placed(t, n, p, s)[n].height = 0
           /\ \A m \in Nodes \ {n} : Placed(t, n, p, s)[m] = t[m]
           /\ \A m \in There(t) : Walk(Placed(t, n, p, s), m) = Walk(t, m)
           /\ Walk(Placed(t, n, p, s), n) = {n} \cup Walk(t, p)
<1> DEFINE u == Placed(t, n, p, s)
<1>1. /\ n \in Nodes /\ p \in Nodes /\ n # Root /\ n \notin There(t) /\ t \in [Nodes -> Row]
  BY TreeAssumption DEF Nodes, There, TreeOK
<1>2. /\ u \in [Nodes -> Row] /\ u[n] = [Blank EXCEPT !.state = s, !.parent = p]
      /\ \A m \in Nodes \ {n} : u[m] = t[m]
      /\ u[n].state = s /\ u[n].parent = p /\ ~u[n].trashed /\ ~u[n].removed
      /\ u[n].height = 0
  BY <1>1 DEF Placed, Row, Blank
<1> HIDE DEF u
<1>3. There(u) = There(t) \cup {n}
  BY <1>1, <1>2 DEF There
<1>4. Moves(UpIn(t), UpIn(u), n, p)
  <2>1. /\ DOMAIN UpIn(t) = Nodes /\ DOMAIN UpIn(u) = Nodes
        /\ \A m \in Nodes : UpIn(t)[m] = t[m].parent
        /\ \A m \in Nodes : UpIn(u)[m] = u[m].parent
    BY UpFacts
  <2>2. UpIn(u)[n] = p
    BY <1>1, <1>2, <2>1
  <2>3. \A m \in Nodes \ {n} : u[m].parent = t[m].parent
    BY <1>2
  <2>4. \A m \in Nodes \ {n} : UpIn(u)[m] = UpIn(t)[m]
    BY <2>1, <2>3
  <2> QED
    BY <1>1, <2>1, <2>2, <2>4 DEF Moves
<1>5. /\ Hangs(UpIn(u), There(t) \cup {n}, Root)
      /\ \A m \in There(t) : Chain(UpIn(u), m) = Chain(UpIn(t), m)
      /\ Chain(UpIn(u), n) = {n} \cup Chain(UpIn(t), p)
  BY <1>1, <1>4, HangsPlaced DEF TreeOK, Shape
<1>6. \A m \in There(t) : m \in Nodes /\ Walk(u, m) = Walk(t, m)
  BY <1>5, WalkIsChain DEF There
<1>7. Walk(u, n) = {n} \cup Walk(t, p)
  BY <1>1, <1>5, WalkIsChain
<1>8. Shape(u) /\ RemovedMarked(u)
  <2>1. There(t) \subseteq Nodes
    BY DEF There
  <2>2. \A m \in There(u) \ {Root} : u[m].parent \in Folders \cup {Root}
    BY <1>1, <1>2, <1>3, <2>1 DEF TreeOK, Shape
  <2>3. Root \in Nodes
    BY DEF Nodes
  <2>4. u[Root].state = "live" /\ ~u[Root].trashed
    BY <1>1, <1>2, <2>3 DEF TreeOK, Shape
  <2>5. RemovedMarked(u)
    BY <1>2 DEF TreeOK, RemovedMarked
  <2> QED
    BY <1>3, <1>5, <2>2, <2>4, <2>5 DEF Shape
<1>9. GoneStays(t, u)
  <2> SUFFICES ASSUME NEW m \in There(t), PurgedIn(t, m) PROVE PurgedIn(u, m)
    BY DEF GoneStays
  <2>1. PICK k \in Walk(t, m) : t[k].state = "gone"
    BY DEF PurgedIn
  <2>2. k \in Nodes
    BY <1>6, WalkIsChain
  <2>3. k # n
    BY <1>2, <2>1
  <2> QED
    BY <1>2, <1>6, <2>1, <2>2, <2>3 DEF PurgedIn
<1> QED
  BY <1>2, <1>3, <1>6, <1>7, <1>8, <1>9 DEF TreeOK, u

(* A row moved into a folder that is not below it. *)
LEMMA MovedOK ==
    ASSUME NEW t, TreeOK(t), NEW x \in There(t), x # Root, ~PurgedIn(t, x),
           NEW p \in There(t), p \in Folders \cup {Root}, x \notin Walk(t, p),
           NEW u \in [Nodes -> Row], u[x].parent = p, There(u) = There(t),
           \A n \in Nodes \ {x} : u[n].parent = t[n].parent,
           \A n \in Nodes : u[n].state = t[n].state,
           u[Root].state = "live" /\ ~u[Root].trashed, RemovedMarked(u)
    PROVE  TreeOK(u) /\ GoneStays(t, u) /\ Moves(UpIn(t), UpIn(u), x, p)
<1>1. There(t) \subseteq Nodes /\ x \in Nodes /\ p \in Nodes
  BY DEF There
<1>2. Moves(UpIn(t), UpIn(u), x, p)
  <2>1. /\ DOMAIN UpIn(t) = Nodes /\ DOMAIN UpIn(u) = Nodes
        /\ \A m \in Nodes : UpIn(t)[m] = t[m].parent
        /\ \A m \in Nodes : UpIn(u)[m] = u[m].parent
    BY UpFacts
  <2> QED
    BY <1>1, <2>1 DEF Moves
<1>3. x \notin Chain(UpIn(t), p)
  BY <1>1, WalkIsChain
<1>4. Hangs(UpIn(u), There(u), Root)
  BY <1>2, <1>3, HangsMoved DEF TreeOK, Shape
<1>5. \A n \in There(u) \ {Root} : u[n].parent \in Folders \cup {Root}
  BY <1>1 DEF TreeOK, Shape
<1>6. TreeOK(u)
  BY <1>4, <1>5 DEF TreeOK, Shape
<1>7. GoneStays(t, u)
  <2> SUFFICES ASSUME NEW n \in There(t), PurgedIn(t, n) PROVE PurgedIn(u, n)
    BY DEF GoneStays
  <2>1. PICK m \in Walk(t, n) : t[m].state = "gone"
    BY DEF PurgedIn
  <2>2. n \in Nodes /\ m \in Nodes /\ m \in Chain(UpIn(t), n)
    BY <1>1, <2>1, WalkIsChain
  <2>3. m \notin Walk(t, x)
    BY <2>1 DEF PurgedIn
  <2>4. m \notin Chain(UpIn(t), x)
    BY <1>1, <2>3, WalkIsChain
  <2>5. n \in DOMAIN UpIn(t)
    BY <2>2, UpFacts
  <2>6. m \in Chain(UpIn(u), n)
    BY <1>2, <2>2, <2>4, <2>5, ChainKept
  <2>7. m \in Walk(u, n) /\ u[m].state = "gone"
    BY <2>1, <2>2, <2>6, WalkIsChain
  <2> QED
    BY <2>7 DEF PurgedIn
<1> QED
  BY <1>2, <1>6, <1>7

(* Rows with nothing in them taken away. *)
LEMMA DroppedOK ==
    ASSUME NEW t, TreeOK(t), NEW D \in SUBSET There(t), Root \notin D,
           \A n \in There(t) : t[n].parent \notin D,
           NEW u, u = [n \in Nodes |-> IF n \in D THEN [Blank EXCEPT !.state = "dropped"] ELSE t[n]]
    PROVE  /\ TreeOK(u) /\ GoneStays(t, u) /\ There(u) = There(t) \ D
           /\ \A n \in There(u) : Walk(u, n) = Walk(t, n)
<1>1. There(t) \subseteq Nodes /\ Root \in Nodes /\ t \in [Nodes -> Row]
  BY DEF There, Nodes, TreeOK
<1>2. /\ u \in [Nodes -> Row]
      /\ \A n \in D : u[n].state = "dropped" /\ u[n].parent = NoParent /\ ~u[n].removed
      /\ \A n \in Nodes \ D : u[n] = t[n]
  BY <1>1 DEF Row, Blank
<1>3. There(u) = There(t) \ D
  BY <1>1, <1>2 DEF There
<1>4. /\ DOMAIN UpIn(t) = Nodes /\ DOMAIN UpIn(u) = Nodes
      /\ \A m \in Nodes : UpIn(t)[m] = t[m].parent
      /\ \A m \in Nodes : UpIn(u)[m] = u[m].parent
  BY UpFacts
<1>5. \A m \in Nodes \ D : UpIn(u)[m] = UpIn(t)[m]
  <2>1. \A m \in Nodes \ D : u[m].parent = t[m].parent
    BY <1>2
  <2> QED
    BY <1>4, <2>1
<1>6. \A m \in D : UpIn(u)[m] \notin Nodes
  BY <1>1, <1>2, <1>4, TreeAssumption
<1>7. \A m \in There(t) : UpIn(t)[m] \notin D
  BY <1>1, <1>4
<1>8. /\ Hangs(UpIn(u), There(t) \ D, Root)
      /\ \A m \in There(t) \ D : Chain(UpIn(u), m) = Chain(UpIn(t), m)
  <2>1. Drops(UpIn(t), UpIn(u), There(t), D)
    BY <1>4, <1>5, <1>6, <1>7 DEF Drops
  <2>2. Hangs(UpIn(t), There(t), Root)
    BY DEF TreeOK, Shape
  <2> QED
    BY <2>1, <2>2, HangsDropped
<1>9. \A n \in There(u) : Walk(u, n) = Walk(t, n)
  BY <1>1, <1>3, <1>8, WalkIsChain
<1>10. \A n \in There(u) \ {Root} : u[n].parent \in Folders \cup {Root}
  BY <1>1, <1>2, <1>3 DEF TreeOK, Shape
<1>11. Shape(u)
  BY <1>1, <1>2, <1>3, <1>8, <1>10 DEF TreeOK, Shape
<1>12. RemovedMarked(u)
  BY <1>2 DEF TreeOK, RemovedMarked
<1>13. GoneStays(t, u)
  <2> SUFFICES ASSUME NEW n \in There(t), PurgedIn(t, n), n \in There(u) PROVE PurgedIn(u, n)
    BY DEF GoneStays
  <2>1. PICK m \in Walk(t, n) : t[m].state = "gone"
    BY DEF PurgedIn
  <2>2. m \in There(u)
    <3>1. n \in There(t) \ D /\ Chain(UpIn(u), n) \subseteq There(t) \ D
      BY <1>3, <1>8, HangsChain
    <3> QED
      BY <1>1, <1>3, <1>8, <2>1, <3>1, WalkIsChain
  <2>3. u[m].state = "gone"
    BY <1>1, <1>2, <1>3, <2>1, <2>2
  <2> QED
    BY <1>9, <2>1, <2>3 DEF PurgedIn
<1> QED
  BY <1>2, <1>3, <1>9, <1>11, <1>12, <1>13 DEF TreeOK

DepthIn(tree, n) == Depth(UpIn(tree), n)

(* Two rows that differ in nothing but their height. *)
OnlyHeight(r, s) ==
    /\ s.state = r.state /\ s.parent = r.parent
    /\ s.trashed = r.trashed /\ s.removed = r.removed /\ s.aged = r.aged

(* u is t with the bounds raised from p up, for a leaf of this height.     *)
RaisedTo(t, u, p, leaf) ==
    /\ There(u) = There(t) /\ UpIn(u) = UpIn(t)
    /\ \A n \in Nodes :
          /\ OnlyHeight(t[n], u[n])
          /\ u[n].height >= t[n].height
          /\ n \in Walk(t, p) => u[n].height >= DepthIn(t, p) - DepthIn(t, n) + 1 + leaf
          /\ \/ u[n].height = t[n].height
             \/ /\ n \in Walk(t, p)
                /\ u[n].height = DepthIn(t, p) - DepthIn(t, n) + 1 + leaf

(* raiseHeightBounds: only heights change; from p up they are at least the *)
(* levels a leaf in p makes, and the others stay.                          *)
LEMMA RaisedOK ==
    ASSUME NEW t, TreeOK(t), NEW p \in Nodes, NEW leaf \in Nat,
           NEW u, u = Raised(t, p, leaf)
    PROVE  TreeOK(u) /\ GoneStays(t, u) /\ RaisedTo(t, u, p, leaf)
<1> DEFINE above(m) == Cardinality({x \in Walk(t, p) : m \in Walk(t, x)}) + leaf
<1>1. t \in [Nodes -> Row] /\ Walk(t, p) \subseteq Nodes
  BY WalkIsChain DEF TreeOK
<1>2. \A n \in Nodes : u[n] = IF n \in Walk(t, p) /\ t[n].height < above(n)
                              THEN [t[n] EXCEPT !.height = above(n)] ELSE t[n]
  BY DEF Raised
<1>3. u = [n \in Nodes |-> u[n]]
  BY DEF Raised
<1>4. ASSUME NEW n \in Walk(t, p) PROVE above(n) = DepthIn(t, p) - DepthIn(t, n) + 1 + leaf
  <2>1. {x \in Walk(t, p) : n \in Walk(t, x)}
          = {x \in Chain(UpIn(t), p) : n \in Chain(UpIn(t), x)}
    BY <1>1, WalkIsChain
  <2>2. IsFiniteSet(DOMAIN UpIn(t)) /\ p \in DOMAIN UpIn(t) /\ n \in Chain(UpIn(t), p)
        /\ Acyclic(UpIn(t))
    BY NodesFinite, UpFacts, WalkIsChain DEF TreeOK, Shape, Hangs
  <2> QED
    BY <2>1, <2>2, DepthBetween DEF DepthIn
<1>5. ASSUME NEW n \in Walk(t, p) PROVE above(n) \in Nat
  <2>1. IsFiniteSet(DOMAIN UpIn(t)) /\ p \in DOMAIN UpIn(t) /\ n \in Chain(UpIn(t), p)
        /\ Acyclic(UpIn(t))
    BY NodesFinite, UpFacts, WalkIsChain DEF TreeOK, Shape, Hangs
  <2>2. /\ DepthIn(t, p) >= DepthIn(t, n) /\ DepthIn(t, p) \in Nat /\ DepthIn(t, n) \in Nat
    BY <2>1, DepthAbove DEF DepthIn
  <2> QED
    BY <1>4, <2>2
<1> HIDE DEF above
<1>6. ASSUME NEW n \in Nodes
      PROVE  /\ u[n] \in Row /\ OnlyHeight(t[n], u[n])
             /\ u[n].height >= t[n].height
             /\ n \in Walk(t, p) => u[n].height >= above(n)
             /\ \/ u[n].height = t[n].height
                \/ n \in Walk(t, p) /\ u[n].height = above(n)
  <2>1. t[n] \in Row
    BY <1>1
  <2>2. CASE n \in Walk(t, p) /\ t[n].height < above(n)
    <3>1. u[n] = [t[n] EXCEPT !.height = above(n)] /\ above(n) \in Nat
      BY <1>2, <1>5, <2>2
    <3> QED
      BY <2>1, <2>2, <3>1 DEF Row, OnlyHeight
  <2>3. CASE ~(n \in Walk(t, p) /\ t[n].height < above(n))
    <3>1. u[n] = t[n]
      BY <1>2, <2>3
    <3>2. n \in Walk(t, p) => above(n) \in Nat
      BY <1>5
    <3>3. t[n].height \in Nat
      BY <2>1 DEF Row
    <3> QED
      BY <2>1, <2>3, <3>1, <3>2, <3>3 DEF OnlyHeight
  <2> QED
    BY <2>2, <2>3
<1>7. u \in [Nodes -> Row]
  BY <1>3, <1>6
<1>8. \A n \in Nodes : /\ u[n].parent = t[n].parent /\ u[n].state = t[n].state
                       /\ u[n].trashed = t[n].trashed /\ u[n].removed = t[n].removed
  BY <1>6 DEF OnlyHeight
<1>9. There(u) = There(t)
  BY <1>8 DEF There
<1>10. RemovedMarked(u) /\ u[Root].state = "live" /\ ~u[Root].trashed
  BY <1>8 DEF TreeOK, Shape, RemovedMarked, Nodes
<1>11. TreeOK(u) /\ GoneStays(t, u)
  BY <1>7, <1>8, <1>9, <1>10, Remarked
<1>12. UpIn(u) = UpIn(t)
  BY <1>8, SameUp
<1> QED
  BY <1>4, <1>6, <1>9, <1>11, <1>12 DEF RaisedTo

-----------------------------------------------------------------------------
(* Depths and the height bounds. *)

(* Every published row is as far below a folder as the folder's bound says *)
(* at most; an upload that is open has not been counted.                   *)
HeightsOK(tree, open) ==
    \A n \in Nodes : tree[n].state \in {"live", "gone"} /\ n \notin open =>
        \A m \in Walk(tree, n) : DepthIn(tree, n) - DepthIn(tree, m) <= tree[m].height

FoldersOK(tree) == \A n \in Folders \cap There(tree) : DepthIn(tree, n) <= MaxDepth

CeilingOK(tree) == \A n \in Nodes : tree[n].height <= MaxDepth + 1

Good(tree, open) == TreeOK(tree) /\ HeightsOK(tree, open) /\ FoldersOK(tree) /\ CeilingOK(tree)

(* An open upload's row is pending, or was deleted under it. *)
OpenOK(tree, open) ==
    /\ open \subseteq Files
    /\ \A n \in Nodes : tree[n].state = "pending" => n \in open
    /\ \A n \in open : tree[n].state \in {"pending", "gone"}

(* The inductive invariant. *)
IInv == Good(node, begun) /\ OpenOK(node, begun) /\ ListsOK /\ FanPurged

(* Depths along a walk. *)
LEMMA DepthFacts ==
    ASSUME NEW t, TreeOK(t), NEW n \in Nodes
    PROVE  /\ DepthIn(t, n) \in Nat
           /\ \A m \in Walk(t, n) : m \in Nodes /\ DepthIn(t, m) \in Nat
                                    /\ DepthIn(t, m) <= DepthIn(t, n)
           /\ DepthIn(t, n) = Cardinality(Walk(t, n) \ {n})
           /\ t[n].parent \in Nodes =>
                /\ DepthIn(t, n) = DepthIn(t, t[n].parent) + 1
                /\ Walk(t, n) = {n} \cup Walk(t, t[n].parent)
<1>1. /\ IsFiniteSet(DOMAIN UpIn(t)) /\ n \in DOMAIN UpIn(t) /\ Acyclic(UpIn(t))
      /\ DOMAIN UpIn(t) = Nodes /\ UpIn(t)[n] = t[n].parent
  BY NodesFinite, UpFacts DEF TreeOK, Shape, Hangs
<1>2. Walk(t, n) = Chain(UpIn(t), n) /\ Walk(t, n) \subseteq Nodes
  BY WalkIsChain
<1>3. DepthIn(t, n) \in Nat /\ DepthIn(t, n) = Cardinality(Walk(t, n) \ {n})
  BY <1>1, <1>2, DepthNat DEF DepthIn, Depth
<1>4. ASSUME NEW m \in Walk(t, n) PROVE DepthIn(t, m) \in Nat /\ DepthIn(t, m) <= DepthIn(t, n)
  <2>1. Depth(UpIn(t), n) >= Depth(UpIn(t), m) /\ Depth(UpIn(t), m) \in Nat
        /\ Depth(UpIn(t), n) \in Nat
    BY <1>1, <1>2, DepthAbove
  <2> QED
    BY <2>1 DEF DepthIn
<1>5. ASSUME t[n].parent \in Nodes
      PROVE  /\ DepthIn(t, n) = DepthIn(t, t[n].parent) + 1
             /\ Walk(t, n) = {n} \cup Walk(t, t[n].parent)
  BY <1>1, <1>2, <1>5, DepthStep, ChainStep, WalkIsChain DEF DepthIn
<1> QED
  BY <1>2, <1>3, <1>4, <1>5

(* Rows keep their depth when their walk stays. *)
LEMMA SameDepth ==
    ASSUME NEW t, NEW u, NEW n \in Nodes, Walk(u, n) = Walk(t, n)
    PROVE  DepthIn(u, n) = DepthIn(t, n)
BY WalkIsChain DEF DepthIn, Depth

(* Marking, deleting or publishing nothing anew keeps the bounds. *)
LEMMA RemarkedDepth ==
    ASSUME NEW t, NEW open, Good(t, open), NEW u \in [Nodes -> Row],
           \A n \in Nodes : u[n].parent = t[n].parent, There(u) = There(t),
           \A n \in Nodes : t[n].state = "gone" => u[n].state = "gone",
           u[Root].state = "live" /\ ~u[Root].trashed, RemovedMarked(u),
           \A n \in Nodes : u[n].height = t[n].height,
           \A n \in Nodes : u[n].state \in {"live", "gone"} /\ n \notin open =>
                                t[n].state \in {"live", "gone"}
    PROVE  Good(u, open) /\ GoneStays(t, u)
<1>1. TreeOK(u) /\ GoneStays(t, u) /\ \A n \in Nodes : Walk(u, n) = Walk(t, n)
  BY Remarked DEF Good
<1>2. \A n \in Nodes : DepthIn(u, n) = DepthIn(t, n) /\ Walk(t, n) \subseteq Nodes
  BY <1>1, SameDepth, WalkIsChain
<1>3. HeightsOK(u, open)
  <2> SUFFICES ASSUME NEW n \in Nodes, u[n].state \in {"live", "gone"}, n \notin open,
                      NEW m \in Walk(u, n)
               PROVE  DepthIn(u, n) - DepthIn(u, m) <= u[m].height
    BY DEF HeightsOK
  <2>1. m \in Walk(t, n) /\ m \in Nodes
    BY <1>1, <1>2
  <2>2. DepthIn(t, n) - DepthIn(t, m) <= t[m].height
    BY <2>1 DEF Good, HeightsOK
  <2> QED
    BY <1>2, <2>1, <2>2
<1>4. FoldersOK(u) /\ CeilingOK(u)
  BY <1>2 DEF Good, FoldersOK, CeilingOK, Nodes
<1> QED
  BY <1>1, <1>3, <1>4 DEF Good

(* u is t with a new row n in p. *)
PlacedAt(t, u, n, p, s) ==
    /\ There(u) = There(t) \cup {n}
    /\ \A m \in Nodes \ {n} : u[m] = t[m]
    /\ u[n].parent = p /\ u[n].state = s
    /\ DepthIn(u, n) = DepthIn(t, p) + 1

(* A new row, not counted yet. *)
LEMMA PlacedDepth ==
    ASSUME NEW t, NEW open, Good(t, open), NEW n \in Folders \cup Files, t[n].state = "none",
           NEW p \in There(t), p \in Folders \cup {Root}, NEW s \in {"pending", "live"},
           DepthIn(t, p) + 1 <= MaxDepth, NEW u, u = Placed(t, n, p, s)
    PROVE  /\ Good(u, open \cup {n}) /\ GoneStays(t, u)
           /\ PlacedAt(t, u, n, p, s)
<1>0. TreeOK(t) /\ There(t) \subseteq Nodes /\ n \in Nodes /\ n \notin There(t) /\ p \in Nodes
  BY DEF Good, There, Nodes
<1>1. /\ TreeOK(u) /\ GoneStays(t, u) /\ There(u) = There(t) \cup {n}
      /\ \A m \in Nodes \ {n} : u[m] = t[m]
      /\ \A m \in There(t) : Walk(u, m) = Walk(t, m)
      /\ u[n].parent = p /\ u[n].state = s /\ u[n].height = 0
  BY <1>0, PlacedOK
<1>2. u[n].parent = p /\ u[n].state = s /\ u[n].height = 0 /\ u[n].parent \in Nodes
  BY <1>0, <1>1
<1>3. \A m \in There(t) : DepthIn(u, m) = DepthIn(t, m)
  BY <1>0, <1>1, SameDepth
<1>4. DepthIn(u, n) = DepthIn(t, p) + 1
  <2>1. DepthIn(u, n) = DepthIn(u, u[n].parent) + 1
    BY <1>0, <1>1, <1>2, DepthFacts
  <2> QED
    BY <1>2, <1>3, <2>1
<1>5. HeightsOK(u, open \cup {n})
  <2> SUFFICES ASSUME NEW k \in Nodes, u[k].state \in {"live", "gone"}, k \notin open, k # n,
                      NEW m \in Walk(u, k)
               PROVE  DepthIn(u, k) - DepthIn(u, m) <= u[m].height
    BY DEF HeightsOK
  <2>1. k \in There(t) /\ t[k].state \in {"live", "gone"}
    BY <1>1 DEF There
  <2>2. m \in Walk(t, k) /\ m \in There(t)
    <3>1. Chain(UpIn(t), k) \subseteq There(t)
      BY <2>1, HangsChain DEF Good, TreeOK, Shape
    <3> QED
      BY <1>1, <2>1, <3>1, WalkIsChain
  <2>3. DepthIn(t, k) - DepthIn(t, m) <= t[m].height
    BY <2>1, <2>2 DEF Good, HeightsOK
  <2>4. u[m] = t[m]
    BY <1>0, <1>1, <2>2
  <2> QED
    BY <1>3, <2>1, <2>2, <2>3, <2>4
<1>6. FoldersOK(u)
  BY <1>1, <1>3, <1>4 DEF Good, FoldersOK
<1>7. CeilingOK(u)
  <2> SUFFICES ASSUME NEW m \in Nodes PROVE u[m].height <= MaxDepth + 1
    BY DEF CeilingOK
  <2>1. CASE m = n
    BY <1>2, <2>1, TreeAssumption
  <2>2. CASE m # n
    BY <1>1, <2>2 DEF Good, CeilingOK
  <2> QED
    BY <2>1, <2>2
<1> QED
  BY <1>1, <1>2, <1>3, <1>4, <1>5, <1>6, <1>7 DEF Good, PlacedAt

(* The row's parent and what is above it raised: now it is counted. *)
LEMMA RaisedDepth ==
    ASSUME NEW t, NEW open, NEW n \in There(t) \ {Root}, Good(t, open \cup {n}),
           NEW u, u = Raised(t, t[n].parent, 0)
    PROVE  Good(u, open) /\ GoneStays(t, u) /\ RaisedTo(t, u, t[n].parent, 0)
<1> DEFINE p == t[n].parent
<1>0. TreeOK(t) /\ There(t) \subseteq Nodes /\ n \in Nodes /\ p \in Nodes /\ p \in Folders \cup {Root}
      /\ p \in There(t)
  <2>1. TreeOK(t) /\ n \in Nodes /\ p \in Folders \cup {Root} /\ UpIn(t)[n] = p
    BY UpFacts DEF Good, TreeOK, Shape, There
  <2>2. UpIn(t)[n] \in There(t)
    BY <2>1 DEF TreeOK, Shape, Hangs
  <2> QED
    BY <2>1, <2>2 DEF There
<1> HIDE DEF p
<1>9. u = Raised(t, p, 0)
  BY DEF p
<1>10. TreeOK(u) /\ GoneStays(t, u) /\ RaisedTo(t, u, p, 0)
  BY <1>0, <1>9, RaisedOK
<1>1. /\ There(u) = There(t) /\ UpIn(u) = UpIn(t)
      /\ \A m \in Nodes :
            /\ OnlyHeight(t[m], u[m]) /\ u[m].height >= t[m].height
            /\ m \in Walk(t, p) => u[m].height >= DepthIn(t, p) - DepthIn(t, m) + 1
            /\ \/ u[m].height = t[m].height
               \/ /\ m \in Walk(t, p)
                  /\ u[m].height = DepthIn(t, p) - DepthIn(t, m) + 1
  <2>1. \A m \in Nodes : DepthIn(t, m) \in Nat
    BY <1>0, DepthFacts
  <2> QED
    BY <1>0, <1>10, <2>1 DEF RaisedTo
<1>2. \A m \in Nodes : Walk(u, m) = Walk(t, m) /\ DepthIn(u, m) = DepthIn(t, m)
  BY <1>1 DEF Walk, DepthIn
<1>3. HeightsOK(u, open)
  <2> SUFFICES ASSUME NEW k \in Nodes, u[k].state \in {"live", "gone"}, k \notin open,
                      NEW m \in Walk(t, k)
               PROVE  DepthIn(t, k) - DepthIn(t, m) <= u[m].height
    <3>1. \A k \in Nodes : \A m \in Walk(t, k) : m \in Nodes
      BY WalkIsChain
    <3> QED
      BY <1>2, <3>1 DEF HeightsOK
  <2>1. /\ m \in Nodes /\ t[k].state \in {"live", "gone"}
        /\ DepthIn(t, k) \in Nat /\ DepthIn(t, m) \in Nat
        /\ u[m].height \in Nat /\ t[m].height \in Nat
    BY <1>0, <1>1, <1>10, DepthFacts DEF OnlyHeight, TreeOK, Row
  <2>2. CASE k # n
    <3>1. DepthIn(t, k) - DepthIn(t, m) <= t[m].height
      BY <2>1, <2>2 DEF Good, HeightsOK
    <3> QED
      BY <1>1, <2>1, <3>1
  <2>3. CASE k = n /\ m = n
    BY <2>1, <2>3
  <2>4. CASE k = n /\ m # n
    <3>1. Walk(t, n) = {n} \cup Walk(t, p) /\ DepthIn(t, n) = DepthIn(t, p) + 1
          /\ DepthIn(t, p) \in Nat
      BY <1>0, DepthFacts DEF p
    <3>2. m \in Walk(t, p)
      BY <2>4, <3>1
    <3> QED
      BY <1>1, <2>1, <2>4, <3>1, <3>2
  <2> QED
    BY <2>2, <2>3, <2>4
<1>4. FoldersOK(u)
  BY <1>1, <1>2 DEF Good, FoldersOK, Nodes
<1>5. CeilingOK(u)
  <2>1. DepthIn(t, p) <= MaxDepth
    <3>1. CASE p \in Folders
      BY <1>0, <3>1 DEF Good, FoldersOK
    <3>2. CASE p = Root
      <4>1. t[Root].parent \notin Nodes
        BY <1>0, UpFacts DEF TreeOK, Shape, Hangs, Nodes
      <4>2. Walk(t, Root) = {Root}
        BY <1>0, <3>2, <4>1, WalkIsChain, ChainStep, UpFacts
      <4>3. DepthIn(t, Root) = 0
        BY <1>0, <3>2, <4>2, DepthFacts, FS_EmptySet
      <4> QED
        BY <3>2, <4>3, TreeAssumption
    <3> QED
      BY <1>0, <3>1, <3>2
  <2>2. ASSUME NEW m \in Nodes PROVE u[m].height <= MaxDepth + 1
    <3>1. t[m].height <= MaxDepth + 1
      BY DEF Good, CeilingOK
    <3>2. DepthIn(t, p) \in Nat /\ DepthIn(t, m) \in Nat
      BY <1>0, DepthFacts
    <3> QED
      BY <1>1, <2>1, <3>1, <3>2, TreeAssumption
  <2> QED
    BY <2>2 DEF CeilingOK
<1> QED
  BY <1>3, <1>4, <1>5, <1>10 DEF Good, p

(* A move, and what it raises: the moved row's bound decides for all that  *)
(* is below it.                                                            *)
LEMMA MovedDepth ==
    ASSUME NEW t, NEW open, Good(t, open), OpenOK(t, open),
           NEW x \in There(t), x # Root, ~PurgedIn(t, x),
           NEW p \in There(t), p \in Folders \cup {Root}, x \notin Walk(t, p),
           DepthIn(t, p) + 1 + t[x].height <= MaxDepth,
           NEW u \in [Nodes -> Row], u[x].parent = p,
           \A n \in Nodes \ {x} : u[n].parent = t[n].parent,
           \A n \in Nodes : u[n].state = t[n].state /\ u[n].height = t[n].height,
           u[Root].state = "live" /\ ~u[Root].trashed, RemovedMarked(u),
           NEW v, v = Raised(u, p, t[x].height)
    PROVE  /\ Good(v, open) /\ GoneStays(t, v)
           /\ \A n \in Nodes : OnlyHeight(u[n], v[n])
<1> DEFINE leaf == t[x].height
<1>0. /\ TreeOK(t) /\ There(t) \subseteq Nodes /\ x \in Nodes /\ p \in Nodes /\ leaf \in Nat
      /\ There(u) = There(t)
  BY DEF Good, TreeOK, There, Row
<1>1. TreeOK(u) /\ GoneStays(t, u) /\ Moves(UpIn(t), UpIn(u), x, p)
  BY <1>0, MovedOK
<1>2. TreeOK(v) /\ GoneStays(u, v) /\ RaisedTo(u, v, p, leaf)
  <2>1. v = Raised(u, p, leaf)
    OBVIOUS
  <2> HIDE DEF leaf
  <2> QED
    BY <1>0, <1>1, <2>1, RaisedOK
<1> HIDE DEF leaf
<1>3. \A m \in Nodes : Walk(v, m) = Walk(u, m) /\ DepthIn(v, m) = DepthIn(u, m)
  BY <1>2 DEF Walk, DepthIn, RaisedTo
<1>4. /\ IsFiniteSet(DOMAIN UpIn(t)) /\ DOMAIN UpIn(t) = Nodes
      /\ Acyclic(UpIn(t)) /\ Acyclic(UpIn(u)) /\ x \notin Chain(UpIn(t), p)
  BY <1>0, <1>1, NodesFinite, UpFacts, WalkIsChain DEF TreeOK, Shape, Hangs
<1>5. \A n \in Nodes : DepthIn(t, n) \in Nat /\ t[n].height \in Nat /\ v[n].height \in Nat
  BY <1>0, <1>2, DepthFacts DEF TreeOK, Row
(* Elsewhere nothing changes. *)
<1>6. ASSUME NEW n \in Nodes, x \notin Walk(t, n)
      PROVE  Walk(u, n) = Walk(t, n) /\ DepthIn(u, n) = DepthIn(t, n)
  <2>1. Chain(UpIn(u), n) = Chain(UpIn(t), n)
    BY <1>1, <1>4, <1>6, WalkIsChain, ChainUnmoved
  <2>2. Walk(u, n) = Walk(t, n)
    BY <2>1, WalkIsChain
  <2> QED
    BY <2>2, SameDepth
(* Below the moved row all move together. *)
<1>7. ASSUME NEW n \in Nodes, x \in Walk(t, n)
      PROVE  DepthIn(u, n) = DepthIn(t, n) - DepthIn(t, x) + DepthIn(t, p) + 1
  <2>1. n \in DOMAIN UpIn(t) /\ p \in DOMAIN UpIn(t) /\ x \in Chain(UpIn(t), n)
    BY <1>0, <1>4, <1>7, WalkIsChain
  <2> QED
    BY <1>1, <1>4, <2>1, DepthMoved DEF DepthIn
<1>8. \A m \in Walk(t, p) : /\ m \in Nodes /\ m \in Walk(u, p)
                            /\ DepthIn(u, m) = DepthIn(t, m) /\ DepthIn(u, p) = DepthIn(t, p)
  <2>1. Walk(u, p) = Walk(t, p) /\ DepthIn(u, p) = DepthIn(t, p)
    BY <1>0, <1>6
  <2>2. ASSUME NEW m \in Walk(t, p) PROVE m \in Nodes /\ x \notin Walk(t, m)
    <3>1. m \in Nodes /\ Chain(UpIn(t), m) \subseteq Chain(UpIn(t), p)
      BY <1>0, <1>4, WalkIsChain, ChainRest
    <3> QED
      BY <1>0, <1>4, <3>1, WalkIsChain
  <2> QED
    BY <1>6, <2>1, <2>2
<1>9. HeightsOK(v, open)
  <2> SUFFICES ASSUME NEW n \in Nodes, v[n].state \in {"live", "gone"}, n \notin open,
                      NEW m \in Walk(u, n)
               PROVE  DepthIn(u, n) - DepthIn(u, m) <= v[m].height
    <3>1. \A n \in Nodes : \A m \in Walk(u, n) : m \in Nodes
      BY WalkIsChain
    <3> QED
      BY <1>3, <3>1 DEF HeightsOK
  <2>1. m \in Nodes /\ t[n].state \in {"live", "gone"} /\ v[m].height >= t[m].height
    BY <1>2, WalkIsChain DEF OnlyHeight, RaisedTo
  <2>2. \A k \in Walk(t, n) : DepthIn(t, n) - DepthIn(t, k) <= t[k].height
    BY <2>1 DEF Good, HeightsOK
  <2>3. CASE x \notin Walk(t, n)
    <3>1. m \in Walk(t, n)
      BY <1>6, <2>3
    <3>2. x \notin Walk(t, m)
      <4>1. Chain(UpIn(t), m) \subseteq Chain(UpIn(t), n)
        BY <1>4, <3>1, WalkIsChain, ChainRest
      <4> QED
        BY <2>1, <2>3, <4>1, WalkIsChain
    <3>3. DepthIn(u, n) = DepthIn(t, n) /\ DepthIn(u, m) = DepthIn(t, m)
      BY <1>6, <2>1, <2>3, <3>2
    <3> QED
      BY <1>5, <2>1, <2>2, <3>1, <3>3
  <2>4. CASE x \in Walk(t, n)
    <3>1. \/ m \in Walk(t, n) /\ x \in Walk(t, m)
          \/ m \in Walk(t, p)
      <4>1. /\ n \in DOMAIN UpIn(t) /\ p \in DOMAIN UpIn(t) /\ x \in Chain(UpIn(t), n)
            /\ m \in Chain(UpIn(u), n)
        BY <1>0, <1>4, <2>4, WalkIsChain
      <4>2. \/ m \in Chain(UpIn(t), n) /\ x \in Chain(UpIn(t), m)
            \/ m \in Chain(UpIn(t), p)
        BY <1>1, <4>1, ChainMoved
      <4> QED
        BY <1>0, <2>1, <4>2, WalkIsChain
    <3>2. CASE m \in Walk(t, n) /\ x \in Walk(t, m)
      <4>1. /\ DepthIn(u, n) = DepthIn(t, n) - DepthIn(t, x) + DepthIn(t, p) + 1
            /\ DepthIn(u, m) = DepthIn(t, m) - DepthIn(t, x) + DepthIn(t, p) + 1
        BY <1>7, <2>1, <2>4, <3>2
      <4>2. DepthIn(t, n) - DepthIn(t, m) <= t[m].height
        BY <2>2, <3>2
      <4> QED
        BY <1>0, <1>5, <2>1, <4>1, <4>2
    <3>3. CASE m \in Walk(t, p)
      <4>1. DepthIn(u, n) = DepthIn(t, n) - DepthIn(t, x) + DepthIn(t, p) + 1
        BY <1>7, <2>4
      <4>2. DepthIn(u, m) = DepthIn(t, m) /\ DepthIn(u, p) = DepthIn(t, p) /\ m \in Walk(u, p)
        BY <1>8, <3>3
      <4>3. DepthIn(t, n) - DepthIn(t, x) <= leaf
        BY <2>2, <2>4 DEF leaf
      <4>4. v[m].height >= DepthIn(t, p) - DepthIn(t, m) + 1 + leaf
        BY <1>2, <2>1, <4>2 DEF RaisedTo
      <4> QED
        BY <1>0, <1>5, <2>1, <4>1, <4>2, <4>3, <4>4
    <3> QED
      BY <3>1, <3>2, <3>3
  <2> QED
    BY <2>3, <2>4
<1>10. FoldersOK(v)
  <2> SUFFICES ASSUME NEW n \in Folders, n \in There(t) PROVE DepthIn(u, n) <= MaxDepth
    BY <1>0, <1>2, <1>3 DEF FoldersOK, Nodes, RaisedTo
  <2>1. n \in Nodes /\ t[n].state \in {"live", "gone"} /\ n \notin open
    BY TreeAssumption DEF There, OpenOK
  <2>2. CASE x \notin Walk(t, n)
    BY <1>6, <2>1, <2>2 DEF Good, FoldersOK
  <2>3. CASE x \in Walk(t, n)
    <3>1. DepthIn(t, n) - DepthIn(t, x) <= leaf
      BY <2>1, <2>3 DEF Good, HeightsOK, leaf
    <3>2. DepthIn(u, n) = DepthIn(t, n) - DepthIn(t, x) + DepthIn(t, p) + 1
      BY <1>7, <2>1, <2>3
    <3>3. DepthIn(t, p) + 1 + leaf <= MaxDepth
      BY DEF leaf
    <3> QED
      BY <1>0, <1>5, <2>1, <3>1, <3>2, <3>3, TreeAssumption
  <2> QED
    BY <2>2, <2>3
<1>11. CeilingOK(v)
  <2> SUFFICES ASSUME NEW m \in Nodes PROVE v[m].height <= MaxDepth + 1
    BY DEF CeilingOK
  <2>1. CASE v[m].height = u[m].height
    BY <2>1 DEF Good, CeilingOK
  <2>2. CASE /\ m \in Walk(u, p)
             /\ v[m].height = DepthIn(u, p) - DepthIn(u, m) + 1 + leaf
    <3>1. DepthIn(u, p) = DepthIn(t, p) /\ DepthIn(u, m) \in Nat
      BY <1>0, <1>1, <1>6, DepthFacts
    <3>2. DepthIn(t, p) + 1 + leaf <= MaxDepth
      BY DEF leaf
    <3> QED
      BY <1>0, <1>5, <2>2, <3>1, <3>2, TreeAssumption
  <2> QED
    BY <1>2, <2>1, <2>2 DEF RaisedTo
<1>12. GoneStays(t, v)
  BY <1>0, <1>1, <1>2 DEF GoneStays, RaisedTo
<1> QED
  BY <1>2, <1>9, <1>10, <1>11, <1>12 DEF Good, RaisedTo

(* Rows dropped with nothing in them. *)
LEMMA DroppedDepth ==
    ASSUME NEW t, NEW open, Good(t, open), NEW D \in SUBSET There(t), Root \notin D,
           \A n \in There(t) : t[n].parent \notin D,
           NEW u, u = [n \in Nodes |-> IF n \in D THEN [Blank EXCEPT !.state = "dropped"] ELSE t[n]]
    PROVE  Good(u, open \ D) /\ GoneStays(t, u) /\ There(u) = There(t) \ D
<1>1. There(t) \subseteq Nodes /\ TreeOK(t)
  BY DEF There, Good
<1>2. /\ TreeOK(u) /\ GoneStays(t, u) /\ There(u) = There(t) \ D
      /\ \A n \in There(u) : Walk(u, n) = Walk(t, n)
  BY <1>1, DroppedOK
<1>3. /\ \A n \in Nodes \ D : u[n] = t[n]
      /\ \A n \in D : u[n].state = "dropped" /\ u[n].height = 0
  BY <1>1 DEF Blank
<1>4. \A n \in There(u) : DepthIn(u, n) = DepthIn(t, n)
  BY <1>1, <1>2, SameDepth
<1>5. HeightsOK(u, open \ D)
  <2> SUFFICES ASSUME NEW n \in Nodes, u[n].state \in {"live", "gone"}, n \notin open \ D,
                      NEW m \in Walk(u, n)
               PROVE  DepthIn(u, n) - DepthIn(u, m) <= u[m].height
    BY DEF HeightsOK
  <2>1. n \in There(u) /\ n \notin D /\ t[n].state \in {"live", "gone"} /\ n \notin open
    BY <1>3 DEF There
  <2>2. m \in There(u) /\ m \notin D /\ m \in Walk(t, n) /\ m \in Nodes
    <3>1. Chain(UpIn(u), n) \subseteq There(u)
      BY <1>2, <2>1, HangsChain DEF TreeOK, Shape
    <3> QED
      BY <1>1, <1>2, <2>1, <3>1, WalkIsChain
  <2>3. DepthIn(t, n) - DepthIn(t, m) <= t[m].height
    BY <2>1, <2>2 DEF Good, HeightsOK
  <2>4. u[m] = t[m]
    BY <1>3, <2>2
  <2> QED
    BY <1>4, <2>1, <2>2, <2>3, <2>4
<1>6. FoldersOK(u)
  BY <1>2, <1>4 DEF Good, FoldersOK
<1>7. CeilingOK(u)
  <2> SUFFICES ASSUME NEW m \in Nodes PROVE u[m].height <= MaxDepth + 1
    BY DEF CeilingOK
  <2>1. CASE m \in D
    <3>1. u[m].height = 0
      BY <1>3, <2>1
    <3>2. 0 <= MaxDepth + 1
      BY TreeAssumption
    <3> QED
      BY <3>1, <3>2
  <2>2. CASE m \notin D
    BY <1>3, <2>2 DEF Good, CeilingOK
  <2> QED
    BY <2>1, <2>2
<1> QED
  BY <1>2, <1>5, <1>6, <1>7 DEF Good

-----------------------------------------------------------------------------
(* What each operation leaves. *)

(* A row that was deleted or dropped does not come back by its id. *)
NoComeback(t, u) ==
    \A n \in Nodes : t[n].state # "none" =>
        u[n].state # "none" /\ (n \notin There(t) => n \notin There(u))

(* Of the rows, only those of `gone` may have been deleted. *)
Deletes(t, u, gone) ==
    \A n \in Nodes : u[n].state = "gone" => t[n].state = "gone" \/ n \in gone

(* What an operation must leave of tree t and open uploads `open`.         *)
Outcome(t, open, u, now, gone) ==
    Good(u, now) /\ OpenOK(u, now) /\ GoneStays(t, u) /\ NoComeback(t, u) /\ Deletes(t, u, gone)

(* A published leaf in a folder, and the bounds above it: createFolders,   *)
(* copyFile.                                                               *)
LEMMA NewLeaf ==
    ASSUME NEW t, NEW open, Good(t, open), OpenOK(t, open),
           NEW n \in Folders \cup Files, t[n].state = "none",
           NEW p \in There(t), p \in Folders \cup {Root}, DepthIn(t, p) + 1 <= MaxDepth,
           NEW u, u = Raised(Placed(t, n, p, "live"), p, 0)
    PROVE  /\ Outcome(t, open, u, open, {})
           /\ There(u) = There(t) \cup {n} /\ u[n].state = "live"
           /\ \A m \in Nodes \ {n} : u[m].state = t[m].state
           /\ DepthIn(u, n) = DepthIn(t, p) + 1
<1> DEFINE a == Placed(t, n, p, "live")
<1>1. /\ Good(a, open \cup {n}) /\ GoneStays(t, a) /\ There(a) = There(t) \cup {n}
      /\ \A m \in Nodes \ {n} : a[m] = t[m]
      /\ a[n].parent = p /\ a[n].state = "live"
      /\ DepthIn(a, n) = DepthIn(t, p) + 1
  <2>1. "live" \in {"pending", "live"}
    OBVIOUS
  <2>2. Good(a, open \cup {n}) /\ GoneStays(t, a) /\ PlacedAt(t, a, n, p, "live")
    BY <2>1, PlacedDepth
  <2> HIDE DEF a
  <2> QED
    BY <2>2 DEF PlacedAt
<1>2. u = Raised(a, a[n].parent, 0)
  BY <1>1
<1> HIDE DEF a
<1>3. n \in Nodes /\ n # Root /\ n \notin open /\ n \notin There(t)
  BY TreeAssumption DEF Nodes, OpenOK, There
<1>4. n \in There(a) \ {Root}
  BY <1>1, <1>3
<1>5. /\ Good(u, open) /\ GoneStays(a, u) /\ There(u) = There(a)
      /\ \A m \in Nodes : OnlyHeight(a[m], u[m])
      /\ \A m \in Nodes : DepthIn(u, m) = DepthIn(a, m)
  <2>1. Good(u, open) /\ GoneStays(a, u) /\ RaisedTo(a, u, a[n].parent, 0)
    BY <1>1, <1>2, <1>4, RaisedDepth
  <2> QED
    BY <2>1 DEF RaisedTo, DepthIn
<1>6. /\ u[n].state = "live" /\ \A m \in Nodes \ {n} : u[m].state = t[m].state
  BY <1>1, <1>3, <1>5 DEF OnlyHeight
<1>7. OpenOK(u, open)
  BY <1>3, <1>6 DEF OpenOK, Nodes
<1>8. GoneStays(t, u)
  BY <1>1, <1>5 DEF GoneStays
<1>9. NoComeback(t, u)
  BY <1>1, <1>3, <1>5, <1>6 DEF NoComeback
<1>10. Deletes(t, u, {})
  BY <1>6 DEF Deletes
<1> QED
  BY <1>1, <1>3, <1>5, <1>6, <1>7, <1>8, <1>9, <1>10 DEF Outcome

(* What a request may use as a folder, and how deep it is. *)
LEMMA HomeFacts ==
    ASSUME NEW p, Home(p), TreeOK(node)
    PROVE  /\ p \in There(node) /\ p \in Folders \cup {Root} /\ p \in Nodes
           /\ DepthOf(p) = DepthIn(node, p) /\ DepthIn(node, p) \in Nat
<1>1. p \in Nodes
  BY DEF Home, Nodes
<1> QED
  BY <1>1, DepthFacts DEF Home, There, DepthOf, ChainOf

(* createFolders: a path of one or two new folders, all of it within the   *)
(* ceiling.                                                                *)
LEMMA CreateStep ==
    ASSUME Good(node, begun), OpenOK(node, begun), NEW p, NEW n \in Folders, NEW m \in Folders,
           CreateFolders(p, n, m)
    PROVE  Outcome(node, begun, node', begun', {})
<1>1. /\ p \in There(node) /\ p \in Folders \cup {Root} /\ DepthIn(node, p) + 1 <= MaxDepth
      /\ node[n].state = "none" /\ n \in Folders \cup Files /\ begun' = begun
      /\ DepthOf(p) = DepthIn(node, p) /\ DepthIn(node, p) \in Nat
  BY HomeFacts DEF CreateFolders, Good
<1> DEFINE one == Raised(Placed(node, n, p, "live"), p, 0)
<1>2. /\ Outcome(node, begun, one, begun, {})
      /\ There(one) = There(node) \cup {n} /\ one[n].state = "live"
      /\ \A k \in Nodes \ {n} : one[k].state = node[k].state
      /\ DepthIn(one, n) = DepthIn(node, p) + 1
  BY <1>1, NewLeaf
<1>3. \/ node' = one
      \/ /\ m # n /\ node[m].state = "none" /\ DepthOf(p) + 2 <= MaxDepth
         /\ node' = Raised(Placed(one, m, n, "live"), n, 0)
  BY DEF CreateFolders, Changed
<1> HIDE DEF one
<1>4. CASE node' = one
  BY <1>1, <1>2, <1>4
<1>5. CASE /\ m # n /\ node[m].state = "none" /\ DepthOf(p) + 2 <= MaxDepth
           /\ node' = Raised(Placed(one, m, n, "live"), n, 0)
  <2>1. /\ Good(one, begun) /\ OpenOK(one, begun) /\ m \in Folders \cup Files
        /\ one[m].state = "none" /\ n \in There(one) /\ n \in Folders \cup {Root}
        /\ DepthIn(one, n) + 1 <= MaxDepth
    <3>1. m \in Nodes \ {n}
      BY <1>5 DEF Nodes
    <3>2. DepthIn(one, n) + 1 <= MaxDepth
      BY <1>1, <1>2, <1>5, TreeAssumption
    <3> QED
      BY <1>2, <1>5, <3>1, <3>2 DEF Outcome
  <2>2. Outcome(one, begun, node', begun, {}) /\ There(node') = There(one) \cup {m}
    BY <1>5, <2>1, NewLeaf
  <2>3. GoneStays(node, node')
    BY <1>2, <2>2 DEF Outcome, GoneStays
  <2>4. NoComeback(node, node')
    BY <1>2, <1>5, <2>2 DEF Outcome, NoComeback
  <2>5. Deletes(node, node', {})
    BY <1>2, <2>2 DEF Outcome, Deletes
  <2> QED
    BY <1>1, <2>2, <2>3, <2>4, <2>5 DEF Outcome
<1> QED
  BY <1>3, <1>4, <1>5

(* copyFile: a published leaf, below the ceiling.                          *)
LEMMA CopyStep ==
    ASSUME Good(node, begun), OpenOK(node, begun), NEW n \in Files, NEW p, CopyFile(n, p)
    PROVE  Outcome(node, begun, node', begun', {})
<1>1. /\ p \in There(node) /\ p \in Folders \cup {Root} /\ DepthIn(node, p) + 1 <= MaxDepth
      /\ node[n].state = "none" /\ n \in Folders \cup Files /\ begun' = begun
      /\ node' = Raised(Placed(node, n, p, "live"), p, 0)
  BY HomeFacts DEF CopyFile, Good, Changed
<1>2. Outcome(node, begun, node', begun, {})
  BY <1>1, NewLeaf
<1> QED
  BY <1>1, <1>2

(* beginUpload: a pending row, which no bound counts yet.                  *)
LEMMA BeginStep ==
    ASSUME Good(node, begun), OpenOK(node, begun), NEW n \in Files, NEW p, BeginUpload(n, p)
    PROVE  Outcome(node, begun, node', begun', {})
<1>1. /\ p \in There(node) /\ p \in Folders \cup {Root} /\ DepthIn(node, p) + 1 <= MaxDepth
      /\ node[n].state = "none" /\ n \in Folders \cup Files /\ begun' = begun \cup {n}
      /\ node' = Placed(node, n, p, "pending")
  BY HomeFacts DEF BeginUpload, Good, Changed
<1>2. /\ Good(node', begun') /\ GoneStays(node, node') /\ There(node') = There(node) \cup {n}
      /\ \A m \in Nodes \ {n} : node'[m] = node[m]
      /\ node'[n].state = "pending"
  <2>1. "pending" \in {"pending", "live"}
    OBVIOUS
  <2>2. Good(node', begun') /\ GoneStays(node, node') /\ PlacedAt(node, node', n, p, "pending")
    BY <1>1, <2>1, PlacedDepth
  <2> QED
    BY <2>2 DEF PlacedAt
<1>3. OpenOK(node', begun')
  <2>1. n \in Nodes /\ begun \subseteq Nodes
    BY DEF Nodes, OpenOK
  <2> QED
    BY <1>1, <1>2, <2>1 DEF OpenOK
<1>4. NoComeback(node, node')
  BY <1>1, <1>2 DEF NoComeback
<1>5. Deletes(node, node', {})
  BY <1>2 DEF Deletes
<1> QED
  BY <1>2, <1>3, <1>4, <1>5 DEF Outcome

(* releaseUpload: a pending node, which is a file and holds nothing. *)
LEMMA ReleaseStep ==
    ASSUME Good(node, begun), OpenOK(node, begun), NEW n \in begun, begun' = begun \ {n},
           ReleaseUpload(n)
    PROVE  Outcome(node, begun, node', begun', {})
<1>1. /\ n \in Files /\ n \in Nodes /\ n \in There(node) /\ n # Root /\ n \notin Folders
      /\ node \in [Nodes -> Row] /\ There(node) \subseteq Nodes
  BY TreeAssumption DEF OpenOK, Nodes, There, Good, TreeOK
<1>2. \A m \in There(node) : node[m].parent \notin {n}
  <2> SUFFICES ASSUME NEW m \in There(node) PROVE node[m].parent # n
    OBVIOUS
  <2>1. CASE m = Root
    <3>1. node[Root].parent \notin Nodes
      <4>1. DOMAIN UpIn(node) = Nodes /\ UpIn(node)[Root] = node[Root].parent
        BY UpFacts DEF Nodes
      <4> QED
        BY <4>1 DEF Good, TreeOK, Shape, Hangs
    <3> QED
      BY <1>1, <2>1, <3>1
  <2>2. CASE m # Root
    BY <1>1, <2>2 DEF Good, TreeOK, Shape
  <2> QED
    BY <2>1, <2>2
<1>3. node' = [m \in Nodes |-> IF m \in {n} THEN [Blank EXCEPT !.state = "dropped"] ELSE node[m]]
  BY <1>1 DEF ReleaseUpload, Changed
<1>4. Good(node', begun \ {n}) /\ GoneStays(node, node') /\ There(node') = There(node) \ {n}
  <2>1. {n} \in SUBSET There(node) /\ Root \notin {n}
    BY <1>1
  <2> QED
    BY <1>2, <1>3, <2>1, DroppedDepth
<1>5. \A m \in Nodes \ {n} : node'[m] = node[m]
  BY <1>3
<1>6. node'[n].state = "dropped"
  BY <1>1, <1>3 DEF Blank
<1>7. OpenOK(node', begun')
  BY <1>1, <1>5, <1>6 DEF OpenOK, Nodes
<1>8. NoComeback(node, node')
  BY <1>1, <1>4, <1>5, <1>6 DEF NoComeback
<1>9. Deletes(node, node', {})
  BY <1>5, <1>6 DEF Deletes
<1> QED
  BY <1>4, <1>7, <1>8, <1>9 DEF Outcome

(* finishCompleting: the row is published and counted above it, or, if its *)
(* folder was purged meanwhile, released.                                  *)
LEMMA PublishStep ==
    ASSUME Good(node, begun), OpenOK(node, begun), NEW n, PublishUpload(n)
    PROVE  Outcome(node, begun, node', begun', {})
<1>1. /\ n \in begun /\ begun' = begun \ {n} /\ n \in Files /\ n \in Nodes /\ n # Root
      /\ node \in [Nodes -> Row] /\ n \in There(node) /\ begun \subseteq Nodes
  BY TreeAssumption DEF PublishUpload, OpenOK, Nodes, Good, TreeOK, There
<1>2. CASE Purged(n)
  BY <1>1, <1>2, ReleaseStep DEF PublishUpload
<1>3. CASE ~Purged(n)
  <2> DEFINE a == [node EXCEPT ![n].state = "live"]
  <2>1. node[n].state = "pending"
    <3>1. n \in Walk(node, n)
      BY <1>1, WalkIsChain
    <3> QED
      BY <1>1, <1>3, <3>1 DEF OpenOK, Purged, PurgedIn
  <2>2. /\ a \in [Nodes -> Row] /\ a[n].state = "live"
        /\ \A m \in Nodes \ {n} : a[m] = node[m]
        /\ \A m \in Nodes : /\ a[m].parent = node[m].parent /\ a[m].height = node[m].height
                            /\ a[m].trashed = node[m].trashed /\ a[m].removed = node[m].removed
    BY <1>1 DEF Row
  <2>3. node' = Raised(a, node[n].parent, 0)
    BY <1>3 DEF PublishUpload, Changed
  <2> HIDE DEF a
  <2>4. There(a) = There(node)
    BY <1>1, <2>2 DEF There
  <2>5. Good(a, begun) /\ GoneStays(node, a)
    <3>1. \A m \in Nodes : node[m].state = "gone" => a[m].state = "gone"
      BY <2>1, <2>2
    <3>2. a[Root].state = "live" /\ ~a[Root].trashed /\ RemovedMarked(a)
      BY <1>1, <2>2 DEF Good, TreeOK, Shape, RemovedMarked, Nodes
    <3>3. \A m \in Nodes : a[m].state \in {"live", "gone"} /\ m \notin begun =>
                              node[m].state \in {"live", "gone"}
      BY <1>1, <2>2
    <3> QED
      BY <2>2, <2>4, <3>1, <3>2, <3>3, RemarkedDepth
  <2>6. Good(a, begun' \cup {n}) /\ n \in There(a) \ {Root} /\ node' = Raised(a, a[n].parent, 0)
    <3>1. begun' \cup {n} = begun
      BY <1>1
    <3> QED
      BY <1>1, <2>2, <2>3, <2>4, <2>5, <3>1
  <2>7. /\ Good(node', begun') /\ GoneStays(a, node') /\ There(node') = There(a)
        /\ \A m \in Nodes : OnlyHeight(a[m], node'[m])
    BY <2>6, RaisedDepth DEF RaisedTo
  <2>8. GoneStays(node, node')
    BY <2>4, <2>5, <2>7 DEF GoneStays
  <2>9. /\ node'[n].state = "live" /\ \A m \in Nodes \ {n} : node'[m].state = node[m].state
    BY <1>1, <2>2, <2>7 DEF OnlyHeight
  <2>10. OpenOK(node', begun')
    BY <1>1, <2>9 DEF OpenOK
  <2>11. NoComeback(node, node')
    BY <2>1, <2>4, <2>7, <2>9 DEF NoComeback
  <2>12. Deletes(node, node', {})
    BY <2>9 DEF Deletes
  <2> QED
    BY <2>7, <2>8, <2>10, <2>11, <2>12 DEF Outcome
<1> QED
  BY <1>2, <1>3

(* An operation that only marks, deletes or ages rows. *)
LEMMA MarksStep ==
    ASSUME Good(node, begun), OpenOK(node, begun), begun' = begun, node' \in [Nodes -> Row], NEW gone,
           \A n \in Nodes : node'[n].parent = node[n].parent /\ node'[n].height = node[n].height,
           \A n \in Nodes : \/ node'[n].state = node[n].state
                            \/ node[n].state \in {"pending", "live"} /\ node'[n].state = "gone"
                               /\ n \in gone,
           node'[Root].state = "live" /\ ~node'[Root].trashed, RemovedMarked(node')
    PROVE  Outcome(node, begun, node', begun', gone)
<1>1. There(node') = There(node)
  BY DEF There
<1>2. \A n \in Nodes : node'[n].state \in {"live", "gone"} /\ n \notin begun =>
                            node[n].state \in {"live", "gone"}
  BY DEF OpenOK
<1>3. \A n \in Nodes : node[n].state = "gone" => node'[n].state = "gone"
  OBVIOUS
<1>4. Good(node', begun) /\ GoneStays(node, node')
  BY <1>1, <1>2, <1>3, RemarkedDepth
<1>5. OpenOK(node', begun')
  <2>1. begun \subseteq Nodes
    BY DEF OpenOK, Nodes
  <2> QED
    BY <2>1 DEF OpenOK
<1>6. NoComeback(node, node')
  BY <1>1 DEF NoComeback
<1>7. Deletes(node, node', gone)
  BY DEF Deletes
<1> QED
  BY <1>4, <1>5, <1>6, <1>7 DEF Outcome

(* u is t with the rows of S marked. *)
IsMarked(t, u, S, b) ==
    \A n \in Nodes : /\ u[n].parent = t[n].parent /\ u[n].height = t[n].height
                     /\ u[n].state = t[n].state /\ u[n].removed = t[n].removed
                     /\ n \in S => u[n].trashed = b
                     /\ n \notin S => u[n] = t[n]

(* What marking leaves of a row. *)
LEMMA MarkedFacts ==
    ASSUME NEW t \in [Nodes -> Row], NEW S, NEW b \in BOOLEAN
    PROVE  Marked(t, S, b) \in [Nodes -> Row] /\ IsMarked(t, Marked(t, S, b), S, b)
BY DEF Marked, Row, IsMarked

(* The nodes a request may trash, restore or delete are not the top        *)
(* folder's, and what a restore takes back was never removed.              *)
LEMMA GoingFacts ==
    ASSUME NEW t, NEW S
    PROVE  /\ Root \notin Going(t, S) /\ Going(t, S) \subseteq S
           /\ \A n \in Returned(t, S) : n \in S /\ MayRestore(t, n)
           /\ Returned(t, S) \subseteq S
BY DEF Going, Outermost, MayTrash, Returned

(* trashNodes only marks, and never the top folder.                        *)
LEMMA TrashStep ==
    ASSUME Good(node, begun), OpenOK(node, begun), NEW S \in Named, TrashNodes(S)
    PROVE  Outcome(node, begun, node', begun', {})
<1> DEFINE going == Going(node, S)
<1>1. /\ node' = Marked(node, going, TRUE) /\ begun' = begun /\ node \in [Nodes -> Row]
      /\ Root \in Nodes /\ Root \notin going
  BY GoingFacts DEF TrashNodes, Changed, Good, TreeOK, Nodes
<1> HIDE DEF going
<1>2. /\ node' \in [Nodes -> Row]
      /\ \A n \in Nodes : /\ node'[n].parent = node[n].parent /\ node'[n].height = node[n].height
                          /\ node'[n].state = node[n].state /\ node'[n].removed = node[n].removed
                          /\ n \in going => node'[n].trashed
                          /\ n \notin going => node'[n] = node[n]
  <2>1. TRUE \in BOOLEAN
    OBVIOUS
  <2>2. node' \in [Nodes -> Row] /\ IsMarked(node, node', going, TRUE)
    BY <1>1, <2>1, MarkedFacts
  <2> QED
    BY <2>2 DEF IsMarked
<1>3. RemovedMarked(node') /\ node'[Root].state = "live" /\ ~node'[Root].trashed
  BY <1>1, <1>2 DEF Good, TreeOK, Shape, RemovedMarked
<1> QED
  BY <1>1, <1>2, <1>3, MarksStep

(* restoreNodes only unmarks, and never a row an operator removed.         *)
LEMMA RestoreStep ==
    ASSUME Good(node, begun), OpenOK(node, begun), NEW S \in Named, RestoreNodes(S)
    PROVE  Outcome(node, begun, node', begun', {})
<1> DEFINE back == Returned(node, S)
<1>1. /\ node' = Marked(node, back, FALSE) /\ begun' = begun /\ node \in [Nodes -> Row]
      /\ Root \in Nodes /\ \A n \in back : ~node[n].removed
  BY GoingFacts DEF RestoreNodes, Changed, Good, TreeOK, Nodes, MayRestore
<1> HIDE DEF back
<1>2. /\ node' \in [Nodes -> Row]
      /\ \A n \in Nodes : /\ node'[n].parent = node[n].parent /\ node'[n].height = node[n].height
                          /\ node'[n].state = node[n].state /\ node'[n].removed = node[n].removed
                          /\ n \in back => ~node'[n].trashed
                          /\ n \notin back => node'[n] = node[n]
  <2>1. FALSE \in BOOLEAN
    OBVIOUS
  <2>2. node' \in [Nodes -> Row] /\ IsMarked(node, node', back, FALSE)
    BY <1>1, <2>1, MarkedFacts
  <2> QED
    BY <2>2 DEF IsMarked
<1>3. RemovedMarked(node') /\ node'[Root].state = "live" /\ ~node'[Root].trashed
  BY <1>1, <1>2 DEF Good, TreeOK, Shape, RemovedMarked
<1> QED
  BY <1>1, <1>2, <1>3, MarksStep

(* removeNode marks the row as removed and as trash at once.               *)
LEMMA RemoveStep ==
    ASSUME Good(node, begun), OpenOK(node, begun), NEW n \in Nodes, RemoveNode(n)
    PROVE  Outcome(node, begun, node', begun', {})
<1>1. /\ node' = [node EXCEPT ![n].trashed = TRUE, ![n].removed = TRUE] /\ begun' = begun
      /\ node \in [Nodes -> Row] /\ n # Root /\ Root \in Nodes
  BY DEF RemoveNode, Changed, Good, TreeOK, Nodes
<1>2. /\ node' \in [Nodes -> Row]
      /\ \A m \in Nodes : /\ node'[m].parent = node[m].parent /\ node'[m].height = node[m].height
                          /\ node'[m].state = node[m].state
                          /\ m # n => node'[m] = node[m]
      /\ node'[n].trashed
  BY <1>1 DEF Row
<1>3. RemovedMarked(node') /\ node'[Root].state = "live" /\ ~node'[Root].trashed
  BY <1>1, <1>2 DEF Good, TreeOK, Shape, RemovedMarked
<1> QED
  BY <1>1, <1>2, <1>3, MarksStep

(* Tombstones age; nothing else changes.                                   *)
LEMMA TimeStep ==
    ASSUME Good(node, begun), OpenOK(node, begun), TimePasses
    PROVE  Outcome(node, begun, node', begun', {})
<1>1. node \in [Nodes -> Row] /\ begun' = begun /\ Root \in Nodes
  BY DEF TimePasses, Good, TreeOK, Nodes
<1>2. PICK aging : node' = [n \in Nodes |-> IF n \in aging THEN [node[n] EXCEPT !.aged = TRUE]
                                                           ELSE node[n]]
  BY DEF TimePasses
<1>3. /\ node' \in [Nodes -> Row]
      /\ \A m \in Nodes : /\ node'[m].parent = node[m].parent /\ node'[m].height = node[m].height
                          /\ node'[m].state = node[m].state
                          /\ node'[m].removed = node[m].removed
                          /\ node'[m].trashed = node[m].trashed
  BY <1>1, <1>2 DEF Row
<1>4. RemovedMarked(node') /\ node'[Root].state = "live" /\ ~node'[Root].trashed
  BY <1>1, <1>3 DEF Good, TreeOK, Shape, RemovedMarked
<1> QED
  BY <1>1, <1>3, <1>4, MarksStep

(* purgeOne, of rows that are there. *)
LEMMA PurgeStep ==
    ASSUME Good(node, begun), OpenOK(node, begun), NEW S, S \subseteq There(node) \ {Root},
           \A n \in S : node[n].state \in {"pending", "live"},
           node' = PurgedTree(S), begun' = begun
    PROVE  Outcome(node, begun, node', begun', S)
<1>1. node \in [Nodes -> Row] /\ Root \in Nodes /\ Root \notin S
  BY DEF Good, TreeOK, Nodes
<1>2. /\ node' \in [Nodes -> Row]
      /\ \A m \in Nodes : /\ node'[m].parent = node[m].parent /\ node'[m].height = node[m].height
                          /\ m \in S => node'[m].state = "gone"
                          /\ m \notin S => node'[m] = node[m]
                          /\ node'[m].removed = node[m].removed
                          /\ node'[m].trashed = node[m].trashed
  BY <1>1 DEF Row, PurgedTree
<1>3. RemovedMarked(node') /\ node'[Root].state = "live" /\ ~node'[Root].trashed
  BY <1>1, <1>2 DEF Good, TreeOK, Shape, RemovedMarked
<1>4. \A n \in Nodes : \/ node'[n].state = node[n].state
                       \/ node[n].state \in {"pending", "live"} /\ node'[n].state = "gone"
                          /\ n \in S
  BY <1>2
<1> QED
  BY <1>1, <1>2, <1>3, <1>4, MarksStep

(* purgeNodes deletes only rows a request may purge.                       *)
LEMMA PurgeNodesStep ==
    ASSUME Good(node, begun), OpenOK(node, begun), NEW S \in Named \cup {{}}, NEW left,
           PurgeNodes(S, left)
    PROVE  Outcome(node, begun, node', begun', {n \in Nodes : MayPurge(n)})
<1> DEFINE going == Outermost(node, {n \in S : MayPurge(n)}) \ left
<1>1. node' = PurgedTree(going) /\ begun' = begun
  BY DEF PurgeNodes, Changed
<1>2. S \subseteq Nodes
  BY DEF Named
<1>3. /\ going \subseteq There(node) \ {Root}
      /\ \A n \in going : node[n].state \in {"pending", "live"}
  BY <1>2 DEF Outermost, MayPurge, There
<1>4. Outcome(node, begun, node', begun', going)
  BY <1>1, <1>3, PurgeStep
<1>5. going \subseteq {n \in Nodes : MayPurge(n)}
  BY <1>2 DEF Outermost
<1> QED
  BY <1>4, <1>5 DEF Outcome, Deletes

(* A job deletes what it listed: for the fan-out whatever the list says,   *)
(* for the others only what may still be purged.                           *)
LEMMA PurgeListedStep ==
    ASSUME Good(node, begun), OpenOK(node, begun), ListsOK, NEW j \in Jobs, NEW n \in Nodes,
           PurgeListed(j, n)
    PROVE  Outcome(node, begun, node', begun', {k \in {n} : j = "fan" \/ MayPurge(k)})
<1>1. n # Root /\ begun' = begun
  BY DEF PurgeListed, ListsOK
<1>2. CASE node' = node
  <2>1. Good(node', begun') /\ OpenOK(node', begun')
    BY <1>1, <1>2
  <2>2. GoneStays(node, node') /\ NoComeback(node, node')
        /\ Deletes(node, node', {k \in {n} : j = "fan" \/ MayPurge(k)})
    BY <1>2 DEF GoneStays, NoComeback, Deletes
  <2> QED
    BY <2>1, <2>2 DEF Outcome
<1>3. CASE /\ node[n].state \in {"pending", "live"} /\ node' = PurgedTree({n})
           /\ j = "fan" \/ MayPurge(n)
  <2>1. Outcome(node, begun, node', begun', {n})
    BY <1>1, <1>3, PurgeStep DEF There
  <2> QED
    BY <1>3, <2>1 DEF Outcome, Deletes
<1> QED
  BY <1>2, <1>3 DEF PurgeListed, MayPurge

(* moveNode: not into its own subtree, and within the ceiling by the moved *)
(* row's bound.                                                            *)
LEMMA MoveStep ==
    ASSUME Good(node, begun), OpenOK(node, begun), NEW x \in Nodes, NEW p, MoveNode(x, p)
    PROVE  Outcome(node, begun, node', begun', {})
<1> DEFINE u == [node EXCEPT ![x].parent = p]
<1>1. /\ p \in There(node) /\ p \in Folders \cup {Root} /\ p \in Nodes
      /\ DepthOf(p) = DepthIn(node, p)
      /\ x # Root /\ x \in There(node) /\ ~PurgedIn(node, x) /\ x \notin Walk(node, p)
      /\ DepthIn(node, p) + 1 + node[x].height <= MaxDepth
      /\ begun' = begun /\ node \in [Nodes -> Row] /\ Root \in Nodes
  BY HomeFacts DEF MoveNode, Good, TreeOK, There, Purged, ChainOf, Nodes
<1>2. /\ u \in [Nodes -> Row] /\ u[x].parent = p
      /\ \A n \in Nodes \ {x} : u[n].parent = node[n].parent
      /\ \A n \in Nodes : u[n].state = node[n].state /\ u[n].height = node[n].height
      /\ \A n \in Nodes : u[n].trashed = node[n].trashed /\ u[n].removed = node[n].removed
  BY <1>1 DEF Row
<1>3. node' = Raised(u, p, node[x].height)
  BY DEF MoveNode, Changed
<1> HIDE DEF u
<1>4. u[Root].state = "live" /\ ~u[Root].trashed /\ RemovedMarked(u)
  BY <1>1, <1>2 DEF Good, TreeOK, Shape, RemovedMarked
<1>5. /\ Good(node', begun) /\ GoneStays(node, node')
      /\ \A n \in Nodes : OnlyHeight(u[n], node'[n])
  BY <1>1, <1>2, <1>3, <1>4, MovedDepth
<1>6. \A n \in Nodes : node'[n].state = node[n].state
  BY <1>2, <1>5 DEF OnlyHeight
<1>7. OpenOK(node', begun')
  <2>1. begun \subseteq Nodes
    BY DEF OpenOK, Nodes
  <2> QED
    BY <1>1, <1>6, <2>1 DEF OpenOK
<1>8. NoComeback(node, node')
  BY <1>6 DEF NoComeback, There
<1>9. Deletes(node, node', {})
  BY <1>6 DEF Deletes
<1> QED
  BY <1>1, <1>5, <1>7, <1>8, <1>9 DEF Outcome

(* restoreNodes to the top folder: unmarked and moved in one transaction.  *)
LEMMA HomeStep ==
    ASSUME Good(node, begun), OpenOK(node, begun), NEW x \in Nodes, RestoreToRoot(x)
    PROVE  Outcome(node, begun, node', begun', {})
<1> DEFINE mid == Marked(node, {x}, FALSE)
<1> DEFINE u == [mid EXCEPT ![x].parent = Root]
<1>0. node \in [Nodes -> Row] /\ Root \in Nodes /\ TreeOK(node) /\ Root \in There(node)
  BY DEF Good, TreeOK, Shape, Nodes, There
<1>1. /\ x # Root /\ x \in There(node) /\ ~PurgedIn(node, x) /\ ~node[x].removed
      /\ begun' = begun /\ 1 + node[x].height <= MaxDepth
      /\ node' = Raised(u, Root, node[x].height)
  BY DEF RestoreToRoot, MayRestore, Changed, There, Good, TreeOK, Shape
<1>2. /\ mid \in [Nodes -> Row]
      /\ \A n \in Nodes : /\ mid[n].parent = node[n].parent /\ mid[n].height = node[n].height
                          /\ mid[n].state = node[n].state /\ mid[n].removed = node[n].removed
                          /\ n # x => mid[n] = node[n]
  <2>1. FALSE \in BOOLEAN
    OBVIOUS
  <2>2. mid \in [Nodes -> Row] /\ IsMarked(node, mid, {x}, FALSE)
    BY <1>0, <2>1, MarkedFacts
  <2> HIDE DEF mid
  <2> QED
    BY <2>2 DEF IsMarked
<1> HIDE DEF mid
<1>3. /\ u \in [Nodes -> Row] /\ u[x].parent = Root
      /\ \A n \in Nodes \ {x} : u[n] = node[n]
      /\ \A n \in Nodes : /\ u[n].state = node[n].state /\ u[n].height = node[n].height
                          /\ u[n].removed = node[n].removed
  BY <1>0, <1>2 DEF Row
<1> HIDE DEF u
<1>4. u[Root].state = "live" /\ ~u[Root].trashed /\ RemovedMarked(u)
  BY <1>0, <1>1, <1>3 DEF TreeOK, Shape, RemovedMarked
<1>5. Walk(node, Root) = {Root} /\ DepthIn(node, Root) = 0
  <2>1. UpIn(node)[Root] \notin DOMAIN UpIn(node) /\ Root \in DOMAIN UpIn(node)
    BY <1>0, UpFacts DEF TreeOK, Shape, Hangs
  <2>2. Walk(node, Root) = {Root}
    BY <1>0, <2>1, WalkIsChain, ChainStep
  <2> QED
    BY <1>0, <2>2, DepthFacts, FS_EmptySet
<1>6. /\ Good(node', begun) /\ GoneStays(node, node')
      /\ \A n \in Nodes : OnlyHeight(u[n], node'[n])
  <2>1. DepthIn(node, Root) + 1 + node[x].height <= MaxDepth
    BY <1>0, <1>1, <1>5 DEF Row
  <2>2. \A n \in Nodes \ {x} : u[n].parent = node[n].parent
    BY <1>3
  <2> QED
    BY <1>0, <1>1, <1>3, <1>4, <1>5, <2>1, <2>2, MovedDepth
<1>7. \A n \in Nodes : node'[n].state = node[n].state
  BY <1>3, <1>6 DEF OnlyHeight
<1>8. OpenOK(node', begun')
  <2>1. begun \subseteq Nodes
    BY DEF OpenOK, Nodes
  <2> QED
    BY <1>1, <1>7, <2>1 DEF OpenOK
<1>9. NoComeback(node, node')
  BY <1>7 DEF NoComeback, There
<1>10. Deletes(node, node', {})
  BY <1>7 DEF Deletes
<1> QED
  BY <1>1, <1>6, <1>8, <1>9, <1>10 DEF Outcome

(* deleteExpiredTombstones drops rows nothing hangs from.                  *)
LEMMA TombstonesStep ==
    ASSUME Good(node, begun), OpenOK(node, begun), DeleteExpiredTombstones
    PROVE  Outcome(node, begun, node', begun', {})
<1> DEFINE old == {n \in Nodes : node[n].state = "gone" /\ node[n].aged /\ Childless(n)}
<1>1. /\ node' = [n \in Nodes |-> IF n \in old THEN [Blank EXCEPT !.state = "dropped"] ELSE node[n]]
      /\ begun' = begun \ old
  BY DEF DeleteExpiredTombstones, Changed
<1>2. /\ old \in SUBSET There(node) /\ Root \notin old
      /\ \A n \in There(node) : node[n].parent \notin old
  BY DEF There, Good, TreeOK, Shape, Childless, Present
<1> HIDE DEF old
<1>3. Good(node', begun') /\ GoneStays(node, node') /\ There(node') = There(node) \ old
  BY <1>1, <1>2, DroppedDepth
<1>4. /\ \A n \in Nodes \ old : node'[n] = node[n]
      /\ \A n \in old : node'[n].state = "dropped"
  <2>1. old \subseteq Nodes
    BY <1>2 DEF There
  <2> QED
    BY <1>1, <2>1 DEF Blank
<1>5. OpenOK(node', begun')
  <2>1. begun \subseteq Nodes
    BY DEF OpenOK, Nodes
  <2> QED
    BY <1>1, <1>4, <2>1 DEF OpenOK
<1>6. NoComeback(node, node')
  BY <1>3, <1>4 DEF NoComeback
<1>7. Deletes(node, node', {})
  BY <1>4 DEF Deletes
<1> QED
  BY <1>3, <1>5, <1>6, <1>7 DEF Outcome

-----------------------------------------------------------------------------
(* The invariant holds. *)

(* Every step but a listing leaves what the operations above leave; a job  *)
(* only takes from its list.                                               *)
LEMMA TreeStep ==
    ASSUME Good(node, begun), OpenOK(node, begun), ListsOK, Next
    PROVE  \/ \E j \in Jobs : List(j)
           \/ /\ \/ listed' = listed
                 \/ \E j \in Jobs, n \in Nodes : listed' = [listed EXCEPT ![j] = @ \ {n}]
              /\ \E gone : /\ Outcome(node, begun, node', begun', gone)
                           /\ \A n \in gone : MayPurge(n) \/ n \in listed["fan"]
<1> DEFINE Kept(gone) == /\ Outcome(node, begun, node', begun', gone)
                         /\ \A n \in gone : MayPurge(n) \/ n \in listed["fan"]
<1>1. ASSUME Outcome(node, begun, node', begun', {}), listed' = listed
      PROVE  listed' = listed /\ \E gone : Kept(gone)
  <2>1. Kept({})
    BY <1>1
  <2> QED
    BY <1>1, <2>1
<1>2. ASSUME NEW p \in Nodes, NEW n \in Folders, NEW m \in Folders, CreateFolders(p, n, m)
      PROVE  Outcome(node, begun, node', begun', {}) /\ listed' = listed
  BY <1>2, CreateStep DEF CreateFolders, Changed
<1>3. ASSUME NEW n \in Files, NEW p \in Nodes, CopyFile(n, p)
      PROVE  Outcome(node, begun, node', begun', {}) /\ listed' = listed
  BY <1>3, CopyStep DEF CopyFile, Changed
<1>4. ASSUME NEW n \in Files, NEW p \in Nodes, BeginUpload(n, p)
      PROVE  Outcome(node, begun, node', begun', {}) /\ listed' = listed
  BY <1>4, BeginStep DEF BeginUpload, Changed
<1>5. ASSUME NEW n \in Files, PublishUpload(n)
      PROVE  Outcome(node, begun, node', begun', {}) /\ listed' = listed
  BY <1>5, PublishStep DEF PublishUpload, ReleaseUpload, Changed
<1>6. ASSUME NEW n \in Files, AbortUpload(n)
      PROVE  Outcome(node, begun, node', begun', {}) /\ listed' = listed
  BY <1>6, ReleaseStep DEF AbortUpload, ReleaseUpload, Changed
<1>7. ASSUME NEW n \in Nodes, NEW p \in Nodes, MoveNode(n, p)
      PROVE  Outcome(node, begun, node', begun', {}) /\ listed' = listed
  BY <1>7, MoveStep DEF MoveNode, Changed
<1>8. ASSUME NEW S \in Named, TrashNodes(S)
      PROVE  Outcome(node, begun, node', begun', {}) /\ listed' = listed
  BY <1>8, TrashStep DEF TrashNodes, Changed
<1>9. ASSUME NEW S \in Named, RestoreNodes(S)
      PROVE  Outcome(node, begun, node', begun', {}) /\ listed' = listed
  BY <1>9, RestoreStep DEF RestoreNodes, Changed
<1>10. ASSUME NEW n \in Nodes, RestoreToRoot(n)
       PROVE  Outcome(node, begun, node', begun', {}) /\ listed' = listed
  BY <1>10, HomeStep DEF RestoreToRoot, Changed
<1>11. ASSUME NEW n \in Nodes, RemoveNode(n)
       PROVE  Outcome(node, begun, node', begun', {}) /\ listed' = listed
  BY <1>11, RemoveStep DEF RemoveNode, Changed
<1>12. ASSUME TimePasses
       PROVE  Outcome(node, begun, node', begun', {}) /\ listed' = listed
  BY <1>12, TimeStep DEF TimePasses
<1>13. ASSUME DeleteExpiredTombstones
       PROVE  Outcome(node, begun, node', begun', {}) /\ listed' = listed
  BY <1>13, TombstonesStep DEF DeleteExpiredTombstones, Changed
<1>14. ASSUME NEW S \in Named \cup {{}}, NEW left, PurgeNodes(S, left)
       PROVE  listed' = listed /\ \E gone : Kept(gone)
  <2>1. Kept({n \in Nodes : MayPurge(n)})
    BY <1>14, PurgeNodesStep
  <2>2. listed' = listed
    BY <1>14 DEF PurgeNodes, Changed
  <2> QED
    BY <2>1, <2>2
<1>15. ASSUME NEW j \in Jobs, NEW n \in Nodes, PurgeListed(j, n)
       PROVE  listed' = [listed EXCEPT ![j] = @ \ {n}] /\ \E gone : Kept(gone)
  <2>1. /\ Outcome(node, begun, node', begun', {k \in {n} : j = "fan" \/ MayPurge(k)})
        /\ n \in listed[j] /\ listed' = [listed EXCEPT ![j] = @ \ {n}]
    BY <1>15, PurgeListedStep DEF PurgeListed
  <2>2. Kept({k \in {n} : j = "fan" \/ MayPurge(k)})
    BY <2>1
  <2> QED
    BY <2>1, <2>2
<1> HIDE DEF Kept
<1>16. \/ \E j \in Jobs : List(j)
       \/ listed' = listed /\ \E gone : Kept(gone)
       \/ \E j \in Jobs, n \in Nodes : /\ listed' = [listed EXCEPT ![j] = @ \ {n}]
                                       /\ \E gone : Kept(gone)
  BY <1>1, <1>2, <1>3, <1>4, <1>5, <1>6, <1>7, <1>8, <1>9, <1>10, <1>11, <1>12, <1>13, <1>14,
     <1>15 DEF Next
<1> QED
  BY <1>16 DEF Kept

(* An empty workspace satisfies the invariant.                             *)
LEMMA InitIInv == Init => IInv
<1> SUFFICES ASSUME Init PROVE IInv
  OBVIOUS
<1>0. Root \in Nodes /\ NoParent \notin Nodes /\ MaxDepth \in Nat \ {0}
  BY TreeAssumption DEF Nodes
<1>1. /\ node \in [Nodes -> Row]
      /\ node[Root].state = "live" /\ ~node[Root].trashed
      /\ \A n \in Nodes : /\ node[n].parent = NoParent /\ ~node[n].removed
                          /\ node[n].height = 0
                          /\ n # Root => node[n].state = "none"
  BY <1>0 DEF Init, Blank, Row
<1>2. There(node) = {Root}
  BY <1>0, <1>1 DEF There
<1>3. /\ DOMAIN UpIn(node) = Nodes /\ \A n \in Nodes : UpIn(node)[n] = NoParent
  BY <1>1, UpFacts
<1>4. Acyclic(UpIn(node))
  BY <1>0, <1>3 DEF Acyclic
<1>5. Hangs(UpIn(node), There(node), Root)
  BY <1>0, <1>2, <1>3, <1>4 DEF Hangs
<1>6. TreeOK(node)
  BY <1>1, <1>2, <1>5 DEF TreeOK, Shape, RemovedMarked
<1>7. Walk(node, Root) = {Root} /\ DepthIn(node, Root) = 0
  <2>1. Walk(node, Root) = {Root}
    BY <1>0, <1>3, WalkIsChain, ChainStep
  <2> QED
    BY <1>0, <1>6, <2>1, DepthFacts, FS_EmptySet
<1>8. HeightsOK(node, begun) /\ FoldersOK(node) /\ CeilingOK(node)
  <2>1. HeightsOK(node, begun)
    BY <1>1, <1>7 DEF HeightsOK
  <2>2. FoldersOK(node)
    BY <1>0, <1>2, <1>7 DEF FoldersOK
  <2>3. CeilingOK(node)
    BY <1>0, <1>1 DEF CeilingOK
  <2> QED
    BY <2>1, <2>2, <2>3
<1>9. OpenOK(node, begun)
  BY <1>1 DEF Init, OpenOK
<1>10. ListsOK /\ FanPurged
  BY DEF Init, ListsOK, FanPurged, Jobs
<1> QED
  BY <1>6, <1>8, <1>9, <1>10 DEF IInv, Good

(* A listing: rows that are there and, for the fan-out, below a tombstone. *)
LEMMA ListingStep ==
    ASSUME IInv, NEW j \in Jobs, List(j)
    PROVE  IInv'
<1>0. UNCHANGED <<node, begun>> /\ listed' = [listed EXCEPT ![j] = Listing(j)]
  BY DEF List
<1>1. Listing(j) \subseteq Nodes \ {Root}
  BY DEF Listing, Jobs, IInv, Good, TreeOK, Shape
<1>2. ListsOK'
  BY <1>0, <1>1 DEF IInv, ListsOK
<1>3. ASSUME NEW n \in Listing("fan") PROVE node[n].state # "none" /\ PurgedIn(node, n)
  <2>1. /\ n \in Nodes \ {Root} /\ n \in There(node) /\ node[n].state \in {"pending", "live"}
        /\ node[node[n].parent].state = "gone"
    BY <1>3 DEF Listing, There
  <2>2. node[n].parent \in Nodes
    BY <2>1 DEF IInv, Good, TreeOK, Shape, Nodes
  <2>3. node[n].parent \in Walk(node, n)
    <3>1. Walk(node, n) = {n} \cup Walk(node, node[n].parent)
      BY <2>1, <2>2, DepthFacts DEF IInv, Good
    <3> QED
      BY <2>2, <3>1, WalkIsChain
  <2> QED
    BY <2>1, <2>3 DEF PurgedIn
<1>4. FanPurged'
  <2> SUFFICES ASSUME NEW n \in listed'["fan"]
               PROVE  node[n].state # "none" /\ (n \in There(node) => PurgedIn(node, n))
    BY <1>0 DEF FanPurged
  <2>1. CASE j = "fan"
    BY <1>0, <1>3, <2>1 DEF IInv, ListsOK
  <2>2. CASE j # "fan"
    <3>1. listed'["fan"] = listed["fan"]
      BY <1>0, <2>2 DEF IInv, ListsOK, Jobs
    <3> QED
      BY <3>1 DEF IInv, FanPurged
  <2> QED
    BY <2>1, <2>2
<1>5. Good(node, begun)' /\ OpenOK(node, begun)'
  BY <1>0 DEF IInv
<1> QED
  BY <1>2, <1>4, <1>5 DEF IInv

(* Every step keeps the invariant.                                         *)
LEMMA StepIInv == IInv /\ [Next]_vars => IInv'
<1> SUFFICES ASSUME IInv, [Next]_vars PROVE IInv'
  OBVIOUS
<1>1. CASE UNCHANGED vars
  BY <1>1 DEF vars, IInv, ListsOK, FanPurged
<1>2. ASSUME NEW j \in Jobs, List(j) PROVE IInv'
  BY <1>2, ListingStep
<1>3. ASSUME NEW gone, Outcome(node, begun, node', begun', gone),
             \/ listed' = listed
             \/ \E j \in Jobs, n \in Nodes : listed' = [listed EXCEPT ![j] = @ \ {n}]
      PROVE  IInv'
  <2>1. listed' \in [Jobs -> SUBSET (Nodes \ {Root})] /\ listed'["fan"] \subseteq listed["fan"]
    BY <1>3 DEF IInv, ListsOK, Jobs
  <2>2. /\ Good(node', begun') /\ OpenOK(node', begun') /\ begun' \subseteq Files
        /\ GoneStays(node, node') /\ NoComeback(node, node')
    BY <1>3 DEF Outcome, OpenOK
  <2>3. FanPurged'
    <3> SUFFICES ASSUME NEW n \in listed'["fan"]
                 PROVE  node'[n].state # "none" /\ (n \in There(node') => PurgedIn(node', n))
      BY DEF FanPurged
    <3>1. /\ n \in Nodes /\ node[n].state # "none"
          /\ n \in There(node) => PurgedIn(node, n)
      BY <2>1 DEF IInv, ListsOK, FanPurged, Jobs
    <3> QED
      BY <2>2, <3>1 DEF NoComeback, GoneStays
  <2> QED
    BY <2>1, <2>2, <2>3 DEF IInv, ListsOK
<1>4. CASE Next
  BY <1>2, <1>3, <1>4, TreeStep DEF IInv
<1> QED
  BY <1>1, <1>4

(* The invariant holds in every reachable state.                           *)
LEMMA Invariance == Spec => []IInv
  BY InitIInv, StepIInv, PTL DEF Spec

-----------------------------------------------------------------------------
(* Theorems. *)

(* What the model's own words say of a tree. *)
LEMMA ModelWords ==
    ASSUME IInv, NEW n \in Nodes
    PROVE  /\ Present(n) <=> n \in There(node)
           /\ ChainOf(n) = Walk(node, n) /\ DepthOf(n) = DepthIn(node, n)
           /\ Purged(n) <=> PurgedIn(node, n)
           /\ n \in There(node) => Root \in ChainOf(n) /\ ChainOf(n) \subseteq There(node)
<1>1. ChainOf(n) = Walk(node, n) /\ DepthOf(n) = DepthIn(node, n)
  BY DepthFacts DEF IInv, Good, ChainOf, DepthOf
<1>2. n \in There(node) => Root \in Chain(UpIn(node), n) /\ Chain(UpIn(node), n) \subseteq There(node)
  BY HangsChain DEF IInv, Good, TreeOK, Shape
<1> QED
  BY <1>1, <1>2, WalkIsChain DEF Present, There, Purged

(* Whatever is created, moved, restored, purged or dropped, in any order:  *)
(* the rows stay a tree, each row's parent there and no folder inside      *)
(* itself, and no bound grows beyond the ceiling.                          *)
THEOREM AlwaysATree == Spec => []WellFormed
<1>1. ASSUME IInv PROVE WellFormed
  <2>1. TypeOK
    <3>1. node \in [Nodes -> Row] /\ \A n \in Nodes : node[n].height <= MaxDepth + 1
      BY <1>1 DEF IInv, Good, TreeOK, CeilingOK
    <3>2. node = [n \in Nodes |-> node[n]]
      BY <3>1
    <3>3. \A n \in Nodes : node[n] \in
              [state : {"none", "pending", "live", "gone", "dropped"},
               parent : Nodes \cup {NoParent}, trashed : BOOLEAN,
               removed : BOOLEAN, aged : BOOLEAN, height : 0..(MaxDepth + 1)]
      <4> SUFFICES ASSUME NEW n \in Nodes
                   PROVE  node[n] \in
              [state : {"none", "pending", "live", "gone", "dropped"},
               parent : Nodes \cup {NoParent}, trashed : BOOLEAN,
               removed : BOOLEAN, aged : BOOLEAN, height : 0..(MaxDepth + 1)]
        OBVIOUS
      <4>1. node[n] \in Row /\ node[n].height <= MaxDepth + 1
        BY <3>1
      <4>2. node[n].height \in 0..(MaxDepth + 1)
        BY <4>1, TreeAssumption DEF Row
      <4> QED
        BY <4>1, <4>2 DEF Row
    <3> QED
      BY <1>1, <3>2, <3>3 DEF TypeOK, IInv, OpenOK, ListsOK
  <2>2. Acyclic(UpIn(node))
    BY <1>1 DEF IInv, Good, TreeOK, Shape, Hangs
  <2>3. ASSUME NEW n \in Nodes, Present(n)
        PROVE  Root \in ChainOf(n) /\ \A m \in ChainOf(n) : Present(m)
    <3>1. Root \in ChainOf(n) /\ ChainOf(n) \subseteq There(node)
      BY <1>1, <2>3, ModelWords
    <3> QED
      BY <3>1 DEF There, Present
  <2> QED
    BY <2>1, <2>2, <2>3 DEF WellFormed, Rooted
<1> QED
  BY Invariance, <1>1, PTL

(* The bound a move decides by never falls below what is really there, and *)
(* no folder is deeper than MAX_DEPTH: a move may trust its row and not    *)
(* read the subtree.                                                       *)
THEOREM NeverTooDeep == Spec => []DepthBounded
<1>1. ASSUME IInv PROVE HeightBounded /\ FoldersWithinDepth
  <2>1. ASSUME NEW n \in Nodes, node[n].state \in {"live", "gone"}, NEW m \in ChainOf(n)
        PROVE  DepthOf(n) - DepthOf(m) <= node[m].height \/ n \in begun
    <3>1. m \in Walk(node, n) /\ m \in Nodes
      BY <1>1, <2>1, ModelWords, WalkIsChain
    <3>2. DepthOf(n) = DepthIn(node, n) /\ DepthOf(m) = DepthIn(node, m)
      BY <1>1, <3>1, ModelWords
    <3> QED
      BY <1>1, <2>1, <3>1, <3>2 DEF IInv, Good, HeightsOK
  <2>2. ASSUME NEW n \in Folders, Present(n) PROVE DepthOf(n) <= MaxDepth
    <3>1. n \in Nodes
      BY DEF Nodes
    <3>2. n \in There(node) /\ DepthOf(n) = DepthIn(node, n)
      BY <1>1, <2>2, <3>1, ModelWords
    <3> QED
      BY <1>1, <3>2 DEF IInv, Good, FoldersOK
  <2> QED
    BY <2>1, <2>2 DEF HeightBounded, FoldersWithinDepth
<1>2. IInv => HeightBounded /\ FoldersWithinDepth
  BY <1>1
<1> QED
  BY Invariance, AlwaysATree, <1>2, PTL DEF DepthBounded

(* What an operator removed stays hidden, whoever restores it or what is   *)
(* around it.                                                              *)
THEOREM RemovedStaysHidden == Spec => []RemovedHidden
<1>1. ASSUME IInv PROVE RemovedHidden
  <2> SUFFICES ASSUME NEW n \in Nodes, node[n].removed PROVE n \notin Visible(node)
    BY DEF RemovedHidden
  <2>1. node[n].trashed /\ n \in Walk(node, n)
    BY <1>1, WalkIsChain DEF IInv, Good, TreeOK, RemovedMarked
  <2> QED
    BY <2>1 DEF Visible
<1> QED
  BY Invariance, <1>1, PTL

(* What is deleted for ever, or lies under something that is, stays so     *)
(* until its row goes: no move, restore or dropped tombstone takes it from *)
(* under the tombstone above it.                                           *)
THEOREM PurgedStaysPurged == Spec => PurgedForGood
<1>1. IInv /\ IInv' /\ [Next]_vars =>
         \A n \in Nodes : Present(n) /\ Purged(n) => Purged(n)' \/ ~Present(n)'
  <2> SUFFICES ASSUME IInv, IInv', [Next]_vars, NEW n \in Nodes, Present(n), Purged(n)
               PROVE  Purged(n)' \/ ~Present(n)'
    OBVIOUS
  <2>1. n \in There(node) /\ PurgedIn(node, n)
    BY ModelWords
  <2>2. GoneStays(node, node') => Purged(n)' \/ ~Present(n)'
    BY <2>1 DEF GoneStays, Purged, Present, There
  <2>3. CASE node' = node
    BY <2>1, <2>3 DEF Purged, PurgedIn, Present, There
  <2>4. CASE Next
    <3>1. CASE \E j \in Jobs : List(j)
      BY <2>3, <3>1 DEF List
    <3>2. CASE \E gone : Outcome(node, begun, node', begun', gone)
      BY <2>2, <3>2 DEF Outcome
    <3> QED
      BY <2>4, <3>1, <3>2, TreeStep DEF IInv
  <2> QED
    BY <2>3, <2>4 DEF vars
<1> QED
  BY Invariance, <1>1, PTL DEF Spec, PurgedForGood

(* A purge, a person's or a job's long after its listing, never takes a    *)
(* node that shows.                                                        *)
THEOREM OnlyHiddenPurged == Spec => NothingShownPurged
<1>1. IInv /\ [Next]_vars => \A n \in Visible(node) : node'[n].state # "gone"
  <2> SUFFICES ASSUME IInv, [Next]_vars, NEW n \in Visible(node), node'[n].state = "gone"
               PROVE  FALSE
    OBVIOUS
  <2>1. /\ n \in Nodes /\ n \in Walk(node, n)
        /\ \A m \in Walk(node, n) : node[m].state = "live" /\ ~node[m].trashed
    BY WalkIsChain DEF Visible
  <2>2. node[n].state = "live" /\ ~node[n].trashed /\ ~PurgedIn(node, n) /\ n \in There(node)
    BY <2>1 DEF PurgedIn, There
  <2>3. CASE node' = node
    BY <2>2, <2>3
  <2>4. CASE Next
    <3>1. CASE \E j \in Jobs : List(j)
      BY <2>3, <3>1 DEF List
    <3>2. ASSUME NEW gone, Outcome(node, begun, node', begun', gone),
                 \A m \in gone : MayPurge(m) \/ m \in listed["fan"]
          PROVE  FALSE
      <4>1. n \in gone
        BY <2>1, <2>2, <3>2 DEF Outcome, Deletes
      <4>2. n \notin listed["fan"]
        BY <2>2 DEF IInv, FanPurged
      <4> QED
        BY <2>2, <3>2, <4>1, <4>2 DEF MayPurge
    <3> QED
      BY <2>4, <3>1, <3>2, TreeStep DEF IInv
  <2> QED
    BY <2>3, <2>4 DEF vars
<1> QED
  BY Invariance, <1>1, PTL DEF Spec, NothingShownPurged

(* What goes in one request is shown, is not inside something else that    *)
(* goes, and was never removed.                                            *)
LEMMA GoesFromTree ==
    ASSUME NEW t, TreeOK(t), NEW S \in SUBSET Nodes, NEW g \in Going(t, S)
    PROVE  /\ g \in Nodes /\ t[g].state = "live" /\ ~PurgedIn(t, g) /\ ~t[g].removed
           /\ \A m \in Walk(t, g) : ~t[m].trashed
           /\ Walk(t, g) \cap Going(t, S) = {g}
<1> DEFINE F == {n \in S : MayTrash(t, n)}
<1>1. g \in F /\ Walk(t, g) \cap F = {g} /\ Going(t, S) \subseteq F /\ g \in Nodes
  BY DEF Going, Outermost
<1>2. t[g].state = "live" /\ ~PurgedIn(t, g) /\ ~TrashedIn(t, g)
  BY <1>1 DEF MayTrash
<1>3. \A m \in Walk(t, g) : ~t[m].trashed
  BY <1>2 DEF TrashedIn
<1>4. ~t[g].removed
  BY <1>1, <1>3, WalkIsChain DEF TreeOK, RemovedMarked
<1>5. Walk(t, g) \cap Going(t, S) = {g}
  BY <1>1
<1> QED
  BY <1>1, <1>2, <1>3, <1>4, <1>5

(* u is t with what is left in the trash of what went. *)
LeftIn(t, u, left) ==
    \A n \in Nodes : /\ Walk(u, n) = Walk(t, n) /\ u[n].state = t[n].state
                     /\ u[n].trashed <=> t[n].trashed \/ n \in left

(* Whatever part of what went is restored, all of it comes back. *)
LEMMA ComesBack ==
    ASSUME NEW t, TreeOK(t), NEW S \in SUBSET Nodes,
           NEW a, a = Marked(t, Going(t, S), TRUE), NEW R \in SUBSET Going(t, S)
    PROVE  LeftIn(t, Marked(a, Returned(a, R), FALSE), Going(t, S) \ R)
<1> DEFINE going == Going(t, S)
<1>1. t \in [Nodes -> Row] /\ TRUE \in BOOLEAN /\ FALSE \in BOOLEAN
  BY DEF TreeOK
<1>2. a \in [Nodes -> Row] /\ IsMarked(t, a, going, TRUE)
  BY <1>1, MarkedFacts
<1>3. \A n \in Nodes : Walk(a, n) = Walk(t, n)
  BY <1>2, SameUp DEF IsMarked
<1>4. ASSUME NEW g \in going PROVE MayRestore(a, g) /\ TrashedAncestors(a, g) = {}
  <2>1. /\ g \in Nodes /\ t[g].state = "live" /\ ~PurgedIn(t, g) /\ ~t[g].removed
        /\ \A m \in Walk(t, g) : ~t[m].trashed
        /\ Walk(t, g) \cap going = {g} /\ Walk(t, g) \subseteq Nodes
    BY GoesFromTree, WalkIsChain
  <2>2. ~PurgedIn(a, g)
    <3>1. \A m \in Nodes : a[m].state = t[m].state
      BY <1>2 DEF IsMarked
    <3>2. Walk(a, g) = Walk(t, g)
      BY <1>3, <2>1
    <3> QED
      BY <2>1, <3>1, <3>2 DEF PurgedIn
  <2>3. a[g].state = "live" /\ a[g].trashed /\ ~a[g].removed
    BY <1>2, <2>1 DEF IsMarked
  <2>4. ASSUME NEW m \in Walk(t, g) \ {g} PROVE ~a[m].trashed
    <3>1. m \in Nodes /\ m \notin going /\ ~t[m].trashed
      BY <2>1
    <3> QED
      BY <1>2, <3>1 DEF IsMarked
  <2> QED
    BY <1>3, <2>1, <2>2, <2>3, <2>4 DEF MayRestore, TrashedAncestors
<1>5. Returned(a, R) = R
  BY <1>4 DEF Returned
<1> DEFINE u == Marked(a, R, FALSE)
<1>6. u \in [Nodes -> Row] /\ IsMarked(a, u, R, FALSE)
  BY <1>1, <1>2, MarkedFacts
<1> HIDE DEF u
<1>7. \A n \in Nodes : Walk(u, n) = Walk(a, n)
  BY <1>6, SameUp DEF IsMarked
<1>8. ASSUME NEW n \in Nodes PROVE u[n].trashed <=> t[n].trashed \/ n \in going \ R
  <2>1. CASE n \in R
    <3>1. ~t[n].trashed
      BY <2>1, GoesFromTree, WalkIsChain
    <3> QED
      BY <1>6, <2>1, <3>1 DEF IsMarked
  <2>2. CASE n \in going \ R
    BY <1>2, <1>6, <2>2 DEF IsMarked
  <2>3. CASE n \notin going
    BY <1>2, <1>6, <2>3 DEF IsMarked
  <2> QED
    BY <2>1, <2>2, <2>3
<1>9. \A n \in Nodes : Walk(u, n) = Walk(t, n) /\ u[n].state = t[n].state
  BY <1>2, <1>3, <1>6, <1>7 DEF IsMarked
<1>10. LeftIn(t, u, going \ R)
  BY <1>8, <1>9 DEF LeftIn
<1> QED
  BY <1>5, <1>10 DEF u

(* Undoing a move to the trash brings back exactly what showed, and        *)
(* restoring one of the folders all that showed in it: what is inside a    *)
(* folder that goes keeps no mark of its own.                              *)
THEOREM UndoIsExact == Spec => []UndoBringsBack
<1>1. ASSUME IInv, NEW S \in Named,
             NEW going, going = Going(node, S), NEW after, after = Marked(node, going, TRUE)
      PROVE  /\ Visible(Marked(after, Returned(after, going), FALSE)) = Visible(node)
             /\ \A r \in going : {n \in Visible(node) : r \in ChainOf(n)}
                    \subseteq Visible(Marked(after, Returned(after, {r}), FALSE))
  <2>0. TreeOK(node) /\ S \in SUBSET Nodes
    BY <1>1 DEF IInv, Good, Named
  <2>1. ASSUME NEW u, LeftIn(node, u, {}) PROVE Visible(u) = Visible(node)
    <3>1. \A n \in Nodes : Walk(u, n) = Walk(node, n) /\ Walk(node, n) \subseteq Nodes
      BY <2>1, WalkIsChain DEF LeftIn
    <3>2. \A m \in Nodes : u[m].state = node[m].state /\ (u[m].trashed <=> node[m].trashed)
      BY <2>1 DEF LeftIn
    <3> QED
      BY <3>1, <3>2 DEF Visible
  <2>2. Visible(Marked(after, Returned(after, going), FALSE)) = Visible(node)
    <3>1. going \in SUBSET Going(node, S) /\ Going(node, S) \ going = {}
      BY <1>1
    <3>2. LeftIn(node, Marked(after, Returned(after, going), FALSE), Going(node, S) \ going)
      BY <1>1, <2>0, <3>1, ComesBack
    <3> QED
      BY <2>1, <3>1, <3>2
  <2>3. ASSUME NEW r \in going, NEW n \in Visible(node), r \in ChainOf(n),
               NEW u, LeftIn(node, u, going \ {r})
        PROVE  n \in Visible(u)
    <3>1. /\ n \in Nodes /\ Walk(u, n) = Walk(node, n) /\ Walk(node, n) \subseteq Nodes
          /\ r \in Walk(node, n)
      BY <2>3, WalkIsChain DEF LeftIn, Visible, ChainOf
    <3>2. ASSUME NEW m \in Walk(node, n) PROVE u[m].state = "live" /\ ~u[m].trashed
      <4>1. m \in Nodes /\ node[m].state = "live" /\ ~node[m].trashed
        BY <3>1 DEF Visible
      <4>2. ASSUME m \in going, m # r PROVE FALSE
        <5>1. /\ Walk(node, r) \cap going = {r} /\ Walk(node, m) \cap going = {m}
              /\ r \in Nodes
          BY <1>1, <2>0, <4>2, GoesFromTree
        <5>2. n \in DOMAIN UpIn(node) /\ r \in Chain(UpIn(node), n) /\ m \in Chain(UpIn(node), n)
          BY <3>1, WalkIsChain, UpFacts
        <5>3. m \in Chain(UpIn(node), r) \/ r \in Chain(UpIn(node), m)
          BY <5>2, ChainLinear
        <5>4. m \in Walk(node, r) \/ r \in Walk(node, m)
          BY <4>1, <5>1, <5>3, WalkIsChain
        <5> QED
          BY <4>2, <5>1, <5>4
      <4> QED
        BY <2>3, <4>1, <4>2 DEF LeftIn
    <3> QED
      BY <3>1, <3>2 DEF Visible
  <2>4. ASSUME NEW r \in going, NEW n \in Visible(node), r \in ChainOf(n)
        PROVE  n \in Visible(Marked(after, Returned(after, {r}), FALSE))
    <3>1. {r} \in SUBSET Going(node, S)
      BY <1>1
    <3>2. LeftIn(node, Marked(after, Returned(after, {r}), FALSE), going \ {r})
      BY <1>1, <2>0, <3>1, ComesBack
    <3> QED
      BY <2>3, <2>4, <3>2
  <2> QED
    BY <2>2, <2>4
<1>2. ASSUME IInv PROVE UndoBringsBack
  <2>1. \A S \in Named :
           /\ Visible(Marked(Marked(node, Going(node, S), TRUE),
                             Returned(Marked(node, Going(node, S), TRUE), Going(node, S)), FALSE))
                = Visible(node)
           /\ \A r \in Going(node, S) : {n \in Visible(node) : r \in ChainOf(n)}
                \subseteq Visible(Marked(Marked(node, Going(node, S), TRUE),
                    Returned(Marked(node, Going(node, S), TRUE), {r}), FALSE))
    BY <1>1, <1>2
  <2> QED
    BY <2>1 DEF UndoBringsBack
<1> QED
  BY Invariance, <1>2, PTL
=============================================================================
