-------------------------- MODULE DriveRotation_proofs --------------------------
(***************************************************************************)
(* Proofs about DriveRotation, for every finite set of nodes, every tree   *)
(* there is at the start, any number of devices, every choice of edits and *)
(* every bound, in a person's workspace and in a group's area.             *)
(***************************************************************************)
EXTENDS DriveRotation, DriveWalks_proofs

-----------------------------------------------------------------------------
(* The inductive invariant, in named parts. *)

There == {n \in Nodes : node[n].state # "none"}

(* Every row that is there hangs from the top folder, in a folder. *)
Shape ==
    /\ Hangs(Up, There, Root)
    /\ node[Root].state = "live"
    /\ \A n \in There \ {Root} : node[n].parent \in Folders

(* A row is blank, a file that is being uploaded, or counted by its change *)
(* sequence; its key is its own.                                           *)
RowsOK ==
    \A n \in Nodes :
        /\ node[n].state = "none" => node[n] = NoRow
        /\ node[n].state = "pending" => /\ n \notin Folders /\ node[n].rev = 0
                                        /\ node[n].prev = NoPrev /\ node[n].key.by = NoWalker
        /\ node[n].state \in {"live", "gone"} => node[n].rev >= 1
        /\ node[n].state # "none" => node[n].key.of = n

(* Epochs are drawn once: what a client may still use, no row carries and  *)
(* no rotation is at.  A key is no newer than its row says, no row is      *)
(* sealed for an epoch its folder has yet to reach, and while a rotation   *)
(* runs what its re-keys put aside is older than its target.               *)
EpochsOK ==
    /\ rotation.target <= epochSeq /\ rotation.target \notin drawn
    /\ Active => rotation.root \in Nodes /\ node[rotation.root].state \in {"live", "gone"}
    /\ \A n \in Nodes :
          /\ node[n].epoch <= epochSeq /\ node[n].epoch \notin drawn
          /\ node[n].key.epoch <= node[n].epoch /\ node[n].key.epoch \notin drawn
          /\ node[n].prev.epoch <= node[n].epoch
          /\ Active /\ node[n].prev # NoPrev => node[n].prev.epoch < rotation.target
    /\ \A n \in There \ {Root} : node[n].under <= node[node[n].parent].epoch

(* A device is at a target some rotation has or had: an older one, or, when*)
(* a roster's rotation replaced one that was later drawn, one no row will  *)
(* ever be at.                                                             *)
WalkersOK ==
    \A w \in Walkers :
       /\ walker[w].target <= epochSeq /\ walker[w].target \notin drawn
       /\ walker[w].pc # "idle" => walker[w].root \in Nodes
       /\ walker[w].pc = "idle" => walker[w] = Idle
       /\ Active /\ (~Group \/ rotation.root # Root) => walker[w].target <= rotation.target
       /\ Active /\ walker[w].target > rotation.target =>
             \A n \in Nodes : node[n].epoch # walker[w].target

(* What w sealed for n is still what it would seal: the parent's key at the*)
(* epoch it names is the one it is wrapped under, and the parent will not  *)
(* come to that epoch with another key.                                    *)
ParentAsSealed(w, i) ==
    LET p == node[node[i.id].parent] IN
    /\ node[i.id].parent \in Nodes
    /\ p.epoch = i.under => p.key = i.wrap
    /\ p.epoch < i.under => \/ p.state = "gone"
                            \/ i.under = walker[w].target /\ rotation.target # i.under

Fits(w, i) ==
    LET n == i.id IN
    /\ i.rotated <=> node[n].epoch < walker[w].target
    /\ i.key = IF i.rotated THEN KeyAt(n, walker[w].target, w) ELSE node[n].key
    /\ n # walker[w].root => i.under = walker[w].target
    /\ n # Root => ParentAsSealed(w, i)
    /\ grant[n].state = "live" => i.saw

(* A batch names rows that live or are deleted, at a change sequence they  *)
(* have reached; where it is still theirs, what was sealed fits.           *)
ItemsOK ==
    \A w \in Walkers : \A i \in walker[w].batch :
       /\ i.rev > 0 => node[i.id].state \in {"live", "gone"} /\ i.rev <= node[i.id].rev
       /\ node[i.id].state = "live" /\ node[i.id].rev = i.rev => Fits(w, i)

(* Grants are of live nodes, at their epoch, and an area has none. *)
GrantsOK ==
    \A n \in Nodes : grant[n].state = "live" =>
        node[n].state = "live" /\ grant[n].epoch = node[n].epoch /\ ~Group

(* n's envelope is wrapped under the key of its parent's that the epoch it *)
(* was sealed for names: the current one, or the one put aside.            *)
Wrapped(n) ==
    LET p == node[node[n].parent] IN
    \/ node[n].wrap = p.key /\ node[n].under = p.epoch
    \/ p.prev # NoPrev /\ node[n].wrap = p.prev.key /\ node[n].under = p.prev.epoch

PrevOpens(n) ==
    node[n].prev # NoPrev => /\ node[n].prev.parent = node[n].parent
                             /\ OpenedBy(node[n].parent, node[n].prev.wrap)

EnvelopeOK(n) ==
    node[node[n].parent].state # "gone" /\ n \notin cut /\ node[n].parent \notin cut =>
        Wrapped(n) /\ PrevOpens(n)

EnvelopesOK == \A n \in Kept \ {Root} : EnvelopeOK(n)

(* What a removed member can open was stored once: a key a device makes    *)
(* later is none of it.                                                    *)
KnownOK ==
    \A n \in Nodes, k \in Key : <<n, k>> \in known =>
        /\ k.epoch <= epochSeq /\ k.epoch \notin drawn
        /\ k.by \in Walkers => node[n].state \in {"live", "gone"} /\ k.epoch <= node[n].epoch

Knows(n) == <<n, node[n].key>> \in known

(* While the area is walked, what is known is what the walk has not        *)
(* reached; otherwise nothing is.                                          *)
LockInv ==
    Group /\ ~early =>
        IF Active /\ rotation.root = Root
        THEN \A n \in Kept : Knows(n) => node[n].epoch < rotation.target
        ELSE \A n \in Kept : ~Purged(n) => ~Knows(n)

IInv == /\ TypeOK /\ Shape /\ RowsOK /\ EpochsOK /\ WalkersOK
        /\ ItemsOK /\ GrantsOK /\ EnvelopesOK /\ KnownOK /\ LockInv

-----------------------------------------------------------------------------
(* Walks. *)

(* The top folder is a node and a folder; what is above it is neither.     *)
LEMMA RootThere == Root \in Nodes /\ Root \in Folders /\ NoNode \notin Nodes /\ IsFiniteSet(Nodes)
                   /\ Folders \subseteq Nodes /\ Nodes \subseteq Nat /\ Root # NoNode
BY NodesAssumption, TreeAssumption DEF NoNode, Root

(* The walk from a node, a row at a time, is the walk. *)
LEMMA ClimbFacts ==
    ASSUME NEW up, DOMAIN up = Nodes, NEW n \in Nodes
    PROVE  Climb(up, n) = Chain(up, n) /\ n \in Climb(up, n) /\ Climb(up, n) \subseteq Nodes
BY RootThere, ClimbIsChain, ChainFacts

(* What a walk down holds: its root, and with a node its kept children. *)
LEMMA SubtreeFacts ==
    ASSUME NEW up, NEW kept \in SUBSET DOMAIN up, NEW r \in DOMAIN up
    PROVE  /\ r \in Subtree(up, kept, r) /\ Subtree(up, kept, r) \subseteq DOMAIN up
           /\ \A m \in kept : up[m] \in Subtree(up, kept, r) => m \in Subtree(up, kept, r)
<1>1. \A S \in FallingFrom(up, kept, r) : r \in S /\ \A m \in kept : up[m] \in S => m \in S
  BY DEF FallingFrom
<1> QED
  BY <1>1 DEF Subtree

(* It holds nothing it need not. *)
LEMMA SubtreeLeast ==
    ASSUME NEW up, NEW kept, NEW r \in DOMAIN up, NEW S \in SUBSET DOMAIN up, r \in S,
           \A m \in kept : up[m] \in S => m \in S
    PROVE  Subtree(up, kept, r) \subseteq S
<1>1. S \in FallingFrom(up, kept, r)
  BY DEF FallingFrom
<1> QED
  BY <1>1 DEF Subtree

(* So the walk up from a node in it comes to its root, and so does the     *)
(* parent's, and every node in it but the root is kept and in a node in it.*)
LEMMA SubtreeAbove ==
    ASSUME NEW up, NEW kept \in SUBSET DOMAIN up, NEW r \in DOMAIN up,
           NEW n \in Subtree(up, kept, r)
    PROVE  /\ r \in Chain(up, n)
           /\ n # r => n \in kept /\ up[n] \in Subtree(up, kept, r)
<1>1. r \in Chain(up, n)
  <2> DEFINE S == {m \in DOMAIN up : r \in Chain(up, m)}
  <2>1. r \in S
    BY ChainFacts
  <2>2. ASSUME NEW m \in kept, up[m] \in S PROVE m \in S
    <3>1. Chain(up, m) = {m} \cup Chain(up, up[m])
      BY <2>2, ChainStep
    <3> QED
      BY <2>2, <3>1
  <2>3. Subtree(up, kept, r) \subseteq S
    <3> HIDE DEF S
    <3>1. S \subseteq DOMAIN up
      BY DEF S
    <3> QED
      BY <2>1, <2>2, <3>1, SubtreeLeast
  <2> QED
    BY <2>3
<1>2. ASSUME n # r PROVE n \in kept /\ up[n] \in Subtree(up, kept, r)
  <2> DEFINE D == Subtree(up, kept, r)
             S == {m \in D : m = r \/ (m \in kept /\ up[m] \in D)}
  <2>1. /\ r \in D /\ D \subseteq DOMAIN up
        /\ \A m \in kept : up[m] \in D => m \in D
    BY SubtreeFacts
  <2>2. r \in S /\ S \subseteq DOMAIN up /\ S \subseteq D
    BY <2>1
  <2>3. \A m \in kept : up[m] \in S => m \in S
    BY <2>1
  <2>4. D \subseteq S
    <3> HIDE DEF S
    <3> QED
      BY <2>2, <2>3, SubtreeLeast
  <2> QED
    BY <1>2, <2>4
<1> QED
  BY <1>1, <1>2

(* A walk down from r comes to whatever is kept with all above it.         *)
LEMMA SubtreeWithin ==
    ASSUME NEW up, NEW kept \in SUBSET DOMAIN up, NEW r \in DOMAIN up, Acyclic(up),
           NEW n \in DOMAIN up, r \in Chain(up, n), Chain(up, n) \subseteq kept
    PROVE  n \in Subtree(up, kept, r)
<1> DEFINE D == Subtree(up, kept, r)
           B == {m \in Chain(up, n) : r \in Chain(up, m) /\ m \notin D}
<1>1. r \in D /\ \A m \in kept : up[m] \in D => m \in D
  BY SubtreeFacts
<1>2. n \in Chain(up, n) /\ Chain(up, n) \subseteq DOMAIN up
      /\ \A m \in Chain(up, n) : up[m] \in DOMAIN up => up[m] \in Chain(up, n)
  BY ChainFacts
<1>3. ASSUME B # {} PROVE FALSE
  <2>1. B \in SUBSET DOMAIN up
    BY <1>2
  <2>2. PICK m \in B : up[m] \notin B
    BY <1>3, <2>1 DEF Acyclic
  <2>3. m # r /\ m \in DOMAIN up /\ m \in Chain(up, n) /\ m \in kept /\ r \in Chain(up, m)
    BY <1>1, <1>2, <2>2
  <2>4. up[m] \in DOMAIN up /\ r \in Chain(up, up[m])
    BY <2>3, ChainStep
  <2>5. up[m] \in D
    BY <1>2, <2>2, <2>3, <2>4
  <2> QED
    BY <1>1, <2>2, <2>3, <2>5
<1> QED
  BY <1>2, <1>3

(* From the top, it is what is kept with everything above it. *)
LEMMA SubtreeOfRoot ==
    ASSUME NEW up, NEW P, NEW r, Hangs(up, P, r), NEW kept \in SUBSET P, r \in kept, NEW n \in kept
    PROVE  n \in Subtree(up, kept, r) <=> Chain(up, n) \subseteq kept
<1>1. /\ r \in DOMAIN up /\ kept \subseteq DOMAIN up /\ up[r] \notin DOMAIN up /\ Acyclic(up)
      /\ n \in P /\ P \subseteq DOMAIN up
  BY DEF Hangs
<1>2. ASSUME n \in Subtree(up, kept, r) PROVE Chain(up, n) \subseteq kept
  <2> DEFINE S == {m \in DOMAIN up : Chain(up, m) \subseteq kept}
  <2>1. r \in S
    BY <1>1, ChainStep
  <2>2. ASSUME NEW m \in kept, up[m] \in S PROVE m \in S
    <3>1. Chain(up, m) = {m} \cup Chain(up, up[m])
      BY <1>1, <2>2, ChainStep
    <3> QED
      BY <1>1, <2>2, <3>1
  <2>3. Subtree(up, kept, r) \subseteq S
    <3>1. S \subseteq DOMAIN up
      OBVIOUS
    <3> HIDE DEF S
    <3> QED
      BY <1>1, <2>1, <2>2, <3>1, SubtreeLeast
  <2> QED
    BY <1>2, <2>3
<1>3. ASSUME Chain(up, n) \subseteq kept PROVE n \in Subtree(up, kept, r)
  <2>1. r \in Chain(up, n)
    BY <1>1, HangsChain
  <2> QED
    BY <1>1, <1>3, <2>1, SubtreeWithin
<1> QED
  BY <1>2, <1>3

-----------------------------------------------------------------------------
(* What the parts say of a node, a field at a time. *)

(* The shapes of a row's fields. *)
LEMMA RowFacts ==
    ASSUME TypeOK, NEW n \in Nodes
    PROVE  /\ node[n] \in Row /\ node[n].state \in {"none", "pending", "live", "gone"}
           /\ node[n].parent \in Nodes \cup {NoNode} /\ node[n].epoch \in Nat
           /\ node[n].under \in Nat /\ node[n].key \in Key /\ node[n].wrap \in Key
           /\ node[n].rev \in Nat /\ node[n].key.epoch \in Nat
           /\ node[n].prev.epoch \in Nat /\ node[n].key.by \in Walkers \cup {NoWalker}
           /\ node[n].prev.key \in Key /\ node[n].prev.wrap \in Key
           /\ epochSeq \in Nat /\ rotation.target \in Nat
           /\ rotation.root \in Nodes \cup {NoNode}
BY DEF TypeOK, Row, Key

(* Every node but the top hangs from a folder that is there, and from none *)
(* of its own.                                                             *)
LEMMA ParentFacts ==
    ASSUME Shape, NEW n \in There \ {Root}
    PROVE  /\ node[n].parent \in Nodes /\ node[n].parent \in There /\ node[n].parent \in Folders
           /\ node[n].parent # n
<1>1. n \in Nodes /\ Up[n] = node[n].parent /\ DOMAIN Up = Nodes
  BY DEF There, Up
<1>2. Up[n] \in There
  BY <1>1 DEF Shape, Hangs
<1>3. There \subseteq Nodes
  BY DEF There
<1>4. Up[n] \notin {n}
  <2>1. \E m \in {n} : Up[m] \notin {n}
    BY <1>1 DEF Shape, Hangs, Acyclic
  <2> QED
    BY <2>1
<1> QED
  BY <1>1, <1>2, <1>3, <1>4 DEF Shape

(* What a walk up says. *)
LEMMA AboveFacts ==
    ASSUME Shape, NEW n \in Nodes
    PROVE  /\ Above(n) = Chain(Up, n) /\ n \in Above(n) /\ Above(n) \subseteq Nodes
           /\ n \in There => Root \in Above(n) /\ Above(n) \subseteq There
<1>1. DOMAIN Up = Nodes
  BY DEF Up
<1> QED
  BY <1>1, ClimbFacts, HangsChain DEF Above, Shape

(* A walk up goes through the parent.                                      *)
LEMMA AboveParent ==
    ASSUME Shape, NEW n \in There \ {Root}
    PROVE  Above(n) = {n} \cup Above(node[n].parent)
<1>1. /\ node[n].parent \in Nodes /\ n \in Nodes /\ DOMAIN Up = Nodes /\ Up[n] = node[n].parent
  BY ParentFacts DEF There, Up
<1>2. Chain(Up, n) = {n} \cup Chain(Up, Up[n])
  BY <1>1, ChainStep
<1> QED
  BY <1>1, <1>2, AboveFacts

(* An active rotation names a node that is there; none names nothing. *)
LEMMA ActiveFacts ==
    ASSUME TypeOK, EpochsOK
    PROVE  /\ Active <=> rotation.root \in Nodes
           /\ ~Active => rotation.root = NoNode /\ rotation.target = 0
<1>1. There \subseteq Nodes
  BY DEF There
<1>2. ~Active => rotation.root = NoNode /\ rotation.target = 0
  BY DEF Active, NoRotation
<1> QED
  BY <1>1, <1>2, RootThere DEF EpochsOK

(* Blank values have their shapes. *)
LEMMA Blanks ==
    /\ NoRow \in Row /\ NoKey \in Key
    /\ NoPrev \in [epoch : Nat, key : Key, wrap : Key, parent : Nodes \cup {NoNode}]
    /\ NoRow.state = "none" /\ NoRow.parent = NoNode /\ NoRow.epoch = 0 /\ NoRow.under = 0
    /\ NoRow.key = NoKey /\ NoRow.prev = NoPrev /\ NoRow.rev = 0
    /\ NoKey.of = NoNode /\ NoKey.epoch = 0 /\ NoPrev.epoch = 0 /\ NoPrev.key = NoKey
BY DEF NoRow, NoKey, NoPrev, Row, Key, FirstKey, KeyAt

(* A key's fields. *)
LEMMA KeyFields ==
    ASSUME NEW n, NEW e, NEW w
    PROVE  /\ KeyAt(n, e, w).of = n /\ KeyAt(n, e, w).epoch = e /\ KeyAt(n, e, w).by = w
           /\ n \in Nodes \cup {NoNode} /\ e \in Nat /\ w \in Walkers \cup {NoWalker} =>
                KeyAt(n, e, w) \in Key
BY DEF KeyAt, Key

(* And those of a key made with its row.                                   *)
LEMMA FirstKeyFields ==
    ASSUME NEW n, NEW e
    PROVE  /\ FirstKey(n, e).of = n /\ FirstKey(n, e).epoch = e /\ FirstKey(n, e).by = NoWalker
           /\ n \in Nodes \cup {NoNode} /\ e \in Nat => FirstKey(n, e) \in Key
BY DEF KeyAt, FirstKey, Key

-----------------------------------------------------------------------------
(* The first tree: each row in one with a lower id. *)
LEMMA InitShape ==
    ASSUME Init
    PROVE  /\ There = DOMAIN Tree /\ Shape
           /\ \A n \in DOMAIN Tree : /\ node[n].state = "live" /\ node[n].parent = Tree[n]
                                     /\ node[n].epoch = n /\ node[n].under = Tree[n]
                                     /\ node[n].key = FirstKey(n, n) /\ node[n].rev = 1
                                     /\ node[n].wrap = FirstKey(Tree[n], Tree[n])
                                     /\ node[n].prev = NoPrev
           /\ \A n \in Nodes \ DOMAIN Tree : node[n] = NoRow
<1>1. /\ \A n \in DOMAIN Tree : /\ n \in Nodes /\ node[n].state = "live" /\ node[n].parent = Tree[n]
                                /\ node[n].epoch = n /\ node[n].under = Tree[n]
                                /\ node[n].key = FirstKey(n, n) /\ node[n].rev = 1
                                /\ node[n].wrap = FirstKey(Tree[n], Tree[n])
                                /\ node[n].prev = NoPrev
      /\ \A n \in Nodes \ DOMAIN Tree : node[n] = NoRow
  BY TreeAssumption DEF Init, NoRow
<1>2. There = DOMAIN Tree
  <2>1. \A n \in DOMAIN Tree : n \in There
    BY <1>1 DEF There
  <2>2. \A n \in Nodes \ DOMAIN Tree : n \notin There
    BY <1>1, Blanks DEF There
  <2>3. There \subseteq Nodes
    BY DEF There
  <2> QED
    BY <2>1, <2>2, <2>3
<1>3. /\ DOMAIN Up = Nodes /\ \A n \in DOMAIN Tree : Up[n] = Tree[n]
      /\ \A n \in Nodes \ DOMAIN Tree : Up[n] = NoNode
  BY <1>1, Blanks, TreeAssumption DEF Up
<1>4. Acyclic(Up)
  <2> SUFFICES ASSUME NEW S \in SUBSET Nodes, S # {} PROVE \E m \in S : Up[m] \notin S
    BY <1>3 DEF Acyclic
  <2>1. S \in SUBSET Nat
    BY RootThere
  <2>2. PICK m \in S : \A k \in S : m <= k
    BY <2>1, LeastNat
  <2>3. CASE m \in DOMAIN Tree \ {Root}
    <3>1. Tree[m] < m /\ Up[m] = Tree[m] /\ m \in Nat
      BY <1>3, <2>1, <2>3, TreeAssumption
    <3>2. Tree[m] \in S => m <= Tree[m] /\ Tree[m] \in Nat
      BY <2>1, <2>2
    <3> QED
      BY <3>1, <3>2
  <2>4. CASE m \notin DOMAIN Tree \ {Root}
    BY <1>3, <2>4, RootThere, TreeAssumption
  <2> QED
    BY <2>3, <2>4
<1>5. Hangs(Up, There, Root)
  BY <1>2, <1>3, <1>4, RootThere, TreeAssumption DEF Hangs
<1>6. Shape
  BY <1>1, <1>2, <1>5, TreeAssumption DEF Shape
<1> QED
  BY <1>1, <1>2, <1>6

(* The first rows have their shapes.                                       *)
LEMMA InitTypes ==
    ASSUME Init
    PROVE  TypeOK
<1>1. ASSUME NEW n \in Nodes PROVE node[n] \in Row
  <2>1. CASE n \notin DOMAIN Tree
    BY <2>1, InitShape, Blanks
  <2>2. CASE n \in DOMAIN Tree
    <3>1. node[n] = [NoRow EXCEPT !.state = "live", !.parent = Tree[n], !.epoch = n,
                             !.under = Tree[n], !.key = FirstKey(n, n),
                             !.wrap = FirstKey(Tree[n], Tree[n]), !.rev = 1]
      BY <2>2 DEF Init
    <3>2. Tree[n] \in Nodes \cup {NoNode} /\ Tree[n] \in Nat /\ n \in Nat
      BY <2>2, RootThere, TreeAssumption DEF NoNode
    <3>3. FirstKey(n, n) \in Key /\ FirstKey(Tree[n], Tree[n]) \in Key
      BY <3>2 DEF FirstKey, KeyAt, Key
    <3>4. NoRow \in Row /\ "live" \in {"none", "pending", "live", "gone"} /\ 1 \in Nat
      BY Blanks
    <3> QED
      BY <3>1, <3>2, <3>3, <3>4 DEF Row
  <2> QED
    BY <2>1, <2>2
<1>2. node \in [Nodes -> Row]
  <2>1. node = [n \in Nodes |-> node[n]]
    BY DEF Init
  <2> QED
    BY <1>1, <2>1
<1>3. epochSeq \in Nat
  BY RootThere, TreeAssumption DEF Init
<1>4. grant \in [Nodes -> [state : {"none", "live", "revoked"}, epoch : Nat]]
  BY DEF Init, NoGrant
<1>5. /\ rotation \in [root : Nodes \cup {NoNode}, target : Nat]
      /\ walker \in [Walkers -> [pc : {"idle", "walking", "closing"}, root : Nodes \cup {NoNode},
                                 target : Nat, batch : SUBSET Item]]
  BY DEF Init, NoRotation, Idle
<1> QED
  BY <1>2, <1>3, <1>4, <1>5 DEF TypeOK, Init

(* The first state has the invariant.                                      *)
LEMMA InitIInv == Init => IInv
<1> SUFFICES ASSUME Init PROVE IInv
  OBVIOUS
<1>1. TypeOK
  BY InitTypes
<1>2. /\ There = DOMAIN Tree /\ Shape
      /\ \A n \in DOMAIN Tree : /\ node[n].state = "live" /\ node[n].parent = Tree[n]
                                /\ node[n].epoch = n /\ node[n].under = Tree[n]
                                /\ node[n].key = FirstKey(n, n) /\ node[n].rev = 1
                                /\ node[n].wrap = FirstKey(Tree[n], Tree[n])
                                /\ node[n].prev = NoPrev
      /\ \A n \in Nodes \ DOMAIN Tree : node[n] = NoRow
  BY InitShape
<1>3. RowsOK
  <2>1. ASSUME NEW n \in DOMAIN Tree
        PROVE  node[n].state = "live" /\ node[n].rev >= 1 /\ node[n].key.of = n
    <3>1. node[n].state = "live" /\ node[n].rev = 1 /\ node[n].key = FirstKey(n, n)
      BY <1>2, <2>1
    <3> QED
      BY <3>1, FirstKeyFields
  <2>2. ASSUME NEW n \in Nodes \ DOMAIN Tree
        PROVE  node[n].state = "none" /\ node[n] = NoRow
    BY <1>2, <2>2, Blanks
  <2> QED
    BY <2>1, <2>2 DEF RowsOK
<1>4. ~Active /\ rotation.target = 0 /\ drawn = {} /\ epochSeq \in Nat
      /\ \A n \in DOMAIN Tree : n \in Nat /\ n <= epochSeq
  BY <1>1, RootThere, TreeAssumption DEF Init, Active, NoRotation, TypeOK
<1>5. EpochsOK
  <2>1. ASSUME NEW n \in Nodes
        PROVE  /\ node[n].epoch <= epochSeq /\ node[n].epoch \notin drawn
               /\ node[n].key.epoch <= node[n].epoch /\ node[n].key.epoch \notin drawn
               /\ node[n].prev.epoch <= node[n].epoch
    <3>1. CASE n \in DOMAIN Tree
      <4>1. node[n].epoch = n /\ node[n].key.epoch = n /\ node[n].prev.epoch = 0
        <5>1. node[n].epoch = n /\ node[n].key = FirstKey(n, n) /\ node[n].prev = NoPrev
          BY <1>2, <3>1
        <5> QED
          BY <5>1, FirstKeyFields, Blanks
      <4> QED
        BY <1>4, <3>1, <4>1
    <3>2. CASE n \notin DOMAIN Tree
      <4>1. node[n].epoch = 0 /\ node[n].key.epoch = 0 /\ node[n].prev.epoch = 0
        BY <1>2, <3>2, Blanks
      <4> QED
        BY <1>4, <4>1
    <3> QED
      BY <3>1, <3>2
  <2>2. ASSUME NEW n \in There \ {Root} PROVE node[n].under <= node[node[n].parent].epoch
    <3>1. node[n].under = Tree[n] /\ node[n].parent = Tree[n] /\ Tree[n] \in DOMAIN Tree
      BY <1>2, TreeAssumption
    <3> QED
      BY <1>2, <1>4, <3>1
  <2> QED
    BY <1>4, <2>1, <2>2 DEF EpochsOK
<1>6. \A w \in Walkers : walker[w] = Idle
  BY DEF Init
<1>7. WalkersOK /\ ItemsOK
  BY <1>4, <1>6 DEF WalkersOK, ItemsOK, Idle
<1>8. GrantsOK
  BY DEF GrantsOK, Init, NoGrant
<1>9. EnvelopesOK
  <2> SUFFICES ASSUME NEW n \in Kept \ {Root} PROVE Wrapped(n) /\ PrevOpens(n)
    BY DEF EnvelopesOK, EnvelopeOK
  <2>1. n \in DOMAIN Tree
    BY <1>2, Blanks DEF Kept
  <2>2. node[n].parent = Tree[n] /\ Tree[n] \in DOMAIN Tree
    BY <1>2, <2>1, TreeAssumption
  <2> QED
    BY <1>2, <2>1, <2>2 DEF Wrapped, PrevOpens
<1>10. KnownOK /\ LockInv
  BY <1>4 DEF KnownOK, LockInv, Knows, Init
<1> QED
  BY <1>1, <1>2, <1>3, <1>5, <1>7, <1>8, <1>9, <1>10 DEF IInv

-----------------------------------------------------------------------------
(* Steps that touch no key: rows are published, marked, deleted or shared. *)

SameKeys(r, s) ==
    /\ s.parent = r.parent /\ s.epoch = r.epoch /\ s.under = r.under
    /\ s.key = r.key /\ s.wrap = r.wrap /\ s.prev = r.prev

(* What may become of a row. *)
QuietTo(r, s) ==
    /\ SameKeys(r, s)
    /\ \/ s = r
       \/ r.state = "live" /\ s.state = "live" /\ s.rev = r.rev + 1
       \/ r.state = "pending" /\ s.state = "live" /\ s.rev = 1
       \/ r.state \in {"pending", "live"} /\ s.state = "gone" /\ s.rev = r.rev + 1

(* What may become of a grant: it stays, it ends, or it is made on a row   *)
(* that counts it.                                                         *)
QuietGrant(n) ==
    grant'[n].state = "live" =>
        \/ grant'[n] = grant[n] /\ node'[n].state = "live"
        \/ /\ node[n].state = "live" /\ node'[n].state = "live" /\ node'[n].rev = node[n].rev + 1
           /\ grant'[n].epoch = node[n].epoch /\ ~Group

(* The shape of what a device sends. *)
LEMMA ItemFacts ==
    ASSUME TypeOK, NEW w \in Walkers, NEW i \in walker[w].batch
    PROVE  /\ i \in Item /\ i.id \in Nodes /\ i.rev \in Nat /\ i.under \in Nat /\ i.key \in Key
           /\ i.wrap \in Key /\ i.rotated \in BOOLEAN /\ walker[w].target \in Nat
           /\ node[i.id].rev \in Nat
<1>1. i \in Item /\ walker[w].target \in Nat
  BY DEF TypeOK
<1>2. i.id \in Nodes
  BY <1>1 DEF Item
<1> QED
  BY <1>1, <1>2, RowFacts DEF Item

(* A batch's item is stale once its row has moved on. *)
LEMMA ItemStale ==
    ASSUME TypeOK, RowsOK, ItemsOK, NEW w \in Walkers, NEW i \in walker[w].batch
    PROVE  /\ node[i.id].state = "live" => i.rev # node[i.id].rev + 1
           /\ node[i.id].state \notin {"live", "gone"} => i.rev = 0
           /\ i.rev > 0 => i.rev <= node[i.id].rev
<1>1. i.id \in Nodes /\ i.rev \in Nat /\ node[i.id].rev \in Nat
  BY ItemFacts
<1>2. i.rev > 0 => node[i.id].state \in {"live", "gone"} /\ i.rev <= node[i.id].rev
  BY DEF ItemsOK
<1> QED
  BY <1>1, <1>2

(* What is not purged afterwards was not, when nothing moves and what is   *)
(* gone stays so.                                                          *)
LEMMA PurgedKept ==
    ASSUME Shape, Up' = Up, \A n \in Nodes : node[n].state = "gone" => node'[n].state = "gone"
    PROVE  \A n \in Nodes : Purged(n) => Purged(n)'
<1>1. \A n \in Nodes : Above(n)' = Above(n) /\ Above(n) \subseteq Nodes
  BY AboveFacts DEF Above
<1> QED
  BY <1>1 DEF Purged

(* A step that touches no key keeps the invariant.                         *)
LEMMA QuietStep ==
    ASSUME IInv, node' \in [Nodes -> Row],
           grant' \in [Nodes -> [state : {"none", "live", "revoked"}, epoch : Nat]],
           \A n \in Nodes : QuietTo(node[n], node'[n]) /\ QuietGrant(n),
           node'[Root].state = "live",
           UNCHANGED <<epochSeq, drawn, rotation, walker, cut, known, early>>
    PROVE  IInv'
<1>1. \A n \in Nodes : SameKeys(node[n], node'[n])
  BY DEF QuietTo
<1>2. \A n \in Nodes : /\ node[n].state = "none" => node'[n] = node[n]
                       /\ node'[n].state = "none" => node'[n] = node[n]
                       /\ node'[n].state = "pending" => node'[n] = node[n]
                       /\ node[n].state = "gone" => node'[n] = node[n]
  BY DEF QuietTo
<1>3. Up' = Up /\ There' = There /\ Kept' \subseteq Kept
  <2>1. \A n \in Nodes : node'[n].parent = node[n].parent
    BY <1>1 DEF SameKeys
  <2>2. Up' = Up
    BY <2>1 DEF Up
  <2>3. There' = There
    BY <1>2 DEF There
  <2>4. Kept' \subseteq Kept
    BY <1>2 DEF QuietTo, Kept
  <2> QED
    BY <2>2, <2>3, <2>4
<1>4. TypeOK'
  BY DEF TypeOK, IInv
<1>5. Shape'
  BY <1>1, <1>3, RootThere DEF Shape, IInv, SameKeys, There
<1>6. RowsOK'
  <2> SUFFICES ASSUME NEW n \in Nodes
               PROVE  /\ node'[n].state = "none" => node'[n] = NoRow
                      /\ node'[n].state = "pending" => /\ n \notin Folders /\ node'[n].rev = 0
                                        /\ node'[n].prev = NoPrev /\ node'[n].key.by = NoWalker
                      /\ node'[n].state \in {"live", "gone"} => node'[n].rev >= 1
                      /\ node'[n].state # "none" => node'[n].key.of = n
    BY DEF RowsOK
  <2>1. QuietTo(node[n], node'[n]) /\ node[n].rev \in Nat /\ node'[n].key = node[n].key
    BY <1>1, RowFacts DEF IInv, SameKeys
  <2>2. node'[n].state \in {"live", "gone"} => node'[n].rev >= 1
    BY <2>1 DEF QuietTo, IInv, RowsOK
  <2>3. node'[n].state # "none" => node[n].state # "none"
    BY <1>2
  <2> QED
    BY <1>2, <2>1, <2>2, <2>3 DEF IInv, RowsOK
<1>7. Active' = Active /\ EpochsOK'
  <2>1. Active' = Active
    BY DEF Active
  <2>2. \A n \in Nodes : /\ node'[n].epoch = node[n].epoch /\ node'[n].key = node[n].key
                         /\ node'[n].prev = node[n].prev /\ node'[n].under = node[n].under
                         /\ node'[n].parent = node[n].parent
    BY <1>1 DEF SameKeys
  <2>3. \A n \in There' \ {Root} : node'[n].under <= node'[node'[n].parent].epoch
    <3>1. \A n \in There \ {Root} : n \in Nodes /\ node[n].parent \in Nodes
                                    /\ node[n].under <= node[node[n].parent].epoch
      BY ParentFacts DEF There, EpochsOK, IInv
    <3> QED
      BY <1>3, <2>2, <3>1
  <2>4. \A n \in Nodes : node[n].state \in {"live", "gone"} => node'[n].state \in {"live", "gone"}
    BY DEF QuietTo
  <2> QED
    BY <1>3, <2>1, <2>2, <2>3, <2>4 DEF EpochsOK, IInv
<1>8. WalkersOK'
  BY <1>1, <1>7 DEF WalkersOK, IInv, SameKeys
<1>9. ItemsOK'
  <2> SUFFICES ASSUME NEW w \in Walkers, NEW i \in walker[w].batch
               PROVE  /\ i.rev > 0 => node'[i.id].state \in {"live", "gone"} /\ i.rev <= node'[i.id].rev
                      /\ node'[i.id].state = "live" /\ node'[i.id].rev = i.rev => Fits(w, i)'
    BY DEF ItemsOK
  <2>1. i.id \in Nodes /\ i.rev \in Nat /\ node[i.id].rev \in Nat
    BY ItemFacts DEF IInv
  <2>2. QuietTo(node[i.id], node'[i.id]) /\ QuietGrant(i.id)
    BY <2>1
  <2>3. /\ i.rev > 0 => node[i.id].state \in {"live", "gone"} /\ i.rev <= node[i.id].rev
        /\ node[i.id].state = "live" /\ node[i.id].rev = i.rev => Fits(w, i)
    BY DEF ItemsOK, IInv
  <2>4. i.rev > 0 => node'[i.id].state \in {"live", "gone"} /\ i.rev <= node'[i.id].rev
    BY <2>1, <2>2, <2>3 DEF QuietTo
  <2>5. ASSUME node'[i.id].state = "live", node'[i.id].rev = i.rev PROVE Fits(w, i)'
    <3>1. node'[i.id] = node[i.id]
      BY <2>1, <2>2, <2>3, <2>5 DEF QuietTo
    <3>2. Fits(w, i)
      BY <2>3, <2>5, <3>1
    <3>3. grant'[i.id].state = "live" => grant'[i.id] = grant[i.id]
      BY <2>1, <2>2, <3>1 DEF QuietGrant
    <3>4. i.id # Root => ParentAsSealed(w, i)'
      <4> SUFFICES ASSUME i.id # Root PROVE ParentAsSealed(w, i)'
        OBVIOUS
      <4>1. ParentAsSealed(w, i) /\ node[i.id].parent \in Nodes
        BY <3>2 DEF Fits, ParentAsSealed
      <4>2. SameKeys(node[node[i.id].parent], node'[node[i.id].parent])
            /\ (node[node[i.id].parent].state = "gone" => node'[node[i.id].parent].state = "gone")
        BY <1>1, <1>2, <4>1
      <4> QED
        BY <3>1, <4>1, <4>2 DEF ParentAsSealed, SameKeys
    <3> QED
      BY <3>1, <3>2, <3>3, <3>4 DEF Fits
  <2> QED
    BY <2>4, <2>5
<1>10. GrantsOK'
  <2> SUFFICES ASSUME NEW n \in Nodes, grant'[n].state = "live"
               PROVE  node'[n].state = "live" /\ grant'[n].epoch = node'[n].epoch /\ ~Group
    BY DEF GrantsOK
  <2> QED
    BY <1>1 DEF GrantsOK, IInv, QuietGrant, SameKeys
<1>11. EnvelopesOK'
  <2> SUFFICES ASSUME NEW n \in Kept' \ {Root}, node'[node'[n].parent].state # "gone",
                      n \notin cut, node'[n].parent \notin cut
               PROVE  Wrapped(n)' /\ PrevOpens(n)'
    BY DEF EnvelopesOK, EnvelopeOK
  <2>1. n \in Kept /\ n \in There /\ n \in Nodes
    BY <1>3 DEF Kept, There
  <2>2. node[n].parent \in Nodes
    BY <2>1, ParentFacts DEF IInv
  <2>3. SameKeys(node[n], node'[n]) /\ SameKeys(node[node[n].parent], node'[node[n].parent])
        /\ node[node[n].parent].state # "gone"
    <3>1. SameKeys(node[n], node'[n]) /\ SameKeys(node[node[n].parent], node'[node[n].parent])
      BY <1>1, <2>1, <2>2
    <3>2. node'[n].parent = node[n].parent
      BY <3>1 DEF SameKeys
    <3> QED
      BY <1>2, <2>2, <3>1, <3>2
  <2>4. Wrapped(n) /\ PrevOpens(n)
    BY <2>1, <2>3 DEF EnvelopesOK, EnvelopeOK, IInv, SameKeys
  <2> QED
    BY <2>3, <2>4 DEF Wrapped, PrevOpens, OpenedBy, SameKeys
<1>12. KnownOK'
  <2>1. \A n \in Nodes : node[n].state \in {"live", "gone"} => node'[n].state \in {"live", "gone"}
    BY DEF QuietTo
  <2> QED
    BY <1>1, <2>1 DEF KnownOK, IInv, SameKeys
<1>13. LockInv'
  <2>1. \A n \in Nodes : Purged(n) => Purged(n)'
    BY <1>2, <1>3, PurgedKept DEF IInv
  <2>2. \A n \in Kept' : n \in Kept /\ n \in Nodes /\ node'[n].key = node[n].key
                         /\ node'[n].epoch = node[n].epoch
    BY <1>1, <1>3 DEF SameKeys, Kept
  <2> QED
    BY <1>7, <2>1, <2>2 DEF LockInv, IInv, Knows
<1> QED
  BY <1>4, <1>5, <1>6, <1>7, <1>8, <1>9, <1>10, <1>11, <1>12, <1>13 DEF IInv

(* Rows no step touches, and the grants where none is made. *)
LEMMA QuietRest ==
    ASSUME TypeOK, GrantsOK, NEW n \in Nodes,
           \A m \in Nodes \ {n} : node'[m] = node[m],
           QuietTo(node[n], node'[n]), QuietGrant(n),
           \A m \in Nodes \ {n} : grant'[m] = grant[m]
    PROVE  \A m \in Nodes : QuietTo(node[m], node'[m]) /\ QuietGrant(m)
<1> SUFFICES ASSUME NEW m \in Nodes \ {n} PROVE QuietTo(node[m], node'[m]) /\ QuietGrant(m)
  OBVIOUS
<1>1. node'[m] = node[m] /\ grant'[m] = grant[m]
  OBVIOUS
<1> QED
  BY <1>1 DEF QuietTo, SameKeys, QuietGrant, GrantsOK

(* finishCompleting: an uploaded file is published.                        *)
LEMMA CompleteStep ==
    ASSUME IInv, NEW n \in Nodes, Complete(n)
    PROVE  IInv'
<1>1. /\ node' = [node EXCEPT ![n].state = "live", ![n].rev = 1] /\ grant' = grant
      /\ node[n].state = "pending" /\ node \in [Nodes -> Row]
      /\ UNCHANGED <<epochSeq, drawn, rotation, walker, cut, known, early>>
  BY DEF Complete, ForWalks, IInv, TypeOK
<1>2. /\ node' \in [Nodes -> Row] /\ \A m \in Nodes \ {n} : node'[m] = node[m]
      /\ node'[n].state = "live" /\ node'[n].rev = 1 /\ SameKeys(node[n], node'[n])
  BY <1>1 DEF Row, SameKeys
<1>3. QuietTo(node[n], node'[n]) /\ QuietGrant(n)
  BY <1>1, <1>2 DEF QuietTo, QuietGrant
<1>4. node'[Root].state = "live"
  BY <1>1, <1>2, RootThere DEF IInv, Shape
<1>5. grant' \in [Nodes -> [state : {"none", "live", "revoked"}, epoch : Nat]]
  BY <1>1 DEF IInv, TypeOK
<1>6. \A m \in Nodes : QuietTo(node[m], node'[m]) /\ QuietGrant(m)
  BY <1>1, <1>2, <1>3, QuietRest DEF IInv
<1> QED
  BY <1>1, <1>2, <1>4, <1>5, <1>6, QuietStep

(* trashNode, and restoreNode in place.                                    *)
LEMMA TrashStep ==
    ASSUME IInv, NEW n \in Nodes, NEW trashed \in BOOLEAN, node[n].state = "live",
           SetTrashed(n, trashed)
    PROVE  IInv'
<1>1. /\ node' = [node EXCEPT ![n].trashed = trashed, ![n].rev = @ + 1] /\ grant' = grant
      /\ node \in [Nodes -> Row]
      /\ UNCHANGED <<epochSeq, drawn, rotation, walker, cut, known, early>>
  BY DEF SetTrashed, ForWalks, IInv, TypeOK
<1>2. /\ node' \in [Nodes -> Row] /\ \A m \in Nodes \ {n} : node'[m] = node[m]
      /\ node'[n].state = "live" /\ node'[n].rev = node[n].rev + 1 /\ SameKeys(node[n], node'[n])
  BY <1>1 DEF Row, SameKeys
<1>3. QuietTo(node[n], node'[n]) /\ QuietGrant(n)
  BY <1>1, <1>2 DEF QuietTo, QuietGrant
<1>4. node'[Root].state = "live"
  BY <1>1, <1>2, RootThere DEF IInv, Shape
<1>5. grant' \in [Nodes -> [state : {"none", "live", "revoked"}, epoch : Nat]]
  BY <1>1 DEF IInv, TypeOK
<1>6. \A m \in Nodes : QuietTo(node[m], node'[m]) /\ QuietGrant(m)
  BY <1>1, <1>2, <1>3, QuietRest DEF IInv
<1> QED
  BY <1>1, <1>2, <1>4, <1>5, <1>6, QuietStep

(* purgeOne: the grant ends with the node.                                 *)
LEMMA PurgeStep ==
    ASSUME IInv, NEW n \in Nodes \ {Root}, node[n].state \in {"pending", "live"}, PurgeOne(n)
    PROVE  IInv'
<1>1. /\ node' = [node EXCEPT ![n].state = "gone", ![n].rev = @ + 1]
      /\ grant' = [grant EXCEPT ![n].state = IF @ = "live" THEN "revoked" ELSE @]
      /\ node \in [Nodes -> Row]
      /\ grant \in [Nodes -> [state : {"none", "live", "revoked"}, epoch : Nat]]
      /\ UNCHANGED <<epochSeq, drawn, rotation, walker, cut, known, early>>
  BY DEF PurgeOne, ForWalks, IInv, TypeOK
<1>2. /\ node' \in [Nodes -> Row] /\ \A m \in Nodes \ {n} : node'[m] = node[m]
      /\ node'[n].state = "gone" /\ node'[n].rev = node[n].rev + 1 /\ SameKeys(node[n], node'[n])
  BY <1>1 DEF Row, SameKeys
<1>3. /\ grant' \in [Nodes -> [state : {"none", "live", "revoked"}, epoch : Nat]]
      /\ \A m \in Nodes \ {n} : grant'[m] = grant[m]
      /\ grant'[n].state # "live"
  BY <1>1
<1>4. QuietTo(node[n], node'[n]) /\ QuietGrant(n)
  BY <1>2, <1>3 DEF QuietTo, QuietGrant
<1>5. node'[Root].state = "live"
  BY <1>2, RootThere DEF IInv, Shape
<1>6. \A m \in Nodes : QuietTo(node[m], node'[m]) /\ QuietGrant(m)
  BY <1>2, <1>3, <1>4, QuietRest DEF IInv
<1> QED
  BY <1>1, <1>2, <1>3, <1>5, <1>6, QuietStep

(* createShare and revokeShare: a grant is made at the node's epoch, or    *)
(* ends.                                                                   *)
LEMMA ShareStep ==
    ASSUME IInv, NEW n \in Nodes, CreateShare(n) \/ RevokeShare(n)
    PROVE  IInv'
<1>0. /\ node \in [Nodes -> Row]
      /\ grant \in [Nodes -> [state : {"none", "live", "revoked"}, epoch : Nat]]
      /\ node[n].epoch \in Nat
  BY RowFacts DEF IInv, TypeOK
<1>1. CASE CreateShare(n)
  <2>1. /\ node' = [node EXCEPT ![n].rev = @ + 1] /\ node[n].state = "live" /\ ~Group
        /\ grant' = [grant EXCEPT ![n] = [state |-> "live", epoch |-> node[n].epoch]]
        /\ UNCHANGED <<epochSeq, drawn, rotation, walker, cut, known, early>>
    BY <1>1 DEF CreateShare, ForWalks
  <2>2. /\ node' \in [Nodes -> Row] /\ \A m \in Nodes \ {n} : node'[m] = node[m]
        /\ node'[n].state = "live" /\ node'[n].rev = node[n].rev + 1 /\ SameKeys(node[n], node'[n])
    BY <1>0, <2>1 DEF Row, SameKeys
  <2>3. /\ grant' \in [Nodes -> [state : {"none", "live", "revoked"}, epoch : Nat]]
        /\ \A m \in Nodes \ {n} : grant'[m] = grant[m]
        /\ grant'[n].epoch = node[n].epoch
    BY <1>0, <2>1
  <2>4. QuietTo(node[n], node'[n]) /\ QuietGrant(n)
    BY <2>1, <2>2, <2>3 DEF QuietTo, QuietGrant
  <2>5. node'[Root].state = "live"
    BY <2>2, RootThere DEF IInv, Shape
  <2>6. \A m \in Nodes : QuietTo(node[m], node'[m]) /\ QuietGrant(m)
    BY <2>2, <2>3, <2>4, QuietRest DEF IInv
  <2> QED
    BY <2>1, <2>2, <2>3, <2>5, <2>6, QuietStep
<1>2. CASE RevokeShare(n)
  <2>1. /\ node' = node /\ grant' = [grant EXCEPT ![n].state = "revoked"]
        /\ UNCHANGED <<epochSeq, drawn, rotation, walker, cut, known, early>>
    BY <1>2 DEF RevokeShare, ForWalks
  <2>2. /\ grant' \in [Nodes -> [state : {"none", "live", "revoked"}, epoch : Nat]]
        /\ \A m \in Nodes \ {n} : grant'[m] = grant[m]
        /\ grant'[n].state # "live"
    BY <1>0, <2>1
  <2>3. QuietTo(node[n], node'[n]) /\ QuietGrant(n)
    BY <2>1, <2>2 DEF QuietTo, QuietGrant, SameKeys
  <2>4. \A m \in Nodes : QuietTo(node[m], node'[m]) /\ QuietGrant(m)
    BY <2>1, <2>2, <2>3, QuietRest DEF IInv
  <2>5. node'[Root].state = "live"
    BY <2>1 DEF IInv, Shape
  <2> QED
    BY <1>0, <2>1, <2>2, <2>4, <2>5, QuietStep
<1> QED
  BY <1>1, <1>2

-----------------------------------------------------------------------------
(* Steps that touch no row: epochs drawn, devices that start, take up a    *)
(* rotation or stop.                                                       *)

(* What the rows alone decide stays as it is.                              *)
LEMMA StillRows ==
    ASSUME IInv, UNCHANGED <<node, grant, cut>>
    PROVE  /\ Shape' /\ RowsOK' /\ GrantsOK' /\ EnvelopesOK'
           /\ There' = There /\ Up' = Up /\ Kept' = Kept
           /\ \A n \in Nodes : Purged(n)' <=> Purged(n)
<1>1. There' = There /\ Up' = Up /\ Kept' = Kept
  BY DEF There, Up, Kept
<1>2. Shape' /\ RowsOK' /\ GrantsOK'
  BY <1>1 DEF IInv, Shape, RowsOK, GrantsOK
<1>3. EnvelopesOK'
  BY <1>1 DEF IInv, EnvelopesOK, EnvelopeOK, Wrapped, PrevOpens, OpenedBy
<1>4. \A n \in Nodes : Purged(n)' <=> Purged(n)
  BY <1>1 DEF Purged, Above
<1> QED
  BY <1>1, <1>2, <1>3, <1>4

(* What was sealed still fits, as long as no rotation comes to its epoch.  *)
LEMMA StillFits ==
    ASSUME NEW w \in Walkers, NEW i, Fits(w, i), UNCHANGED <<node, grant>>,
           walker'[w].target = walker[w].target, walker'[w].root = walker[w].root,
           rotation'.target = rotation.target \/ rotation'.target # walker[w].target
    PROVE  Fits(w, i)'
<1>1. i.id # Root => ParentAsSealed(w, i)'
  BY DEF Fits, ParentAsSealed
<1> QED
  BY <1>1 DEF Fits

(* allocateKeyEpochs: the epoch drawn is one nothing carries.              *)
LEMMA AllocateStep ==
    ASSUME IInv, AllocateKeyEpochs
    PROVE  IInv'
<1>1. /\ epochSeq' = epochSeq + 1 /\ drawn' = drawn \cup {epochSeq + 1} /\ epochSeq \in Nat
      /\ UNCHANGED <<node, grant, rotation, walker, cut, early, known>>
  BY DEF AllocateKeyEpochs, IInv, TypeOK
<1>2. TypeOK'
  BY <1>1 DEF IInv, TypeOK
<1>3. /\ Shape' /\ RowsOK' /\ GrantsOK' /\ EnvelopesOK' /\ There' = There /\ Kept' = Kept
      /\ \A n \in Nodes : Purged(n)' <=> Purged(n)
  BY <1>1, StillRows
<1>4. EpochsOK' /\ Active' = Active
  <2>1. \A n \in Nodes : node[n].epoch \in Nat /\ node[n].key.epoch \in Nat /\ rotation.target \in Nat
    BY RowFacts DEF IInv
  <2>2. rotation.target \in Nat
    BY DEF IInv, TypeOK
  <2> QED
    BY <1>1, <1>3, <2>1, <2>2 DEF IInv, EpochsOK, Active
<1>5. WalkersOK'
  <2>1. \A w \in Walkers : walker[w].target \in Nat
    BY DEF IInv, TypeOK
  <2> QED
    BY <1>1, <1>4, <2>1 DEF IInv, WalkersOK
<1>6. ItemsOK'
  <2>1. \A w \in Walkers : \A i \in walker[w].batch : Fits(w, i) => Fits(w, i)'
    BY <1>1, StillFits
  <2> QED
    BY <1>1, <2>1 DEF IInv, ItemsOK
<1>7. KnownOK'
  <2>1. \A k \in Key : k.epoch \in Nat
    BY DEF Key
  <2> QED
    BY <1>1, <2>1 DEF IInv, KnownOK
<1>8. LockInv'
  BY <1>1, <1>3, <1>4 DEF IInv, LockInv, Knows, Kept
<1> QED
  BY <1>2, <1>3, <1>4, <1>5, <1>6, <1>7, <1>8 DEF IInv

(* A device stops.                                                         *)
LEMMA StopStep ==
    ASSUME IInv, NEW w \in Walkers, Stop(w)
    PROVE  IInv'
<1>1. /\ walker' = [walker EXCEPT ![w] = Idle]
      /\ UNCHANGED <<node, grant, epochSeq, drawn, rotation, cut, early, known>>
  BY DEF Stop
<1>2. /\ walker \in [Walkers -> [pc : {"idle", "walking", "closing"}, root : Nodes \cup {NoNode},
                                 target : Nat, batch : SUBSET Item]]
      /\ Idle \in [pc : {"idle", "walking", "closing"}, root : Nodes \cup {NoNode},
                   target : Nat, batch : SUBSET Item]
      /\ Idle.pc = "idle" /\ Idle.target = 0 /\ Idle.batch = {}
  BY DEF IInv, TypeOK, Idle
<1>3. walker'[w] = Idle /\ \A v \in Walkers \ {w} : walker'[v] = walker[v]
  BY <1>1, <1>2
<1>4. TypeOK'
  BY <1>1, <1>2 DEF IInv, TypeOK
<1>5. /\ Shape' /\ RowsOK' /\ GrantsOK' /\ EnvelopesOK' /\ There' = There /\ Kept' = Kept
      /\ \A n \in Nodes : Purged(n)' <=> Purged(n)
  BY <1>1, StillRows
<1>6. EpochsOK' /\ Active' = Active
  BY <1>1, <1>5 DEF IInv, EpochsOK, Active
<1>7. WalkersOK'
  <2>1. epochSeq \in Nat /\ 0 \notin drawn /\ rotation.target \in Nat
    BY DEF IInv, TypeOK
  <2> QED
    BY <1>1, <1>2, <1>3, <1>6, <2>1 DEF IInv, WalkersOK
<1>8. ItemsOK'
  <2>1. \A v \in Walkers \ {w} : \A i \in walker[v].batch : Fits(v, i) => Fits(v, i)'
    BY <1>1, <1>3, StillFits
  <2> QED
    BY <1>1, <1>2, <1>3, <2>1 DEF IInv, ItemsOK
<1>9. KnownOK' /\ LockInv'
  BY <1>1, <1>5, <1>6 DEF IInv, KnownOK, LockInv, Knows, Kept
<1> QED
  BY <1>4, <1>5, <1>6, <1>7, <1>8, <1>9 DEF IInv

(* A device sets out on a rotation. *)
SetsOut(w, r, t) ==
    walker' = [walker EXCEPT ![w] = [Idle EXCEPT !.pc = "walking", !.root = r, !.target = t]]

(* What it then has in hand.                                               *)
LEMMA SetOut ==
    ASSUME IInv, NEW w \in Walkers, NEW r \in Nodes, NEW t \in Nat, SetsOut(w, r, t)
    PROVE  /\ walker' \in [Walkers -> [pc : {"idle", "walking", "closing"},
                                       root : Nodes \cup {NoNode}, target : Nat, batch : SUBSET Item]]
           /\ walker'[w].pc = "walking" /\ walker'[w].root = r /\ walker'[w].target = t
           /\ walker'[w].batch = {}
           /\ \A v \in Walkers \ {w} : walker'[v] = walker[v]
BY DEF IInv, TypeOK, Idle, SetsOut

(* walkRotation: a device takes the running rotation up.                   *)
LEMMA ResumeStep ==
    ASSUME IInv, NEW w \in Walkers, Resume(w)
    PROVE  IInv'
<1>1. /\ SetsOut(w, rotation.root, rotation.target) /\ Active
      /\ UNCHANGED <<node, grant, epochSeq, drawn, rotation, cut, early, known>>
  BY DEF Resume, SetsOut
<1>2. rotation.root \in Nodes /\ rotation.target \in Nat
  BY <1>1, ActiveFacts DEF IInv, TypeOK
<1>3. /\ walker' \in [Walkers -> [pc : {"idle", "walking", "closing"},
                                       root : Nodes \cup {NoNode}, target : Nat, batch : SUBSET Item]]
      /\ walker'[w].pc = "walking" /\ walker'[w].root = rotation.root
      /\ walker'[w].target = rotation.target /\ walker'[w].batch = {}
      /\ \A v \in Walkers \ {w} : walker'[v] = walker[v]
  BY <1>1, <1>2, SetOut
<1>4. TypeOK'
  BY <1>1, <1>3 DEF IInv, TypeOK
<1>5. /\ Shape' /\ RowsOK' /\ GrantsOK' /\ EnvelopesOK' /\ There' = There /\ Kept' = Kept
      /\ \A n \in Nodes : Purged(n)' <=> Purged(n)
  BY <1>1, StillRows
<1>6. EpochsOK' /\ Active' = Active
  BY <1>1, <1>5 DEF IInv, EpochsOK, Active
<1>7. WalkersOK'
  BY <1>1, <1>2, <1>3, <1>6 DEF IInv, WalkersOK, EpochsOK
<1>8. ItemsOK'
  <2>1. \A v \in Walkers \ {w} : \A i \in walker[v].batch : Fits(v, i) => Fits(v, i)'
    BY <1>1, <1>3, StillFits
  <2> QED
    BY <1>1, <1>3, <2>1 DEF IInv, ItemsOK
<1>9. KnownOK' /\ LockInv'
  BY <1>1, <1>5, <1>6 DEF IInv, KnownOK, LockInv, Knows, Kept
<1> QED
  BY <1>4, <1>5, <1>6, <1>7, <1>8, <1>9 DEF IInv

(* startRotationIn: its target is newer than all there is.                 *)
LEMMA StartStep ==
    ASSUME IInv, NEW w \in Walkers, NEW r \in Nodes, StartRotation(w, r)
    PROVE  IInv'
<1> DEFINE t == epochSeq + 1
<1>1. /\ epochSeq' = t /\ rotation' = [root |-> r, target |-> t]
      /\ SetsOut(w, r, t)
      /\ node[r].state = "live" /\ ~Active /\ (Group => r # Root)
      /\ UNCHANGED <<node, grant, drawn, cut, early, known>>
      /\ epochSeq \in Nat /\ t \in Nat /\ t > epochSeq /\ t \notin drawn /\ r # NoNode
      /\ drawn \subseteq 1..t
  BY RootThere DEF StartRotation, SetsOut, IInv, TypeOK
<1> HIDE DEF t
<1>2. /\ walker' \in [Walkers -> [pc : {"idle", "walking", "closing"},
                                       root : Nodes \cup {NoNode}, target : Nat, batch : SUBSET Item]]
      /\ walker'[w].pc = "walking" /\ walker'[w].root = r
      /\ walker'[w].target = t /\ walker'[w].batch = {}
      /\ \A v \in Walkers \ {w} : walker'[v] = walker[v]
  BY <1>1, SetOut
<1>3. TypeOK'
  BY <1>1, <1>2 DEF IInv, TypeOK
<1>4. /\ Shape' /\ RowsOK' /\ GrantsOK' /\ EnvelopesOK' /\ There' = There /\ Kept' = Kept
      /\ \A n \in Nodes : Purged(n)' <=> Purged(n)
  BY <1>1, StillRows
<1>5. Active' /\ rotation'.root = r /\ rotation'.target = t /\ r \in There
  BY <1>1 DEF Active, NoRotation, There
<1>6. EpochsOK'
  <2>1. ASSUME NEW n \in Nodes
        PROVE  /\ node[n].epoch <= t /\ node[n].epoch \notin drawn
               /\ node[n].key.epoch <= node[n].epoch /\ node[n].key.epoch \notin drawn
               /\ node[n].prev.epoch <= node[n].epoch /\ node[n].prev.epoch < t
    <3>1. node[n].epoch \in Nat /\ node[n].prev.epoch \in Nat
      BY RowFacts DEF IInv
    <3> QED
      BY <1>1, <3>1 DEF IInv, EpochsOK
  <2> QED
    BY <1>1, <1>4, <1>5, <2>1 DEF IInv, EpochsOK
<1>7. \A v \in Walkers : walker[v].target \in Nat /\ walker[v].target < t
  BY <1>1 DEF IInv, TypeOK, WalkersOK
<1>8. WalkersOK'
  BY <1>1, <1>2, <1>5, <1>7 DEF IInv, WalkersOK
<1>9. ItemsOK'
  <2>1. \A v \in Walkers \ {w} : \A i \in walker[v].batch : Fits(v, i) => Fits(v, i)'
    BY <1>1, <1>2, <1>5, <1>7, StillFits
  <2> QED
    BY <1>1, <1>2, <2>1 DEF IInv, ItemsOK
<1>10. KnownOK'
  <2>1. \A k \in Key : k.epoch \in Nat
    BY DEF Key
  <2> QED
    BY <1>1, <2>1 DEF IInv, KnownOK
<1>11. LockInv'
  <2>1. Group => rotation'.root # Root
    BY <1>1, <1>5
  <2> QED
    BY <1>1, <1>4, <2>1 DEF IInv, LockInv, Knows, Kept
<1> QED
  BY <1>3, <1>4, <1>6, <1>8, <1>9, <1>10, <1>11 DEF IInv

-----------------------------------------------------------------------------
(* Steps that change one row, n. *)

Alone(n) == \A m \in Nodes \ {n} : node'[m] = node[m]

(* n as the others' parent: it has no one in it, its key stays, or it is   *)
(* re-keyed at the rotation's target.                                      *)
NoParentOf(n) == \A m \in There : node[m].parent # n
KeyStays(n) ==
    /\ node'[n].key = node[n].key /\ node'[n].epoch = node[n].epoch
    /\ node[n].state = "gone" => node'[n].state = "gone"
Rekeyed(n) ==
    /\ node[n].state = "live" /\ node[n].epoch < rotation.target
    /\ node'[n].epoch = rotation.target

(* What devices sealed for n no longer matches it. *)
Staled(n) ==
    \A w \in Walkers : \A i \in walker[w].batch : i.id = n =>
        /\ i.rev > 0 => node'[n].state \in {"live", "gone"} /\ i.rev <= node'[n].rev
        /\ ~(node'[n].state = "live" /\ node'[n].rev = i.rev)

(* Devices have at most sent some of what they sealed. *)
SameDevices ==
    \A w \in Walkers : /\ walker'[w].batch \subseteq walker[w].batch
                       /\ walker'[w].target = walker[w].target
                       /\ walker'[w].root = walker[w].root

(* What was sealed for the other nodes still fits.                         *)
LEMMA ItemsAround ==
    ASSUME IInv, NEW n \in Nodes, Alone(n), \A m \in Nodes \ {n} : grant'[m] = grant[m],
           rotation' = rotation, SameDevices, Staled(n), TypeOK',
           NoParentOf(n) \/ KeyStays(n) \/ Rekeyed(n)
    PROVE  ItemsOK'
<1> SUFFICES ASSUME NEW w \in Walkers, NEW i \in walker'[w].batch
             PROVE  /\ i.rev > 0 => node'[i.id].state \in {"live", "gone"} /\ i.rev <= node'[i.id].rev
                    /\ node'[i.id].state = "live" /\ node'[i.id].rev = i.rev => Fits(w, i)'
  BY DEF ItemsOK
<1>1. /\ i \in walker[w].batch /\ i.id \in Nodes /\ i.under \in Nat /\ i.rev \in Nat
      /\ walker'[w].target = walker[w].target /\ walker'[w].root = walker[w].root
  BY ItemFacts DEF SameDevices, IInv
<1>2. CASE i.id = n
  BY <1>1, <1>2 DEF Staled
<1>3. CASE i.id # n
  <2>1. node'[i.id] = node[i.id] /\ grant'[i.id] = grant[i.id]
    BY <1>1, <1>3 DEF Alone
  <2>2. /\ i.rev > 0 => node[i.id].state \in {"live", "gone"} /\ i.rev <= node[i.id].rev
        /\ node[i.id].state = "live" /\ node[i.id].rev = i.rev => Fits(w, i)
    BY <1>1 DEF ItemsOK, IInv
  <2>3. ASSUME node[i.id].state = "live", node[i.id].rev = i.rev PROVE Fits(w, i)'
    <3>1. Fits(w, i)
      BY <2>2, <2>3
    <3>2. ASSUME i.id # Root PROVE ParentAsSealed(w, i)'
      <4> DEFINE p == node[i.id].parent
      <4>1. /\ p \in Nodes /\ i.id \in There /\ ParentAsSealed(w, i)
        BY <1>1, <2>3, <3>1, <3>2 DEF Fits, ParentAsSealed, There
      <4>2. /\ node[p].epoch = i.under => node[p].key = i.wrap
            /\ node[p].epoch < i.under =>
                  \/ node[p].state = "gone"
                  \/ i.under = walker[w].target /\ rotation.target # i.under
        BY <4>1 DEF ParentAsSealed
      <4>3. node[p].epoch \in Nat /\ node'[p].epoch \in Nat /\ rotation.target \in Nat
        BY <4>1, RowFacts DEF IInv, TypeOK, Row
      <4>4. /\ node'[p].epoch = i.under => node'[p].key = i.wrap
            /\ node'[p].epoch < i.under =>
                  \/ node'[p].state = "gone"
                  \/ i.under = walker[w].target /\ rotation.target # i.under
        <5>1. CASE p # n
          <6>1. node'[p] = node[p]
            BY <4>1, <5>1 DEF Alone
          <6> QED
            BY <4>2, <6>1
        <5>2. CASE p = n /\ NoParentOf(n)
          BY <4>1, <5>2 DEF NoParentOf
        <5>3. CASE p = n /\ KeyStays(n)
          BY <4>2, <5>3 DEF KeyStays
        <5>4. CASE p = n /\ Rekeyed(n)
          <6>1. /\ node[p].state = "live" /\ node[p].epoch < rotation.target
                /\ node'[p].epoch = rotation.target
            BY <5>4 DEF Rekeyed
          <6> QED
            BY <1>1, <4>2, <4>3, <6>1
        <5> QED
          BY <5>1, <5>2, <5>3, <5>4
      <4> HIDE DEF p
      <4>5. node'[i.id].parent = p
        BY <2>1 DEF p
      <4> QED
        BY <1>1, <4>1, <4>4, <4>5 DEF ParentAsSealed
    <3> QED
      BY <1>1, <2>1, <3>1, <3>2 DEF Fits
  <2> QED
    BY <2>1, <2>2, <2>3
<1> QED
  BY <1>2, <1>3

(* n's key is put aside, with what is wrapped under it. *)
PutAside(n) ==
    /\ node[n].prev = NoPrev /\ node'[n].prev # NoPrev
    /\ node'[n].prev.key = node[n].key /\ node'[n].prev.epoch = node[n].epoch
    /\ node[n].state # "gone"

(* The other nodes' envelopes still open: the one key they need is there,  *)
(* or it was put aside.                                                    *)
LEMMA EnvelopesAround ==
    ASSUME IInv, NEW n \in Nodes, Alone(n), cut \subseteq cut',
           n \in Kept' \ {Root} => EnvelopeOK(n)',
           \/ NoParentOf(n) \/ n \in cut' \/ PutAside(n)
           \/ KeyStays(n) /\ node'[n].prev = node[n].prev
    PROVE  EnvelopesOK'
<1> SUFFICES ASSUME NEW m \in Kept' \ {Root}, m # n, node'[node'[m].parent].state # "gone",
                    m \notin cut', node'[m].parent \notin cut'
             PROVE  Wrapped(m)' /\ PrevOpens(m)'
  BY DEF EnvelopesOK, EnvelopeOK
<1>1. m \in Nodes /\ node'[m] = node[m] /\ m \in Kept /\ m \in There
  BY DEF Alone, Kept, There
<1> DEFINE p == node[m].parent
<1>2. p \in Nodes /\ node'[m].parent = p
  BY <1>1, ParentFacts DEF IInv
<1>3. CASE p # n
  <2>1. node'[p] = node[p]
    BY <1>2, <1>3 DEF Alone
  <2>2. Wrapped(m) /\ PrevOpens(m)
    BY <1>1, <1>2, <2>1 DEF EnvelopesOK, EnvelopeOK, IInv
  <2> QED
    BY <1>1, <2>1, <2>2 DEF Wrapped, PrevOpens, OpenedBy
<1>4. CASE p = n
  <2>1. CASE NoParentOf(n)
    BY <1>1, <1>4, <2>1 DEF NoParentOf
  <2>2. CASE n \in cut'
    BY <1>2, <1>4, <2>2
  <2>3. CASE PutAside(n)
    <3>1. Wrapped(m) /\ PrevOpens(m)
      BY <1>1, <1>2, <1>4, <2>3 DEF EnvelopesOK, EnvelopeOK, IInv, PutAside
    <3>2. Wrapped(m)'
      BY <1>1, <1>4, <2>3, <3>1 DEF Wrapped, PutAside
    <3>3. PrevOpens(m)'
      BY <1>1, <1>4, <2>3, <3>1 DEF PrevOpens, OpenedBy, PutAside
    <3> QED
      BY <3>2, <3>3
  <2>4. CASE KeyStays(n) /\ node'[n].prev = node[n].prev
    <3>1. Wrapped(m) /\ PrevOpens(m)
      BY <1>1, <1>2, <1>4, <2>4 DEF EnvelopesOK, EnvelopeOK, IInv, KeyStays
    <3> QED
      BY <1>1, <1>4, <2>4, <3>1 DEF Wrapped, PrevOpens, OpenedBy, KeyStays
  <2> QED
    BY <2>1, <2>2, <2>3, <2>4
<1> QED
  BY <1>3, <1>4

(* A row with nothing in it is above no other. *)
LEMMA Leaf ==
    ASSUME Shape, NEW n \in Nodes, NoParentOf(n), NEW m \in There \ {n}
    PROVE  n \notin Chain(Up, m)
<1>1. m \in DOMAIN Up /\ m \in There /\ m # n
  BY DEF There, Up
<1> SUFFICES ASSUME n \in Chain(Up, m) PROVE FALSE
  OBVIOUS
<1>2. PICK k \in Chain(Up, m) : Up[k] = n
  BY <1>1, ChainParent
<1>3. k \in There
  BY <1>1, <1>2, HangsChain DEF Shape
<1> QED
  BY <1>2, <1>3 DEF NoParentOf, There, Up

(* A row with no change sequence of its own holds nothing. *)
LEMMA NothingInside ==
    ASSUME TypeOK, Shape, RowsOK, NEW n \in Nodes, node[n].state \in {"none", "pending"}
    PROVE  NoParentOf(n) /\ n # Root
<1>1. n # Root /\ n \notin There \cap Folders
  BY DEF Shape, RowsOK, There
<1> SUFFICES ASSUME NEW m \in There, node[m].parent = n PROVE FALSE
  BY <1>1 DEF NoParentOf
<1>2. CASE m = Root
  <2>1. Up[Root] \notin Nodes
    BY DEF Shape, Hangs, Up
  <2> QED
    BY <1>2, <2>1, RootThere DEF Up
<1>3. CASE m # Root
  BY <1>1, <1>3, ParentFacts
<1> QED
  BY <1>2, <1>3

(* releaseUpload: a file nobody has seen goes.                             *)
LEMMA AbortStep ==
    ASSUME IInv, NEW n \in Nodes, AbortUpload(n)
    PROVE  IInv'
<1>1. /\ node' = [node EXCEPT ![n] = NoRow] /\ node[n].state = "pending" /\ node \in [Nodes -> Row]
      /\ UNCHANGED <<grant, cut, known, epochSeq, drawn, rotation, walker, early>>
  BY DEF AbortUpload, ForWalks, IInv, TypeOK
<1>2. /\ node' \in [Nodes -> Row] /\ node'[n] = NoRow /\ Alone(n)
  BY <1>1, Blanks DEF Alone
<1>3. NoParentOf(n) /\ n # Root
  BY <1>1, NothingInside DEF IInv
<1>4. /\ There' = There \ {n} /\ n \in There /\ Kept' \subseteq Kept \ {n}
      /\ Active' = Active /\ DOMAIN Up = Nodes /\ DOMAIN Up' = Nodes
  <2>1. n \in There
    BY <1>1 DEF There
  <2>2. node'[n].state = "none"
    BY <1>2, Blanks
  <2>3. There' = There \ {n}
    BY <1>2, <2>2 DEF There, Alone
  <2>4. Kept' \subseteq Kept \ {n}
    BY <1>2, <2>2 DEF Kept, Alone
  <2> QED
    BY <1>1, <2>1, <2>3, <2>4 DEF Active, Up
<1>5. TypeOK'
  BY <1>1, <1>2 DEF IInv, TypeOK
<1>6. Hangs(Up', There', Root) /\ \A m \in There \ {n} : Chain(Up', m) = Chain(Up, m)
  <2>1. Up' = [m \in Nodes |-> node'[m].parent] /\ Up = [m \in Nodes |-> node[m].parent]
    BY DEF Up
  <2>2. \A m \in There : m \in Nodes /\ Up[m] # n
    BY <1>3, <2>1 DEF NoParentOf, There
  <2>3. Up'[n] = NoNode /\ \A m \in Nodes \ {n} : Up'[m] = Up[m]
    BY <1>2, <2>1, Blanks DEF Alone
  <2>4. Drops(Up, Up', There, {n})
    BY <1>4, <2>2, <2>3, RootThere DEF Drops
  <2>5. Hangs(Up, There, Root) /\ Root \notin {n}
    BY <1>3 DEF IInv, Shape
  <2>6. /\ Hangs(Up', There \ {n}, Root)
        /\ \A m \in There \ {n} : Chain(Up', m) = Chain(Up, m)
    BY <2>4, <2>5, HangsDropped
  <2> QED
    BY <1>4, <2>6
<1>7. Shape'
  <2>1. node'[Root].state = "live"
    BY <1>2, <1>3, RootThere DEF IInv, Shape, Alone
  <2>2. \A m \in There' \ {Root} : node'[m].parent \in Folders
    BY <1>2, <1>4 DEF IInv, Shape, Alone, There
  <2> QED
    BY <1>6, <2>1, <2>2 DEF Shape
<1>8. RowsOK'
  BY <1>2, Blanks DEF IInv, RowsOK, Alone
<1>9. EpochsOK'
  <2>1. /\ node'[n].epoch = 0 /\ node'[n].key.epoch = 0 /\ node'[n].prev = NoPrev
        /\ node'[n].prev.epoch = 0 /\ 0 <= epochSeq /\ 0 \notin drawn
    BY <1>2, Blanks DEF IInv, TypeOK
  <2>2. Active => node'[rotation.root].state \in {"live", "gone"}
    <3>1. Active => rotation.root \in Nodes /\ node[rotation.root].state \in {"live", "gone"}
      BY ActiveFacts DEF IInv, EpochsOK
    <3> QED
      BY <1>1, <1>2, <3>1 DEF Alone
  <2>3. ASSUME NEW m \in There' \ {Root} PROVE node'[m].under <= node'[node'[m].parent].epoch
    <3>1. m \in There \ {Root} /\ m # n /\ m \in Nodes
      BY <1>4, <2>3 DEF There
    <3>2. node[m].parent \in Nodes \ {n} /\ node[m].under <= node[node[m].parent].epoch
      BY <1>3, <3>1, ParentFacts DEF IInv, EpochsOK, NoParentOf
    <3> QED
      BY <1>2, <3>1, <3>2 DEF Alone
  <2> QED
    BY <1>1, <1>2, <1>4, <2>1, <2>2, <2>3 DEF IInv, EpochsOK, Alone
<1>10. WalkersOK'
  <2>1. node'[n].epoch = 0 /\ 0 \notin drawn
    BY <1>2, Blanks DEF IInv, TypeOK
  <2>2. \A w \in Walkers : Active /\ walker[w].target > rotation.target => walker[w].target # 0
    BY DEF IInv, TypeOK
  <2> QED
    BY <1>1, <1>2, <1>4, <2>1, <2>2 DEF IInv, WalkersOK, Alone
<1>11. ItemsOK'
  <2>1. Staled(n)
    <3>1. node'[n].state = "none"
      BY <1>2, Blanks
    <3>2. \A w \in Walkers : \A i \in walker[w].batch : i.id = n => i.rev = 0
      BY <1>1, ItemStale DEF IInv
    <3> QED
      BY <3>1, <3>2 DEF Staled
  <2>2. SameDevices /\ rotation' = rotation /\ \A m \in Nodes \ {n} : grant'[m] = grant[m]
    BY <1>1 DEF SameDevices
  <2> QED
    BY <1>2, <1>3, <1>5, <2>1, <2>2, ItemsAround
<1>12. GrantsOK'
  BY <1>1, <1>2 DEF IInv, GrantsOK, Alone
<1>13. EnvelopesOK'
  <2>1. n \notin Kept' /\ cut \subseteq cut'
    BY <1>1, <1>4
  <2>2. ~(n \in Kept' \ {Root})
    BY <2>1
  <2> QED
    BY <1>2, <1>3, <2>1, <2>2, EnvelopesAround
<1>14. KnownOK'
  BY <1>1, <1>2 DEF IInv, KnownOK, Alone
<1>15. LockInv'
  <2>1. \A m \in Kept' : m \in Kept /\ m \in Nodes \ {n} /\ m \in There \ {n}
    BY <1>4 DEF Kept, There
  <2>2. \A m \in Kept' : node'[m] = node[m] /\ (Knows(m)' <=> Knows(m))
    BY <1>1, <1>2, <2>1 DEF Alone, Knows
  <2>3. ASSUME NEW m \in Kept', Purged(m) PROVE Purged(m)'
    <3>1. Above(m) = Chain(Up, m) /\ Above(m) \subseteq There
      BY <2>1, AboveFacts DEF IInv
    <3>2. Above(m)' = Chain(Up, m)
      BY <1>4, <1>6, <2>1, ClimbFacts DEF Above
    <3>3. \A g \in There : node[g].state = "gone" => node'[g].state = "gone"
      BY <1>1, <1>2 DEF Alone, There
    <3> QED
      BY <2>3, <3>1, <3>2, <3>3 DEF Purged
  <2> QED
    BY <1>1, <1>4, <2>1, <2>2, <2>3 DEF IInv, LockInv
<1> QED
  BY <1>5, <1>7, <1>8, <1>9, <1>10, <1>11, <1>12, <1>13, <1>14, <1>15 DEF IInv

(* Who may open a folder people may write to: nobody who was removed.      *)
LEMMA LearnsNothing ==
    ASSUME IInv, Group, ~early, NEW d \in Nodes, node[d].state = "live", ~Purged(d),
           ~UnderUnrotatedParent(d)
    PROVE  ~Knows(d)
<1>1. d \in Kept /\ d \in There /\ Root \in Above(d)
  <2>1. d \in There
    BY DEF There
  <2> QED
    BY <2>1, AboveFacts DEF Kept, IInv
<1>2. CASE Active /\ rotation.root = Root
  <2>1. ~(node[d].epoch < rotation.target)
    BY <1>1, <1>2 DEF UnderUnrotatedParent, Inside
  <2> QED
    BY <1>1, <1>2, <2>1 DEF IInv, LockInv
<1>3. CASE ~(Active /\ rotation.root = Root)
  BY <1>1, <1>3 DEF IInv, LockInv
<1> QED
  BY <1>2, <1>3

(* A row is inserted under a folder, wrapped under its current key.        *)
LEMMA InsertStep ==
    ASSUME IInv, NEW p \in Nodes, NEW n \in Nodes, NEW e \in drawn, NEW state \in {"live", "pending"},
           node[n].state \in {"none", "pending"}, state = "pending" => n \notin Folders,
           Insert(p, n, e, state)
    PROVE  IInv'
<1>1. /\ node' = [node EXCEPT ![n] =
          [NoRow EXCEPT !.state = state, !.parent = p, !.epoch = e, !.under = node[p].epoch,
                        !.key = FirstKey(n, e), !.wrap = node[p].key,
                        !.rev = IF state = "live" THEN 1 ELSE 0]]
      /\ drawn' = drawn \ {e} /\ OpenFolder(p) /\ ~UnderUnrotatedParent(p)
      /\ known' = IF Knows(p) THEN known \cup {<<n, FirstKey(n, e)>>} ELSE known
      /\ node \in [Nodes -> Row] /\ epochSeq \in Nat /\ e \in Nat /\ e <= epochSeq /\ e > 0
      /\ UNCHANGED <<grant, epochSeq, rotation, walker, cut, early>>
  BY DEF Insert, Learn, Knows, IInv, TypeOK
<1>2. /\ node[p].epoch \in Nat /\ node[p].key \in Key /\ FirstKey(n, e) \in Key
      /\ FirstKey(n, e).of = n /\ FirstKey(n, e).epoch = e /\ FirstKey(n, e).by = NoWalker
  BY <1>1, RowFacts, FirstKeyFields DEF IInv
<1>3. NoParentOf(n) /\ n # Root
  BY NothingInside DEF IInv
<1>4. /\ p # n /\ p \in There /\ p \in Folders /\ node[p].state = "live" /\ ~Purged(p)
  BY <1>1 DEF OpenFolder, There
<1>5. /\ node' \in [Nodes -> Row] /\ Alone(n)
      /\ node'[n].state = state /\ node'[n].parent = p /\ node'[n].epoch = e
      /\ node'[n].under = node[p].epoch /\ node'[n].key = FirstKey(n, e)
      /\ node'[n].wrap = node[p].key /\ node'[n].prev = NoPrev
      /\ node'[n].rev = IF state = "live" THEN 1 ELSE 0
  <2>1. [NoRow EXCEPT !.state = state, !.parent = p, !.epoch = e, !.under = node[p].epoch,
                      !.key = FirstKey(n, e), !.wrap = node[p].key,
                      !.rev = IF state = "live" THEN 1 ELSE 0] \in Row
    BY <1>1, <1>2, Blanks DEF Row
  <2> QED
    BY <1>1, <2>1, Blanks DEF Alone, Row
<1>6. node'[p] = node[p] /\ node'[Root] = node[Root]
  BY <1>3, <1>4, <1>5, RootThere DEF Alone
<1>7. /\ There' = There \cup {n} /\ Kept' = Kept \cup {n} /\ Active' = Active
      /\ DOMAIN Up = Nodes /\ DOMAIN Up' = Nodes
  <2>1. node'[n].state \in {"live", "pending"}
    BY <1>5
  <2>2. There' = There \cup {n}
    BY <1>5, <2>1 DEF There, Alone
  <2>3. Kept' = Kept \cup {n}
    BY <1>5, <2>1 DEF Kept, Alone
  <2> QED
    BY <1>1, <2>2, <2>3 DEF Active, Up
<1>8. known' \subseteq known \cup {<<n, FirstKey(n, e)>>} /\ known \subseteq known'
      /\ (Group /\ ~early => known' = known)
  <2>1. Group /\ ~early => ~Knows(p)
    BY <1>1, <1>4, LearnsNothing
  <2> QED
    BY <1>1, <2>1
<1>9. TypeOK'
  BY <1>1, <1>2, <1>5, <1>8 DEF IInv, TypeOK
<1>10. /\ Hangs(Up', There', Root)
       /\ \A m \in There \ {n} : Chain(Up', m) = Chain(Up, m)
  <2>1. Moves(Up, Up', n, p)
    BY <1>5 DEF Moves, Up, Alone
  <2>2. Hangs(Up, There, Root)
    BY DEF IInv, Shape
  <2>3. \A m \in There \ {n} : m \in Nodes /\ n \notin Chain(Up, m)
    BY <1>3, Leaf DEF IInv, There
  <2>4. \A m \in There \ {n} : Chain(Up', m) = Chain(Up, m)
    BY <1>7, <2>1, <2>3, ChainUnmoved
  <2>5. CASE n \notin There
    <3>1. Hangs(Up', There \cup {n}, Root)
      BY <1>4, <2>1, <2>2, <2>5, HangsPlaced
    <3> QED
      BY <1>7, <2>4, <3>1
  <2>6. CASE n \in There
    <3>1. n \notin Chain(Up, p)
      BY <1>4, <2>3
    <3>2. Hangs(Up', There, Root)
      BY <1>3, <1>4, <2>1, <2>2, <2>6, <3>1, HangsMoved
    <3>3. There' = There
      BY <1>7, <2>6
    <3> QED
      BY <2>4, <3>2, <3>3
  <2> QED
    BY <2>5, <2>6
<1>11. Shape'
  <2>1. \A m \in There' \ {Root} : node'[m].parent \in Folders
    BY <1>4, <1>5, <1>7 DEF IInv, Shape, Alone, There
  <2> QED
    BY <1>6, <1>10, <2>1 DEF IInv, Shape
<1>12. RowsOK'
  <2>1. node[n].rev \in Nat /\ NoWalker \notin Walkers
    BY RowFacts, RotationAssumption DEF IInv
  <2> QED
    BY <1>2, <1>5, <2>1 DEF IInv, RowsOK, Alone
<1>13. EpochsOK'
  <2>1. Active => rotation.root # n
    BY DEF IInv, EpochsOK
  <2>2. ASSUME NEW m \in There' \ {Root} PROVE node'[m].under <= node'[node'[m].parent].epoch
    <3>1. CASE m = n
      BY <1>2, <1>5, <1>6, <3>1
    <3>2. CASE m # n
      <4>1. m \in There \ {Root} /\ m \in Nodes
        BY <1>7, <2>2, <3>2 DEF There
      <4>2. node[m].parent \in Nodes \ {n} /\ node[m].under <= node[node[m].parent].epoch
        BY <1>3, <4>1, ParentFacts DEF IInv, EpochsOK, NoParentOf
      <4> QED
        BY <1>5, <3>2, <4>1, <4>2 DEF Alone
    <3> QED
      BY <3>1, <3>2
  <2>3. NoPrev.epoch = 0
    BY Blanks
  <2> QED
    BY <1>1, <1>2, <1>5, <1>7, <2>1, <2>2, <2>3 DEF IInv, EpochsOK, Alone
<1>14. WalkersOK'
  <2>1. \A w \in Walkers : walker[w].target # e
    BY DEF IInv, WalkersOK
  <2> QED
    BY <1>1, <1>5, <1>7, <2>1 DEF IInv, WalkersOK, Alone
<1>15. ItemsOK'
  <2>1. Staled(n)
    <3>1. \A w \in Walkers : \A i \in walker[w].batch : i.id = n => i.rev = 0
      BY ItemStale DEF IInv
    <3> QED
      BY <1>5, <3>1 DEF Staled
  <2>2. SameDevices /\ rotation' = rotation /\ \A m \in Nodes \ {n} : grant'[m] = grant[m]
    BY <1>1 DEF SameDevices
  <2> QED
    BY <1>3, <1>5, <1>9, <2>1, <2>2, ItemsAround
<1>16. GrantsOK'
  <2>1. grant[n].state # "live"
    BY DEF IInv, GrantsOK
  <2> QED
    BY <1>1, <1>5, <2>1 DEF IInv, GrantsOK, Alone
<1>17. EnvelopesOK'
  <2>1. EnvelopeOK(n)'
    BY <1>5, <1>6 DEF EnvelopeOK, Wrapped, PrevOpens
  <2>2. cut \subseteq cut'
    BY <1>1
  <2> QED
    BY <1>3, <1>5, <2>1, <2>2, EnvelopesAround
<1>18. KnownOK'
  <2>1. NoWalker \notin Walkers
    BY RotationAssumption
  <2> QED
    BY <1>1, <1>2, <1>5, <1>8, <2>1 DEF IInv, KnownOK, Alone
<1>19. LockInv'
  <2> SUFFICES ASSUME Group, ~early PROVE LockInv'
    BY <1>1 DEF LockInv
  <2>1. known' = known
    BY <1>8
  <2>2. ~Knows(n)'
    <3>1. <<n, FirstKey(n, e)>> \notin known
      BY <1>2 DEF IInv, KnownOK
    <3> QED
      BY <1>5, <2>1, <3>1 DEF Knows
  <2>3. \A m \in Kept' \ {n} : m \in Kept /\ m \in There \ {n} /\ node'[m] = node[m] /\ (Knows(m)' <=> Knows(m))
    BY <1>5, <1>7, <2>1 DEF Kept, There, Alone, Knows
  <2>4. ASSUME NEW m \in Kept' \ {n}, Purged(m) PROVE Purged(m)'
    <3>1. Above(m) = Chain(Up, m) /\ Above(m) \subseteq There /\ m \in Nodes
      BY <2>3, AboveFacts DEF IInv, There
    <3>2. Above(m)' = Chain(Up, m)
      BY <1>7, <1>10, <2>3, <3>1, ClimbFacts DEF Above
    <3>3. \A g \in There : node[g].state = "gone" => node'[g].state = "gone"
      BY <1>5 DEF Alone, There
    <3> QED
      BY <2>4, <3>1, <3>2, <3>3 DEF Purged
  <2> QED
    BY <1>1, <1>7, <2>2, <2>3, <2>4 DEF IInv, LockInv
<1> QED
  BY <1>9, <1>11, <1>12, <1>13, <1>14, <1>15, <1>16, <1>17, <1>18, <1>19 DEF IInv

(* A node is put under another folder, rewrapped under its current key.    *)
LEMMA RehangStep ==
    ASSUME IInv, NEW n \in Nodes \ {Root}, NEW d \in Folders, node[n].state = "live", ~Purged(n),
           node[d].state = "live", ~Purged(d), n \notin Above(d), ~UnderUnrotatedParent(d),
           Rehang(n, d)
    PROVE  IInv'
<1>1. /\ node' = [node EXCEPT ![n].parent = d, ![n].under = node[d].epoch,
                            ![n].wrap = node[d].key, ![n].rev = @ + 1, ![n].trashed = FALSE]
      /\ cut' = IF node[n].prev = NoPrev THEN cut ELSE cut \cup {n}
      /\ known' = IF Knows(d) THEN known \cup {<<n, node[n].key>>} ELSE known
      /\ node \in [Nodes -> Row] /\ d \in Nodes /\ cut \subseteq cut'
      /\ UNCHANGED <<grant, epochSeq, drawn, rotation, walker, early>>
  BY RootThere DEF Rehang, Learn, Knows, ForWalks, IInv, TypeOK
<1>2. /\ node[d].epoch \in Nat /\ node[d].key \in Key /\ node[n].rev \in Nat /\ node[n].key \in Key
      /\ node[n].rev >= 1
  BY <1>1, RowFacts DEF IInv, RowsOK
<1>3. /\ d # n /\ d \in There /\ n \in There /\ Above(d) = Chain(Up, d)
  BY <1>1, AboveFacts DEF There, IInv
<1>4. /\ node' \in [Nodes -> Row] /\ Alone(n)
      /\ node'[n].state = "live" /\ node'[n].parent = d /\ node'[n].epoch = node[n].epoch
      /\ node'[n].under = node[d].epoch /\ node'[n].key = node[n].key
      /\ node'[n].wrap = node[d].key /\ node'[n].prev = node[n].prev
      /\ node'[n].rev = node[n].rev + 1
  BY <1>1, <1>2 DEF Alone, Row
<1>5. node'[d] = node[d] /\ node'[Root] = node[Root]
  BY <1>1, <1>3, <1>4, RootThere DEF Alone
<1>6. /\ There' = There /\ Kept' = Kept /\ Active' = Active
      /\ DOMAIN Up = Nodes /\ DOMAIN Up' = Nodes /\ n \in Kept
  <2>1. There' = There
    BY <1>4 DEF There, Alone
  <2>2. Kept' = Kept /\ n \in Kept
    BY <1>4 DEF Kept, Alone
  <2> QED
    BY <1>1, <2>1, <2>2 DEF Active, Up
<1>7. /\ \A m \in Nodes : /\ node'[m].key = node[m].key /\ node'[m].epoch = node[m].epoch
                          /\ node'[m].state = node[m].state /\ node'[m].prev = node[m].prev
      /\ \A m \in Nodes \ {n} : node'[m] = node[m]
  BY <1>4 DEF Alone
<1>8. /\ known' \subseteq known \cup {<<n, node[n].key>>} /\ known \subseteq known'
      /\ (Group /\ ~early => known' = known)
  <2>1. Group /\ ~early => ~Knows(d)
    BY <1>1, LearnsNothing
  <2> QED
    BY <1>1, <2>1
<1>9. TypeOK'
  BY <1>1, <1>2, <1>4, <1>8 DEF IInv, TypeOK
<1>10. Moves(Up, Up', n, d)
  BY <1>4 DEF Moves, Up, Alone
<1>11. Shape'
  <2>1. Hangs(Up', There, Root)
    BY <1>3, <1>10, HangsMoved DEF IInv, Shape
  <2>2. \A m \in There' \ {Root} : node'[m].parent \in Folders
    BY <1>4, <1>6 DEF IInv, Shape, Alone, There
  <2> QED
    BY <1>5, <1>6, <2>1, <2>2 DEF IInv, Shape
<1>12. RowsOK'
  BY <1>2, <1>4, <1>7 DEF IInv, RowsOK
<1>13. EpochsOK'
  <2>1. ASSUME NEW m \in There' \ {Root} PROVE node'[m].under <= node'[node'[m].parent].epoch
    <3>1. CASE m = n
      BY <1>2, <1>4, <1>5, <3>1
    <3>2. CASE m # n
      <4>1. m \in There \ {Root} /\ m \in Nodes
        BY <1>6, <2>1, <3>2 DEF There
      <4>2. node[m].parent \in Nodes /\ node[m].under <= node[node[m].parent].epoch
        BY <4>1, ParentFacts DEF IInv, EpochsOK
      <4> QED
        BY <1>7, <3>2, <4>1, <4>2
    <3> QED
      BY <3>1, <3>2
  <2>2. Active => rotation.root \in Nodes /\ node'[rotation.root].state \in {"live", "gone"}
    BY <1>7 DEF IInv, EpochsOK
  <2>3. ASSUME NEW m \in Nodes
        PROVE  /\ node'[m].epoch <= epochSeq /\ node'[m].epoch \notin drawn
               /\ node'[m].key.epoch <= node'[m].epoch /\ node'[m].key.epoch \notin drawn
               /\ node'[m].prev.epoch <= node'[m].epoch
               /\ Active /\ node'[m].prev # NoPrev => node'[m].prev.epoch < rotation.target
    <3>1. /\ node'[m].key = node[m].key /\ node'[m].epoch = node[m].epoch
          /\ node'[m].prev = node[m].prev
      BY <1>7
    <3> QED
      BY <3>1 DEF IInv, EpochsOK
  <2>4. /\ rotation'.target <= epochSeq' /\ rotation'.target \notin drawn'
        /\ rotation' = rotation /\ epochSeq' = epochSeq /\ drawn' = drawn
    BY <1>1 DEF IInv, EpochsOK
  <2> QED
    BY <1>6, <2>1, <2>2, <2>3, <2>4 DEF EpochsOK
<1>14. WalkersOK'
  BY <1>1, <1>6, <1>7 DEF IInv, WalkersOK
<1>15. Staled(n) /\ KeyStays(n)
  <2>1. \A w \in Walkers : \A i \in walker[w].batch : i.rev \in Nat
    BY ItemFacts DEF IInv
  <2>2. \A w \in Walkers : \A i \in walker[w].batch : i.id = n => i.rev <= node[n].rev
    <3> SUFFICES ASSUME NEW w \in Walkers, NEW i \in walker[w].batch, i.id = n
                 PROVE  i.rev <= node[n].rev
      OBVIOUS
    <3>1. i.rev \in Nat /\ (i.rev > 0 => i.rev <= node[n].rev)
      BY <2>1, ItemStale DEF IInv
    <3> QED
      BY <1>2, <3>1
  <2> QED
    BY <1>2, <1>4, <2>1, <2>2 DEF Staled, KeyStays
<1>16. ItemsOK'
  <2>1. SameDevices /\ rotation' = rotation /\ \A m \in Nodes \ {n} : grant'[m] = grant[m]
    BY <1>1 DEF SameDevices
  <2> QED
    BY <1>4, <1>9, <1>15, <2>1, ItemsAround
<1>17. GrantsOK'
  BY <1>1, <1>7 DEF IInv, GrantsOK
<1>18. EnvelopesOK'
  <2>1. EnvelopeOK(n)'
    BY <1>1, <1>4, <1>5 DEF EnvelopeOK, Wrapped, PrevOpens
  <2> QED
    BY <1>1, <1>4, <1>15, <2>1, EnvelopesAround
<1>19. KnownOK'
  <2>1. node[n].key.epoch <= epochSeq /\ node[n].key.epoch \notin drawn
        /\ node[n].key.epoch <= node[n].epoch
    BY <1>1, RowFacts DEF IInv, EpochsOK
  <2>2. \A m \in Nodes : node'[m].state = node[m].state /\ node'[m].epoch = node[m].epoch
    BY <1>7
  <2>3. \A m \in Nodes, k \in Key : <<m, k>> \in known' =>
            <<m, k>> \in known \/ (m = n /\ k = node[n].key)
    BY <1>8
  <2> QED
    BY <1>1, <2>1, <2>2, <2>3 DEF IInv, KnownOK
<1>20. LockInv'
  <2> SUFFICES ASSUME Group, ~early PROVE LockInv'
    BY <1>1 DEF LockInv
  <2>1. \A m \in Kept' : m \in Kept /\ m \in Nodes /\ (Knows(m)' <=> Knows(m))
    BY <1>6, <1>7, <1>8 DEF Knows, Kept
  <2>2. ASSUME NEW m \in Kept', Purged(m) PROVE Purged(m)'
    <3>1. Above(m) = Chain(Up, m) /\ Above(n) = Chain(Up, n) /\ m \in Nodes
      BY <2>1, AboveFacts DEF IInv
    <3>2. PICK g \in Chain(Up, m) : node[g].state = "gone"
      BY <2>2, <3>1 DEF Purged
    <3>3. g \notin Chain(Up, n)
      BY <3>1, <3>2 DEF Purged
    <3>4. g \in Chain(Up', m)
      BY <1>6, <1>10, <3>1, <3>2, <3>3, ChainKept
    <3>5. Above(m)' = Chain(Up', m)
      BY <1>6, <3>1, ClimbFacts DEF Above
    <3>6. g \in Nodes
      BY <1>6, <3>1, <3>2, ChainFacts
    <3> QED
      BY <1>7, <3>2, <3>4, <3>5, <3>6 DEF Purged
  <2> QED
    BY <1>1, <1>6, <1>7, <2>1, <2>2 DEF IInv, LockInv
<1> QED
  BY <1>9, <1>11, <1>12, <1>13, <1>14, <1>16, <1>17, <1>18, <1>19, <1>20 DEF IInv

(* The top folder is above all and below nothing. *)
LEMMA AboveRoot ==
    ASSUME Shape
    PROVE  Above(Root) = {Root} /\ ~Purged(Root)
<1>1. Up[Root] \notin DOMAIN Up /\ Root \in DOMAIN Up /\ Root \in Nodes
  BY RootThere DEF Shape, Hangs, Up
<1>2. Above(Root) = {Root}
  BY <1>1, ChainStep, AboveFacts
<1> QED
  BY <1>2 DEF Purged, Shape

(* moveNode.                                                               *)
LEMMA MoveStep ==
    ASSUME IInv, NEW n \in Nodes, NEW d \in Nodes, MoveNode(n, d)
    PROVE  IInv'
<1>1. n # Root /\ node[n].state = "live" /\ ~Purged(n) /\ Rehang(n, d)
  BY DEF MoveNode, Changeable
<1>2. d \in Folders /\ node[d].state = "live" /\ ~Purged(d) /\ n \notin Above(d)
  BY DEF MoveNode, OpenFolder
<1>3. ~UnderUnrotatedParent(d)
  BY DEF MoveNode, UnderUnrotatedParent
<1> QED
  BY <1>1, <1>2, <1>3, RehangStep

(* restoreNode to the top folder.                                          *)
LEMMA RestoreStep ==
    ASSUME IInv, NEW n \in Nodes, RestoreToRoot(n)
    PROVE  IInv'
<1>1. n # Root /\ node[n].state = "live" /\ ~Purged(n) /\ Rehang(n, Root) /\ ~UnderUnrotatedParent(Root)
  BY DEF RestoreToRoot, Changeable
<1>2. node[Root].state = "live" /\ ~Purged(Root) /\ n \notin Above(Root) /\ Root \in Folders
  BY <1>1, AboveRoot, RootThere DEF IInv, Shape
<1> QED
  BY <1>1, <1>2, RehangStep

-----------------------------------------------------------------------------
(* The roster's re-key of the top folder. *)
(* applyRotation: the top folder's key is put aside, and everything a      *)
(* removed member knew is behind the new target.                           *)
LEMMA RosterStep ==
    ASSUME IInv, NEW w \in Walkers, NEW t \in drawn, RosterRotation(w, t)
    PROVE  IInv'
<1>1. /\ Group /\ walker[w] = Idle /\ node[Root].prev = NoPrev
      /\ rotation' = [root |-> Root, target |-> t]
      /\ drawn' = drawn \ {t}
      /\ node' = [node EXCEPT ![Root].epoch = t, ![Root].key = KeyAt(Root, t, w),
                            ![Root].prev = [epoch |-> node[Root].epoch, key |-> node[Root].key,
                                            wrap |-> NoKey, parent |-> NoNode],
                            ![Root].rev = @ + 1]
      /\ known' = {<<n, node[n].key>> : n \in Kept}
      /\ SetsOut(w, Root, t)
      /\ node \in [Nodes -> Row] /\ t \in Nat /\ t <= epochSeq /\ epochSeq \in Nat
      /\ UNCHANGED <<grant, epochSeq, cut, early>>
  BY DEF RosterRotation, SetsOut, IInv, TypeOK
<1>2. \A n \in Nodes : node[n].epoch \in Nat /\ node[n].epoch < t
                       /\ node[n].prev.epoch \in Nat /\ node[n].prev.epoch < t
  <2>1. \A n \in Nodes : node[n].epoch \in Carried /\ node[n].prev.epoch \in Carried
    BY DEF Carried
  <2> QED
    BY <2>1, RowFacts DEF RosterRotation, IInv
<1>3. /\ KeyAt(Root, t, w) \in Key /\ KeyAt(Root, t, w).of = Root /\ KeyAt(Root, t, w).epoch = t
      /\ node[Root].key \in Key /\ node[Root].key.of = Root /\ node[Root].rev \in Nat
      /\ node[Root].rev >= 1 /\ node[Root].state = "live" /\ NoKey \in Key
  BY <1>1, RootThere, KeyFields, RowFacts, Blanks DEF IInv, RowsOK, Shape
<1>4. /\ node' \in [Nodes -> Row] /\ Alone(Root)
      /\ node'[Root].state = "live" /\ node'[Root].parent = node[Root].parent
      /\ node'[Root].epoch = t /\ node'[Root].key = KeyAt(Root, t, w)
      /\ node'[Root].prev.key = node[Root].key /\ node'[Root].prev.epoch = node[Root].epoch
      /\ node'[Root].rev = node[Root].rev + 1
  <2>1. [epoch |-> node[Root].epoch, key |-> node[Root].key, wrap |-> NoKey, parent |-> NoNode]
           \in [epoch : Nat, key : Key, wrap : Key, parent : Nodes \cup {NoNode}]
    BY <1>2, <1>3, RootThere
  <2> QED
    BY <1>1, <1>3, <2>1, RootThere DEF Alone, Row
<1>5. /\ walker' \in [Walkers -> [pc : {"idle", "walking", "closing"},
                                       root : Nodes \cup {NoNode}, target : Nat, batch : SUBSET Item]]
      /\ walker'[w].pc = "walking" /\ walker'[w].root = Root
      /\ walker'[w].target = t /\ walker'[w].batch = {}
      /\ \A v \in Walkers \ {w} : walker'[v] = walker[v]
  BY <1>1, SetOut, RootThere
<1>6. /\ There' = There /\ Kept' = Kept /\ Up' = Up /\ Active'
      /\ rotation'.root = Root /\ rotation'.target = t
      /\ \A m \in Nodes : node'[m].parent = node[m].parent /\ node'[m].state = node[m].state
  <2>1. \A m \in Nodes : node'[m].parent = node[m].parent /\ node'[m].state = node[m].state
    BY <1>3, <1>4 DEF Alone
  <2>2. There' = There /\ Kept' = Kept /\ Up' = Up
    BY <2>1 DEF There, Kept, Up
  <2> QED
    BY <1>1, <2>1, <2>2, RootThere DEF Active, NoRotation
<1>7. TypeOK'
  <2>1. \A n \in Kept : n \in Nodes /\ node[n].key \in Key
    BY RowFacts DEF Kept, IInv
  <2>2. known' \subseteq Nodes \X Key
    BY <1>1, <2>1
  <2> QED
    BY <1>1, <1>4, <1>5, <2>2, RootThere DEF IInv, TypeOK
<1>8. Shape'
  BY <1>4, <1>6 DEF IInv, Shape, There
<1>9. RowsOK'
  BY <1>3, <1>4 DEF IInv, RowsOK, Alone
<1>10. EpochsOK'
  <2>1. ASSUME NEW m \in Nodes
        PROVE  /\ node'[m].epoch <= epochSeq /\ node'[m].epoch \notin drawn'
               /\ node'[m].key.epoch <= node'[m].epoch /\ node'[m].key.epoch \notin drawn'
               /\ node'[m].prev.epoch <= node'[m].epoch
               /\ node'[m].prev.epoch < t
    <3>1. CASE m = Root
      BY <1>1, <1>2, <1>3, <1>4, <3>1, RootThere
    <3>2. CASE m # Root
      <4>1. node'[m] = node[m]
        BY <1>4, <3>2 DEF Alone
      <4>2. /\ node[m].epoch <= epochSeq /\ node[m].epoch \notin drawn
            /\ node[m].key.epoch <= node[m].epoch /\ node[m].key.epoch \notin drawn
            /\ node[m].prev.epoch <= node[m].epoch
        BY DEF IInv, EpochsOK
      <4>3. drawn' \subseteq drawn /\ node[m].prev.epoch < t
        BY <1>1, <1>2
      <4> QED
        BY <4>1, <4>2, <4>3
    <3> QED
      BY <3>1, <3>2
  <2>2. ASSUME NEW m \in There' \ {Root} PROVE node'[m].under <= node'[node'[m].parent].epoch
    <3>1. m \in There \ {Root} /\ m \in Nodes /\ node'[m] = node[m]
      BY <1>4, <1>6, <2>2 DEF There, Alone
    <3>2. node[m].parent \in Nodes /\ node[m].under <= node[node[m].parent].epoch /\ node[m].under \in Nat
      BY <3>1, ParentFacts, RowFacts DEF IInv, EpochsOK
    <3>3. CASE node[m].parent = Root
      BY <1>1, <1>2, <1>4, <3>1, <3>2, <3>3
    <3>4. CASE node[m].parent # Root
      BY <1>4, <3>1, <3>2, <3>4 DEF Alone
    <3> QED
      BY <3>3, <3>4
  <2>3. rotation'.root \in Nodes /\ node'[rotation'.root].state = "live"
        /\ rotation'.target <= epochSeq /\ rotation'.target \notin drawn'
    BY <1>1, <1>4, <1>6, RootThere
  <2>4. epochSeq' = epochSeq /\ rotation'.target = t
    BY <1>1, <1>6
  <2> QED
    BY <2>1, <2>2, <2>3, <2>4 DEF EpochsOK
<1>11. \A v \in Walkers : walker[v].target # t
  BY DEF IInv, WalkersOK
<1>12. WalkersOK'
  <2>1. \A m \in Nodes : node'[m].epoch \in Nat /\ node'[m].epoch <= t
    BY <1>1, <1>2, <1>4 DEF Alone
  <2>2. \A v \in Walkers : walker'[v].target \in Nat
    BY <1>7 DEF TypeOK
  <2>3. \A v \in Walkers : walker'[v].target > t => \A m \in Nodes : node'[m].epoch # walker'[v].target
    BY <1>1, <2>1, <2>2
  <2>4. \A v \in Walkers : /\ walker'[v].target <= epochSeq /\ walker'[v].target \notin drawn'
                           /\ walker'[v].pc # "idle" => walker'[v].root \in Nodes
                           /\ walker'[v].pc = "idle" => walker'[v] = Idle
    BY <1>1, <1>5, RootThere DEF IInv, WalkersOK
  <2> QED
    BY <1>1, <1>6, <2>3, <2>4 DEF WalkersOK
<1>13. ItemsOK'
  <2> SUFFICES ASSUME NEW v \in Walkers, NEW i \in walker'[v].batch
               PROVE  /\ i.rev > 0 => node'[i.id].state \in {"live", "gone"} /\ i.rev <= node'[i.id].rev
                      /\ node'[i.id].state = "live" /\ node'[i.id].rev = i.rev => Fits(v, i)'
    BY DEF ItemsOK
  <2>1. v # w /\ walker'[v] = walker[v] /\ i \in walker[v].batch
    BY <1>5
  <2>2. i.id \in Nodes /\ i.under \in Nat /\ i.rev \in Nat
    BY <2>1, ItemFacts DEF IInv
  <2>3. /\ i.rev > 0 => node[i.id].state \in {"live", "gone"} /\ i.rev <= node[i.id].rev
        /\ node[i.id].state = "live" /\ node[i.id].rev = i.rev => Fits(v, i)
    BY <2>1 DEF IInv, ItemsOK
  <2>4. CASE i.id = Root
    BY <1>3, <1>4, <2>2, <2>3, <2>4
  <2>5. CASE i.id # Root
    <3>1. node'[i.id] = node[i.id]
      BY <1>4, <2>2, <2>5 DEF Alone
    <3>2. ASSUME node[i.id].state = "live", Fits(v, i) PROVE ParentAsSealed(v, i)'
      <4> DEFINE p == node[i.id].parent
      <4>1. p \in Nodes /\ ParentAsSealed(v, i)
        BY <2>5, <3>2 DEF Fits, ParentAsSealed
      <4>2. /\ node[p].epoch = i.under => node[p].key = i.wrap
            /\ node[p].epoch < i.under =>
                  \/ node[p].state = "gone"
                  \/ i.under = walker[v].target /\ rotation.target # i.under
        BY <4>1 DEF ParentAsSealed
      <4>3. /\ node'[p].epoch = i.under => node'[p].key = i.wrap
            /\ node'[p].epoch < i.under =>
                  \/ node'[p].state = "gone"
                  \/ i.under = walker[v].target /\ rotation'.target # i.under
        <5>1. CASE p # Root
          <6>1. node'[p] = node[p]
            BY <1>4, <4>1, <5>1 DEF Alone
          <6> QED
            BY <1>6, <1>11, <4>2, <6>1
        <5>2. CASE p = Root
          <6>1. node[p].epoch \in Nat /\ node[p].epoch < t /\ node[p].state = "live" /\ node'[p].epoch = t
            BY <1>2, <1>3, <1>4, <4>1, <5>2
          <6>2. walker[v].target # t /\ rotation'.target = t /\ i.under \in Nat /\ t \in Nat
            BY <1>1, <1>6, <1>11, <2>2
          <6>3. i.under # t /\ (t < i.under => i.under = walker[v].target)
            BY <4>2, <6>1, <6>2
          <6> QED
            BY <6>1, <6>2, <6>3
        <5> QED
          BY <5>1, <5>2
      <4> HIDE DEF p
      <4>4. node'[i.id].parent = p
        BY <3>1 DEF p
      <4> QED
        BY <2>1, <4>1, <4>3, <4>4 DEF ParentAsSealed
    <3>3. node[i.id].state = "live" /\ Fits(v, i) => Fits(v, i)'
      BY <1>1, <2>1, <3>1, <3>2 DEF Fits
    <3> QED
      BY <2>3, <3>1, <3>3
  <2> QED
    BY <2>4, <2>5
<1>14. GrantsOK'
  BY <1>1 DEF IInv, GrantsOK
<1>15. EnvelopesOK'
  <2>1. node'[Root].prev # NoPrev
    BY <1>3, <1>4, Blanks, RootThere
  <2>2. PutAside(Root)
    BY <1>1, <1>3, <1>4, <2>1 DEF PutAside
  <2>3. Root \in Nodes /\ cut \subseteq cut' /\ ~(Root \in Kept' \ {Root})
    BY <1>1, RootThere
  <2> QED
    BY <1>4, <2>2, <2>3, EnvelopesAround
<1>16. KnownOK'
  <2> SUFFICES ASSUME NEW n \in Kept
               PROVE  /\ n \in Nodes /\ node[n].key.epoch <= epochSeq /\ node[n].key.epoch \notin drawn'
                      /\ node[n].key.by \in Walkers => node'[n].state \in {"live", "gone"}
                                                       /\ node[n].key.epoch <= node'[n].epoch
    BY <1>1 DEF KnownOK
  <2>1. /\ n \in Nodes /\ node[n].epoch \in Nat /\ node[n].key.epoch \in Nat
        /\ node[n].key.epoch <= node[n].epoch /\ node[n].epoch <= epochSeq
        /\ node[n].key.epoch \notin drawn
    BY RowFacts DEF Kept, IInv, EpochsOK
  <2>2. node[n].key.by \in Walkers => node[n].state = "live"
    BY <2>1, RotationAssumption DEF Kept, IInv, RowsOK
  <2>3. node[n].epoch <= node'[n].epoch /\ node'[n].epoch \in Nat
    BY <1>1, <1>2, <1>4, <2>1 DEF Alone
  <2> QED
    BY <1>1, <1>6, <2>1, <2>2, <2>3
<1>17. LockInv'
  <2>1. ASSUME NEW m \in Kept', Knows(m)' PROVE node'[m].epoch < t
    <3>1. CASE m = Root
      <4>1. node[Root].key = KeyAt(Root, t, w)
        BY <1>1, <1>4, <2>1, <3>1 DEF Knows
      <4>2. node[Root].key.epoch \notin drawn
        BY RootThere DEF IInv, EpochsOK
      <4> QED
        BY <1>3, <4>1, <4>2
    <3>2. CASE m # Root
      BY <1>2, <1>4, <1>6, <3>2 DEF Alone, Kept
    <3> QED
      BY <3>1, <3>2
  <2> QED
    BY <1>6, <2>1 DEF LockInv
<1> QED
  BY <1>7, <1>8, <1>9, <1>10, <1>12, <1>13, <1>14, <1>15, <1>16, <1>17 DEF IInv

-----------------------------------------------------------------------------
(* The walk: a listing, a batch, the finish. *)

(* What is in hand: the nodes below the root that live or are uploaded and *)
(* are behind, and of those the ones whose folder is not.                  *)
LEMMA WorkFacts ==
    ASSUME IInv, Active
    PROVE  /\ Work \subseteq Kept /\ Ready \subseteq Work
           /\ \A n \in Ready : node[n].parent \notin Work /\ node[n].parent \notin Ready
           /\ \A n \in Ready \ {rotation.root} :
                 node[n].parent \in Kept => node[node[n].parent].epoch >= rotation.target
<1>1. Work \subseteq Kept /\ Ready \subseteq Work
      /\ \A n \in Ready : node[n].parent \notin Work /\ node[n].parent \notin Ready
  BY DEF Work, Ready
<1>2. ASSUME NEW n \in Ready \ {rotation.root}, node[n].parent \in Kept
      PROVE  node[node[n].parent].epoch >= rotation.target
  <2>1. rotation.root \in Nodes /\ DOMAIN Up = Nodes /\ Kept \in SUBSET DOMAIN Up
    BY ActiveFacts DEF IInv, Up, Kept
  <2>2. n \in Subtree(Up, Kept, rotation.root) /\ n \in Nodes
    BY <1>1 DEF Work, Kept
  <2>3. Up[n] \in Subtree(Up, Kept, rotation.root)
    BY <1>2, <2>1, <2>2, SubtreeAbove
  <2>4. Up[n] = node[n].parent
    BY <2>2 DEF Up
  <2>5. ~(node[node[n].parent].epoch < rotation.target)
    BY <1>1, <1>2, <2>3, <2>4 DEF Work
  <2>6. node[node[n].parent].epoch \in Nat /\ rotation.target \in Nat
    BY <1>2, RowFacts DEF IInv, Kept
  <2> QED
    BY <2>5, <2>6
<1> QED
  BY <1>1, <1>2

(* What a device seals has its shape, and fits. *)
LEMMA SealedFits ==
    ASSUME IInv, Active, NEW w \in Walkers, rotation.root = walker[w].root,
           NEW reseal \in BOOLEAN, NEW n \in Ready
    PROVE  /\ Sealed(w, n, reseal) \in Item
           /\ Sealed(w, n, reseal).id = n /\ Sealed(w, n, reseal).rev = node[n].rev
           /\ Fits(w, Sealed(w, n, reseal))
<1> DEFINE i == Sealed(w, n, reseal)
           p == node[n].parent
           t == walker[w].target
<1>1. /\ n \in Kept /\ n \in Nodes /\ n \in There /\ p \notin Ready
  BY WorkFacts DEF Kept, There
<1>2. /\ node[n].rev \in Nat /\ node[n].epoch \in Nat /\ node[n].key \in Key
      /\ node[n].under \in Nat /\ t \in Nat /\ NoKey \in Key /\ KeyAt(n, t, w) \in Key
      /\ n # Root => p \in Nodes /\ node[p].key \in Key /\ node[p].epoch \in Nat
                     /\ node[n].under <= node[p].epoch
  <2>1. /\ node[n].rev \in Nat /\ node[n].epoch \in Nat /\ node[n].key \in Key
        /\ node[n].under \in Nat /\ t \in Nat /\ NoKey \in Key
    BY <1>1, RowFacts, Blanks DEF IInv, TypeOK
  <2>2. KeyAt(n, t, w) \in Key
    BY <1>1, <2>1, KeyFields
  <2>3. n # Root => p \in Nodes /\ node[n].under <= node[p].epoch
    BY <1>1, ParentFacts DEF IInv, EpochsOK
  <2>4. n # Root => node[p].key \in Key /\ node[p].epoch \in Nat
    BY <2>3, RowFacts DEF IInv
  <2> QED
    BY <2>1, <2>2, <2>3, <2>4
<1>3. /\ i.id = n /\ i.rev = node[n].rev /\ i.rotated = (node[n].epoch < t)
      /\ i.key = (IF node[n].epoch < t THEN KeyAt(n, t, w) ELSE node[n].key)
      /\ i.under = (IF n = walker[w].root THEN node[n].under ELSE t)
      /\ i.wrap = (IF n = Root THEN NoKey ELSE node[p].key)
      /\ i.saw = (grant[n].state = "live") /\ i.reseal \in BOOLEAN
  BY <1>1 DEF Sealed
<1>4. i \in Item
  <2>1. i = [id |-> i.id, rev |-> i.rev, rotated |-> i.rotated, key |-> i.key, under |-> i.under,
             wrap |-> i.wrap, saw |-> i.saw, reseal |-> i.reseal]
    BY DEF Sealed
  <2>2. /\ i.id \in Nodes /\ i.rev \in Nat /\ i.rotated \in BOOLEAN /\ i.key \in Key
        /\ i.under \in Nat /\ i.wrap \in Key /\ i.saw \in BOOLEAN /\ i.reseal \in BOOLEAN
    BY <1>1, <1>2, <1>3
  <2> HIDE DEF i
  <2> QED
    BY <2>1, <2>2 DEF Item
<1>5. ASSUME n # Root
      PROVE  /\ node[p].epoch = i.under => node[p].key = i.wrap
             /\ node[p].epoch < i.under => \/ node[p].state = "gone"
                                           \/ i.under = t /\ rotation.target # i.under
  <2>1. CASE n = walker[w].root
    BY <1>2, <1>3, <1>5, <2>1
  <2>2. CASE n # walker[w].root
    <3>1. p \in Kept => node[p].epoch >= rotation.target
      BY <2>2, WorkFacts
    <3>2. p \in Kept \/ node[p].state = "gone"
      <4>1. p \in There /\ p \in Nodes
        BY <1>1, <1>5, ParentFacts DEF IInv
      <4>2. node[p].state \in {"none", "pending", "live", "gone"}
        BY <4>1, RowFacts DEF IInv
      <4> QED
        BY <4>1, <4>2 DEF There, Kept
    <3>3. rotation.target \in Nat
      BY DEF IInv, TypeOK
    <3> QED
      BY <1>2, <1>3, <1>5, <2>2, <3>1, <3>2, <3>3
  <2> QED
    BY <2>1, <2>2
<1>6. Fits(w, i)
  <2>1. n # Root => ParentAsSealed(w, i)
    BY <1>2, <1>3, <1>5 DEF ParentAsSealed
  <2>2. /\ i.rotated <=> node[n].epoch < t
        /\ n # walker[w].root => i.under = t
        /\ grant[n].state = "live" => i.saw
    BY <1>3
  <2>3. i.key = IF i.rotated THEN KeyAt(n, t, w) ELSE node[n].key
    BY <1>3
  <2> QED
    BY <1>3, <2>1, <2>2, <2>3 DEF Fits
<1> QED
  BY <1>3, <1>4, <1>6

(* rotationWork: what a device seals fits what it read.                    *)
LEMMA ListStep ==
    ASSUME IInv, NEW w \in Walkers, NEW reseal \in BOOLEAN, ListWork(w, reseal)
    PROVE  IInv'
<1> DEFINE B == {Sealed(w, n, reseal) : n \in Ready}
<1>1. /\ walker[w].pc = "walking" /\ walker[w].batch = {} /\ rotation.root = walker[w].root
      /\ walker' = [walker EXCEPT ![w] =
            IF Work = {} THEN [@ EXCEPT !.pc = "closing"] ELSE [@ EXCEPT !.batch = B]]
      /\ UNCHANGED <<node, grant, epochSeq, drawn, rotation, cut, early, known>>
      /\ walker \in [Walkers -> [pc : {"idle", "walking", "closing"}, root : Nodes \cup {NoNode},
                                 target : Nat, batch : SUBSET Item]]
  BY DEF ListWork, IInv, TypeOK
<1>2. Active
  BY <1>1, ActiveFacts DEF IInv, WalkersOK
<1>3. \A i \in B : /\ i \in Item /\ i.id \in Ready /\ i.rev = node[i.id].rev /\ Fits(w, i)
  BY <1>1, <1>2, SealedFits
<1>4. B \in SUBSET Item
  BY <1>3
<1> HIDE DEF B
<1>5. /\ walker' \in [Walkers -> [pc : {"idle", "walking", "closing"}, root : Nodes \cup {NoNode},
                                  target : Nat, batch : SUBSET Item]]
      /\ \A v \in Walkers \ {w} : walker'[v] = walker[v]
      /\ walker'[w].pc \in {"walking", "closing"} /\ walker'[w].root = walker[w].root
      /\ walker'[w].target = walker[w].target /\ walker'[w].batch \subseteq B
  BY <1>1, <1>4
<1>6. TypeOK'
  BY <1>1, <1>5 DEF IInv, TypeOK
<1>7. /\ Shape' /\ RowsOK' /\ GrantsOK' /\ EnvelopesOK' /\ There' = There /\ Kept' = Kept
      /\ \A n \in Nodes : Purged(n)' <=> Purged(n)
  BY <1>1, StillRows
<1>8. EpochsOK' /\ Active' = Active
  BY <1>1, <1>7 DEF IInv, EpochsOK, Active
<1>9. WalkersOK'
  BY <1>1, <1>5, <1>8 DEF IInv, WalkersOK
<1>10. ItemsOK'
  <2> SUFFICES ASSUME NEW v \in Walkers, NEW i \in walker'[v].batch
               PROVE  /\ i.rev > 0 => node'[i.id].state \in {"live", "gone"} /\ i.rev <= node'[i.id].rev
                      /\ node'[i.id].state = "live" /\ node'[i.id].rev = i.rev => Fits(v, i)'
    BY DEF ItemsOK
  <2>1. CASE v # w
    <3>1. walker'[v] = walker[v] /\ i \in walker[v].batch
      BY <1>5, <2>1
    <3>2. Fits(v, i) => Fits(v, i)'
      BY <1>1, <3>1, StillFits
    <3> QED
      BY <1>1, <3>1, <3>2 DEF IInv, ItemsOK
  <2>2. CASE v = w
    <3>1. i \in B
      BY <1>5, <2>2
    <3>2. i.id \in Ready /\ i.rev = node[i.id].rev /\ Fits(w, i)
      BY <1>3, <3>1
    <3>3. i.id \in Kept /\ i.id \in Nodes
      BY <1>2, <3>2, WorkFacts DEF Kept
    <3>4. node[i.id].rev \in Nat /\ (i.rev > 0 => node[i.id].state # "pending")
      BY <3>2, <3>3, RowFacts DEF IInv, RowsOK
    <3>5. Fits(w, i)'
      BY <1>1, <1>5, <3>2, StillFits
    <3> QED
      BY <1>1, <2>2, <3>2, <3>3, <3>4, <3>5 DEF Kept
  <2> QED
    BY <2>1, <2>2
<1>11. KnownOK' /\ LockInv'
  BY <1>1, <1>7, <1>8 DEF IInv, KnownOK, LockInv, Knows, Kept
<1> QED
  BY <1>6, <1>7, <1>8, <1>9, <1>10, <1>11 DEF IInv

(* When nothing is in hand, what a removed member knows is nothing that is *)
(* still kept.                                                             *)
LEMMA NothingLeft ==
    ASSUME IInv, Active, rotation.root = Root, Work = {}, NEW m \in Kept, ~Purged(m)
    PROVE  node[m].epoch >= rotation.target
<1>1. m \in There /\ m \in Nodes /\ Kept \in SUBSET There /\ Root \in Kept
  BY RootThere DEF Kept, There, IInv, Shape
<1>2. Above(m) = Chain(Up, m) /\ Above(m) \subseteq There
  BY <1>1, AboveFacts DEF IInv
<1>3. Chain(Up, m) \subseteq Kept
  <2> SUFFICES ASSUME NEW g \in Chain(Up, m) PROVE g \in Kept
    OBVIOUS
  <2>1. g \in Nodes /\ node[g].state # "none" /\ node[g].state # "gone"
    BY <1>2 DEF There, Purged
  <2> QED
    BY <2>1, RowFacts DEF Kept, IInv
<1>4. Hangs(Up, There, Root)
  BY DEF IInv, Shape
<1>5. m \in Subtree(Up, Kept, Root)
  BY <1>1, <1>3, <1>4, SubtreeOfRoot
<1>6. ~(node[m].epoch < rotation.target)
  BY <1>5 DEF Work
<1> QED
  BY <1>1, <1>6, RowFacts DEF IInv

(* finishRotation: with nothing in hand, nothing below the root is wrapped *)
(* under a key put aside, and nothing there is known.                      *)
LEMMA FinishStep ==
    ASSUME IInv, NEW w \in Walkers, FinishRotation(w)
    PROVE  IInv'
<1>0. /\ walker[w].pc = "closing"
      /\ walker \in [Walkers -> [pc : {"idle", "walking", "closing"}, root : Nodes \cup {NoNode},
                                 target : Nat, batch : SUBSET Item]]
      /\ UNCHANGED <<grant, epochSeq, drawn, known>>
  BY DEF FinishRotation, IInv, TypeOK
<1>1. CASE rotation.root # walker[w].root
  <2>1. /\ walker' = [walker EXCEPT ![w].pc = "walking"]
        /\ UNCHANGED <<node, grant, epochSeq, drawn, rotation, cut, early, known>>
    BY <1>0, <1>1 DEF FinishRotation
  <2>2. /\ walker' \in [Walkers -> [pc : {"idle", "walking", "closing"}, root : Nodes \cup {NoNode},
                                    target : Nat, batch : SUBSET Item]]
        /\ \A v \in Walkers \ {w} : walker'[v] = walker[v]
        /\ walker'[w].pc = "walking" /\ walker'[w].root = walker[w].root
        /\ walker'[w].target = walker[w].target /\ walker'[w].batch = walker[w].batch
    BY <1>0, <2>1
  <2>3. TypeOK'
    BY <2>1, <2>2 DEF IInv, TypeOK
  <2>4. /\ Shape' /\ RowsOK' /\ GrantsOK' /\ EnvelopesOK' /\ There' = There /\ Kept' = Kept
        /\ \A n \in Nodes : Purged(n)' <=> Purged(n)
    BY <2>1, StillRows
  <2>5. EpochsOK' /\ Active' = Active
    BY <2>1, <2>4 DEF IInv, EpochsOK, Active
  <2>6. WalkersOK'
    BY <1>0, <2>1, <2>2, <2>5 DEF IInv, WalkersOK
  <2>7. ItemsOK'
    <3>1. \A v \in Walkers : /\ walker'[v].batch = walker[v].batch
                             /\ walker'[v].root = walker[v].root
                             /\ walker'[v].target = walker[v].target
      BY <2>2
    <3>2. \A v \in Walkers : \A i \in walker[v].batch : Fits(v, i) => Fits(v, i)'
      BY <2>1, <3>1, StillFits
    <3> QED
      BY <2>1, <3>1, <3>2 DEF IInv, ItemsOK
  <2>8. KnownOK' /\ LockInv'
    BY <2>1, <2>4, <2>5 DEF IInv, KnownOK, LockInv, Knows, Kept
  <2> QED
    BY <2>3, <2>4, <2>5, <2>6, <2>7, <2>8 DEF IInv
<1>2. CASE rotation.root = walker[w].root
  <2> DEFINE all == Subtree(Up, Kept, rotation.root)
  <2>1. /\ node' = [n \in Nodes |-> IF n \in all THEN [node[n] EXCEPT !.prev = NoPrev] ELSE node[n]]
        /\ rotation' = NoRotation /\ early' = (early \/ Work # {})
        /\ cut' = IF Work = {} THEN cut ELSE cut \cup {n \in all : node[n].prev # NoPrev}
        /\ walker' = [walker EXCEPT ![w] = Idle]
    BY <1>0, <1>2 DEF FinishRotation
  <2>2. /\ rotation.root \in Nodes /\ Active /\ ~Active' /\ rotation'.target = 0
        /\ DOMAIN Up = Nodes /\ Kept \in SUBSET Nodes
    <3>1. rotation.root \in Nodes
      BY <1>0, <1>2 DEF IInv, WalkersOK
    <3> QED
      BY <2>1, <3>1, ActiveFacts DEF IInv, Active, NoRotation, Up, Kept
  <2>3. /\ rotation.root \in all /\ all \subseteq Nodes
        /\ \A m \in Kept : Up[m] \in all => m \in all
        /\ \A m \in all : rotation.root \in Chain(Up, m)
    BY <2>2, SubtreeFacts, SubtreeAbove
  <2> HIDE DEF all
  <2>4. \A n \in Nodes :
          /\ node'[n] \in Row
          /\ node'[n].state = node[n].state /\ node'[n].parent = node[n].parent
          /\ node'[n].epoch = node[n].epoch /\ node'[n].under = node[n].under
          /\ node'[n].key = node[n].key /\ node'[n].wrap = node[n].wrap
          /\ node'[n].rev = node[n].rev
          /\ node'[n].prev = IF n \in all THEN NoPrev ELSE node[n].prev
    <3> SUFFICES ASSUME NEW n \in Nodes
                 PROVE  /\ node'[n] \in Row
                        /\ node'[n].state = node[n].state /\ node'[n].parent = node[n].parent
                        /\ node'[n].epoch = node[n].epoch /\ node'[n].under = node[n].under
                        /\ node'[n].key = node[n].key /\ node'[n].wrap = node[n].wrap
                        /\ node'[n].rev = node[n].rev
                        /\ node'[n].prev = IF n \in all THEN NoPrev ELSE node[n].prev
      OBVIOUS
    <3>1. node[n] \in Row
      BY RowFacts DEF IInv
    <3>2. node'[n] = IF n \in all THEN [node[n] EXCEPT !.prev = NoPrev] ELSE node[n]
      BY <2>1
    <3> QED
      BY <3>1, <3>2, Blanks DEF Row
  <2>5. /\ walker' \in [Walkers -> [pc : {"idle", "walking", "closing"}, root : Nodes \cup {NoNode},
                                    target : Nat, batch : SUBSET Item]]
        /\ \A v \in Walkers \ {w} : walker'[v] = walker[v]
        /\ walker'[w] = Idle /\ Idle.target = 0 /\ Idle.batch = {} /\ Idle.pc = "idle"
    BY <1>0, <2>1 DEF Idle
  <2>6. There' = There /\ Kept' = Kept /\ Up' = Up
    BY <2>4 DEF There, Kept, Up
  <2>7. TypeOK'
    <3>1. node' \in [Nodes -> Row]
      BY <2>1, <2>4
    <3>2. rotation' \in [root : Nodes \cup {NoNode}, target : Nat]
      BY <2>1 DEF NoRotation
    <3>3. cut' \subseteq Nodes /\ early' \in BOOLEAN
      BY <2>1, <2>3 DEF IInv, TypeOK
    <3> QED
      BY <1>0, <2>5, <3>1, <3>2, <3>3 DEF IInv, TypeOK
  <2>8. Shape'
    BY <2>4, <2>6, RootThere DEF IInv, Shape, There
  <2>9. RowsOK'
    <3> SUFFICES ASSUME NEW n \in Nodes
                 PROVE  /\ node'[n].state = "none" => node'[n] = NoRow
                        /\ node'[n].state = "pending" => /\ n \notin Folders /\ node'[n].rev = 0
                                        /\ node'[n].prev = NoPrev /\ node'[n].key.by = NoWalker
                        /\ node'[n].state \in {"live", "gone"} => node'[n].rev >= 1
                        /\ node'[n].state # "none" => node'[n].key.of = n
      BY DEF RowsOK
    <3>1. node'[n] = IF n \in all THEN [node[n] EXCEPT !.prev = NoPrev] ELSE node[n]
      BY <2>1
    <3>2. node'[n].state = "none" => node'[n] = NoRow
      <4>1. node[n].state = "none" => node[n] = NoRow
        BY DEF IInv, RowsOK
      <4>2. [NoRow EXCEPT !.prev = NoPrev] = NoRow
        <5>1. NoRow \in Row /\ NoRow.prev = NoPrev
          BY Blanks
        <5> QED
          BY <5>1 DEF Row
      <4> QED
        BY <2>4, <3>1, <4>1, <4>2
    <3> QED
      BY <2>4, <3>2 DEF IInv, RowsOK
  <2>10. EpochsOK'
    <3>1. ASSUME NEW n \in Nodes
          PROVE  /\ node'[n].epoch <= epochSeq /\ node'[n].epoch \notin drawn
                 /\ node'[n].key.epoch <= node'[n].epoch /\ node'[n].key.epoch \notin drawn
                 /\ node'[n].prev.epoch <= node'[n].epoch
      <4>1. /\ node'[n].epoch = node[n].epoch /\ node'[n].key = node[n].key /\ node[n].epoch \in Nat
            /\ node'[n].prev = IF n \in all THEN NoPrev ELSE node[n].prev
        BY <2>4, RowFacts DEF IInv
      <4>2. NoPrev.epoch = 0
        BY Blanks
      <4> QED
        BY <4>1, <4>2 DEF IInv, EpochsOK
    <3>2. ASSUME NEW n \in There' \ {Root} PROVE node'[n].under <= node'[node'[n].parent].epoch
      <4>1. n \in There \ {Root} /\ n \in Nodes
        BY <2>6, <3>2 DEF There
      <4>2. node[n].parent \in Nodes /\ node[n].under <= node[node[n].parent].epoch
        BY <4>1, ParentFacts DEF IInv, EpochsOK
      <4> QED
        BY <2>4, <4>1, <4>2
    <3>3. rotation'.target <= epochSeq /\ rotation'.target \notin drawn
      BY <2>2 DEF IInv, TypeOK
    <3> QED
      BY <1>0, <2>2, <3>1, <3>2, <3>3 DEF EpochsOK
  <2>11. WalkersOK'
    <3>1. 0 <= epochSeq /\ 0 \notin drawn
      BY DEF IInv, TypeOK
    <3> QED
      BY <1>0, <2>2, <2>5, <3>1 DEF IInv, WalkersOK
  <2>12. ItemsOK'
    <3> SUFFICES ASSUME NEW v \in Walkers, NEW i \in walker'[v].batch
                 PROVE  /\ i.rev > 0 => node'[i.id].state \in {"live", "gone"} /\ i.rev <= node'[i.id].rev
                        /\ node'[i.id].state = "live" /\ node'[i.id].rev = i.rev => Fits(v, i)'
      BY DEF ItemsOK
    <3>1. walker'[v] = walker[v] /\ i \in walker[v].batch
      BY <2>5
    <3>2. i.id \in Nodes /\ i.under \in Nat
      BY <3>1, ItemFacts DEF IInv
    <3>3. /\ node'[i.id].state = node[i.id].state /\ node'[i.id].rev = node[i.id].rev
          /\ node'[i.id].epoch = node[i.id].epoch /\ node'[i.id].key = node[i.id].key
          /\ node'[i.id].parent = node[i.id].parent /\ grant' = grant
      BY <1>0, <2>4, <3>2
    <3>4. /\ i.rev > 0 => node[i.id].state \in {"live", "gone"} /\ i.rev <= node[i.id].rev
          /\ node[i.id].state = "live" /\ node[i.id].rev = i.rev => Fits(v, i)
      BY <3>1 DEF IInv, ItemsOK
    <3>5. ASSUME Fits(v, i), i.id # Root PROVE ParentAsSealed(v, i)'
      <4> DEFINE p == node[i.id].parent
      <4>1. p \in Nodes /\ ParentAsSealed(v, i)
        BY <3>5 DEF Fits, ParentAsSealed
      <4>2. /\ node'[p].epoch = node[p].epoch /\ node'[p].key = node[p].key
            /\ node'[p].state = node[p].state /\ node[p].epoch \in Nat
        BY <2>4, <4>1, RowFacts DEF IInv
      <4>3. /\ node[p].epoch = i.under => node[p].key = i.wrap
            /\ node[p].epoch < i.under => node[p].state = "gone" \/ i.under = walker[v].target
        BY <4>1 DEF ParentAsSealed
      <4>4. /\ node'[p].epoch = i.under => node'[p].key = i.wrap
            /\ node'[p].epoch < i.under => \/ node'[p].state = "gone"
                                           \/ i.under = walker[v].target /\ rotation'.target # i.under
        BY <2>2, <3>2, <4>2, <4>3
      <4> HIDE DEF p
      <4>5. node'[i.id].parent = p
        BY <3>3 DEF p
      <4> QED
        BY <3>1, <4>1, <4>4, <4>5 DEF ParentAsSealed
    <3>6. Fits(v, i) => Fits(v, i)'
      BY <3>1, <3>3, <3>5 DEF Fits
    <3> QED
      BY <3>3, <3>4, <3>6
  <2>13. GrantsOK'
    BY <1>0, <2>4 DEF IInv, GrantsOK
  <2>14. EnvelopesOK'
    <3> SUFFICES ASSUME NEW n \in Kept \ {Root}, node[node[n].parent].state # "gone",
                        n \notin cut', node[n].parent \notin cut'
                 PROVE  Wrapped(n)' /\ PrevOpens(n)'
      <4>1. ASSUME NEW n \in Kept' \ {Root} PROVE EnvelopeOK(n)'
        <5>1. n \in Kept \ {Root} /\ n \in Nodes /\ n \in There
          BY <2>6 DEF Kept, There
        <5>2. node[n].parent \in Nodes
          BY <5>1, ParentFacts DEF IInv
        <5>3. node'[n].parent = node[n].parent /\ node'[node[n].parent].state = node[node[n].parent].state
          BY <2>4, <5>1, <5>2
        <5> QED
          BY <5>1, <5>3 DEF EnvelopeOK
      <4> QED
        BY <4>1 DEF EnvelopesOK
    <3> DEFINE p == node[n].parent
    <3>1. n \in Nodes /\ n \in There /\ p \in Nodes
      BY ParentFacts DEF IInv, Kept, There
    <3>2. Wrapped(n) /\ PrevOpens(n)
      BY <2>1 DEF IInv, EnvelopesOK, EnvelopeOK
    <3>3. /\ node'[n].parent = p /\ node'[n].wrap = node[n].wrap /\ node'[n].under = node[n].under
          /\ node'[p].key = node[p].key /\ node'[p].epoch = node[p].epoch
          /\ node'[n].prev = (IF n \in all THEN NoPrev ELSE node[n].prev)
          /\ node'[p].prev = (IF p \in all THEN NoPrev ELSE node[p].prev)
      BY <2>4, <3>1
    <3>4. CASE p \notin all \/ node[p].prev = NoPrev
      <4>1. node'[p].prev = node[p].prev /\ (node'[n].prev = node[n].prev \/ node'[n].prev = NoPrev)
        BY <3>3, <3>4
      <4> QED
        BY <3>2, <3>3, <4>1 DEF Wrapped, PrevOpens, OpenedBy
    <3>5. CASE p \in all /\ node[p].prev # NoPrev
      <4>1. Work = {}
        BY <2>1, <3>5
      <4>2. n \in all
        BY <2>3, <3>1, <3>5 DEF Up
      <4>3. n # rotation.root
        <5>1. n \notin Chain(Up, p)
          <6>1. Acyclic(Up) /\ Up[n] = p
            BY <3>1 DEF IInv, Shape, Hangs, Up
          <6> QED
            BY <2>2, <3>1, <6>1, NeverAbove
        <5> QED
          BY <2>3, <3>5, <5>1
      <4>4. ~(node[n].under < rotation.target)
        BY <4>1, <4>2, <4>3 DEF Work, all
      <4>5. node[p].prev.epoch < rotation.target
        BY <2>2, <3>1, <3>5 DEF IInv, EpochsOK
      <4>6. node[n].wrap = node[p].key /\ node[n].under = node[p].epoch
        BY <3>2, <4>4, <4>5 DEF Wrapped
      <4> QED
        BY <3>3, <4>2, <4>6 DEF Wrapped, PrevOpens
    <3> QED
      BY <3>4, <3>5
  <2>15. KnownOK'
    BY <1>0, <2>4 DEF IInv, KnownOK
  <2>16. LockInv'
    <3> SUFFICES ASSUME Group, ~early, Work = {}, NEW m \in Kept, ~Purged(m) PROVE ~Knows(m)
      <4>1. ASSUME NEW m \in Nodes PROVE (Purged(m)' <=> Purged(m)) /\ (Knows(m)' <=> Knows(m))
        <5>1. Above(m)' = Above(m) /\ Above(m) \subseteq Nodes
          BY <2>6, AboveFacts DEF IInv, Above
        <5> QED
          BY <1>0, <2>4, <5>1 DEF Purged, Knows
      <4>2. Kept' \subseteq Nodes
        BY <2>2, <2>6
      <4> QED
        BY <2>1, <2>2, <2>6, <4>1, <4>2 DEF LockInv
    <3>1. CASE rotation.root = Root
      <4>1. node[m].epoch >= rotation.target /\ node[m].epoch \in Nat /\ rotation.target \in Nat
        BY <2>2, <3>1, NothingLeft, RowFacts DEF IInv
      <4> QED
        BY <2>2, <3>1, <4>1 DEF IInv, LockInv
    <3>2. CASE rotation.root # Root
      BY <3>2 DEF IInv, LockInv
    <3> QED
      BY <3>1, <3>2
  <2> QED
    BY <2>7, <2>8, <2>9, <2>10, <2>11, <2>12, <2>13, <2>14, <2>15, <2>16 DEF IInv
<1> QED
  BY <1>1, <1>2

(* What the server takes fits: it is sealed under the key the parent has,  *)
(* and for an epoch no newer than the one it is stored at.                 *)
LEMMA TakenFacts ==
    ASSUME IInv, NEW w \in Walkers, walker[w].pc = "walking", NEW i \in walker[w].batch, Taken(w, i)
    PROVE  /\ i.id \in Nodes /\ i.id \in Kept /\ i.id \in There /\ Active
           /\ node[i.id].state = "live" /\ node[i.id].rev = i.rev /\ Fits(w, i)
           /\ walker[w].target <= rotation.target
           /\ i.rotated <=> node[i.id].epoch < rotation.target
           /\ i.id # Root =>
                 /\ node[i.id].parent \in Nodes \ {i.id}
                 /\ node[node[i.id].parent].epoch = i.under
                 /\ node[node[i.id].parent].key = i.wrap
<1> DEFINE n == i.id
           p == node[n].parent
<1>1. /\ n \in Nodes /\ rotation.root = walker[w].root /\ node[n].state = "live"
      /\ node[n].rev = i.rev /\ Fits(w, i)
      /\ i.rotated = (node[n].epoch < rotation.target)
  BY ItemFacts DEF Taken, IInv, ItemsOK
<1>2. n \in Kept /\ n \in There /\ Active
  <2>1. rotation.root \in Nodes
    BY <1>1 DEF IInv, WalkersOK
  <2> QED
    BY <1>1, <2>1, ActiveFacts DEF Kept, There, IInv
<1>3. n # Root => p \in Nodes \ {n} /\ node[p].epoch = i.under
  <2>1. n # Root => p \in Nodes \ {n}
    BY <1>2, ParentFacts DEF IInv
  <2> QED
    BY <2>1 DEF Taken
<1>4. n # Root => node[p].key = i.wrap
  BY <1>1, <1>3 DEF Fits, ParentAsSealed
<1>5. walker[w].target <= rotation.target
  <2>1. walker[w].target \in Nat /\ rotation.target \in Nat
    BY DEF IInv, TypeOK
  <2>2. CASE ~Group \/ rotation.root # Root
    BY <1>2, <2>2 DEF IInv, WalkersOK
  <2>3. CASE Group /\ rotation.root = Root
    <3>1. n # Root
      BY <2>3 DEF Taken
    <3>2. i.under = walker[w].target
      BY <1>1, <2>3, <3>1 DEF Fits
    <3>3. node[p].epoch = walker[w].target /\ p \in Nodes
      BY <1>3, <3>1, <3>2
    <3> QED
      BY <1>2, <2>1, <3>3 DEF IInv, WalkersOK
  <2> QED
    BY <2>2, <2>3
<1> QED
  BY <1>1, <1>2, <1>3, <1>4, <1>5

(* What was sealed for a row is older than what the row becomes. *)
LEMMA SealedStale ==
    ASSUME IInv, NEW n \in Nodes, node[n].state = "live", node'[n].state = "live",
           node'[n].rev = node[n].rev + 1
    PROVE  Staled(n)
<1> SUFFICES ASSUME NEW v \in Walkers, NEW i \in walker[v].batch, i.id = n
             PROVE  i.rev <= node'[n].rev /\ node'[n].rev # i.rev
  BY DEF Staled
<1>1. i.rev \in Nat /\ node[n].rev \in Nat /\ (i.rev > 0 => i.rev <= node[n].rev)
  BY ItemFacts, ItemStale DEF IInv
<1> QED
  BY <1>1

(* A row changes its keys, not its place. *)
LEMMA PlacesKept ==
    ASSUME IInv, NEW n \in Nodes, Alone(n), node'[n].state = node[n].state,
           node'[n].parent = node[n].parent
    PROVE  /\ There' = There /\ Kept' = Kept /\ Up' = Up /\ Shape'
           /\ \A m \in Nodes : Purged(m)' <=> Purged(m)
           /\ \A m \in Nodes : node'[m].state = node[m].state /\ node'[m].parent = node[m].parent
<1>1. \A m \in Nodes : node'[m].state = node[m].state /\ node'[m].parent = node[m].parent
  BY DEF Alone
<1>2. There' = There /\ Kept' = Kept /\ Up' = Up
  BY <1>1 DEF There, Kept, Up
<1>3. Shape'
  BY <1>1, <1>2, RootThere DEF IInv, Shape, There
<1>4. ASSUME NEW m \in Nodes PROVE Purged(m)' <=> Purged(m)
  <2>1. Above(m)' = Above(m) /\ Above(m) \subseteq Nodes
    BY <1>2, AboveFacts DEF IInv, Above
  <2> QED
    BY <1>1, <2>1 DEF Purged
<1> QED
  BY <1>1, <1>2, <1>3, <1>4

(* rotateNodeIn re-keys a node: its key is put aside for its children, its *)
(* new one is known to nobody who was removed.                             *)
LEMMA RotatedStep ==
    ASSUME IInv, NEW w \in Walkers, walker[w].pc = "walking", NEW i \in walker[w].batch, Taken(w, i),
           i.rotated, Rotated(i), SameDevices, TypeOK',
           \A v \in Walkers : walker'[v].pc = walker[v].pc /\ (walker[v] = Idle => walker'[v] = Idle),
           UNCHANGED <<epochSeq, drawn, rotation, early, known>>
    PROVE  IInv'
<1> DEFINE n == i.id
           p == node[n].parent
           t == rotation.target
<1>1. /\ n \in Nodes /\ n \in Kept /\ n \in There /\ Active /\ node[n].state = "live"
      /\ node[n].rev = i.rev /\ Fits(w, i) /\ walker[w].target <= t /\ node[n].epoch < t
      /\ n # Root => p \in Nodes \ {n} /\ node[p].epoch = i.under /\ node[p].key = i.wrap
  BY TakenFacts
<1>2. /\ i.key = KeyAt(n, walker[w].target, w) /\ node[n].epoch < walker[w].target
      /\ i.key.of = n /\ i.key.epoch = walker[w].target /\ i.key.by = w /\ i.key \in Key
      /\ walker[w].target \notin drawn /\ walker[w].target \in Nat
  <2>1. i.key = KeyAt(n, walker[w].target, w) /\ node[n].epoch < walker[w].target
    BY <1>1 DEF Fits
  <2>2. walker[w].target \notin drawn
    BY DEF IInv, WalkersOK
  <2> QED
    BY <2>1, <2>2, KeyFields, ItemFacts DEF IInv
<1>3. /\ t \in Nat /\ t <= epochSeq /\ epochSeq \in Nat /\ t \notin drawn
      /\ node[n].epoch \in Nat /\ node[n].rev \in Nat /\ node[n].rev >= 1
      /\ node[n].key.of = n /\ node[n].prev.epoch \in Nat /\ node[n] \in Row
      /\ node[n].prev.epoch <= node[n].epoch
  BY <1>1, RowFacts DEF IInv, EpochsOK, RowsOK
<1>4. /\ node' = [node EXCEPT ![n].epoch = t, ![n].key = i.key,
                            ![n].under = i.under, ![n].wrap = i.wrap, ![n].rev = @ + 1,
                            ![n].prev = IF @ # NoPrev THEN @
                                        ELSE [epoch |-> node[n].epoch, key |-> node[n].key,
                                              wrap |-> node[n].wrap, parent |-> node[n].parent]]
      /\ node \in [Nodes -> Row]
      /\ grant \in [Nodes -> [state : {"none", "live", "revoked"}, epoch : Nat]]
  BY DEF Rotated, IInv, TypeOK
<1>5. /\ Alone(n)
      /\ node'[n].state = "live" /\ node'[n].parent = p /\ node'[n].epoch = t
      /\ node'[n].key = i.key /\ node'[n].under = i.under /\ node'[n].wrap = i.wrap
      /\ node'[n].rev = node[n].rev + 1
      /\ node'[n].prev = IF node[n].prev # NoPrev THEN node[n].prev
                         ELSE [epoch |-> node[n].epoch, key |-> node[n].key,
                               wrap |-> node[n].wrap, parent |-> p]
  <2> DEFINE aside == IF node[n].prev # NoPrev THEN node[n].prev
                      ELSE [epoch |-> node[n].epoch, key |-> node[n].key,
                            wrap |-> node[n].wrap, parent |-> p]
  <2>1. node' = [node EXCEPT ![n] = [node[n] EXCEPT !.epoch = t, !.key = i.key, !.under = i.under,
                                                    !.wrap = i.wrap, !.rev = @ + 1, !.prev = aside]]
    BY <1>1, <1>3, <1>4 DEF Row
  <2> HIDE DEF aside
  <2>2. /\ Alone(n)
        /\ node'[n].state = "live" /\ node'[n].parent = p /\ node'[n].epoch = t
        /\ node'[n].key = i.key /\ node'[n].under = i.under /\ node'[n].wrap = i.wrap
        /\ node'[n].rev = node[n].rev + 1 /\ node'[n].prev = aside
    <3> DEFINE r == [node[n] EXCEPT !.epoch = t, !.key = i.key, !.under = i.under,
                                    !.wrap = i.wrap, !.rev = @ + 1, !.prev = aside]
    <3>1. /\ r.state = "live" /\ r.parent = p /\ r.epoch = t
          /\ r.key = i.key /\ r.under = i.under /\ r.wrap = i.wrap
          /\ r.rev = node[n].rev + 1 /\ r.prev = aside
      BY <1>1, <1>3 DEF Row
    <3> HIDE DEF r
    <3>2. node' = [node EXCEPT ![n] = r]
      BY <2>1 DEF r
    <3>3. node'[n] = r
      BY <1>1, <1>4, <3>2
    <3>4. Alone(n)
      BY <1>4, <3>2 DEF Alone
    <3> QED
      BY <3>1, <3>3, <3>4
  <2> QED
    BY <2>2 DEF aside
<1>6. /\ cut \subseteq cut'
      /\ n \notin cut' => n \notin cut /\ node[n].prev = NoPrev
  BY DEF Rotated
<1>7. /\ \A m \in Nodes \ {n} : grant'[m] = grant[m]
      /\ grant'[n].state = "live" => grant[n].state = "live" /\ grant'[n].epoch = t
  <2>1. grant' = [grant EXCEPT ![n] =
          IF @.state # "live" THEN @
          ELSE IF i.reseal THEN [@ EXCEPT !.epoch = t] ELSE [@ EXCEPT !.state = "revoked"]]
    BY DEF Rotated
  <2>2. \A m \in Nodes \ {n} : grant'[m] = grant[m]
    BY <1>4, <2>1
  <2>3. grant'[n] = IF grant[n].state # "live" THEN grant[n]
                    ELSE IF i.reseal THEN [grant[n] EXCEPT !.epoch = t]
                    ELSE [grant[n] EXCEPT !.state = "revoked"]
    BY <1>1, <1>4, <2>1
  <2>4. grant[n] \in [state : {"none", "live", "revoked"}, epoch : Nat]
    BY <1>1, <1>4
  <2> QED
    BY <2>2, <2>3, <2>4
<1>8. /\ There' = There /\ Kept' = Kept /\ Shape' /\ Active' = Active
      /\ \A m \in Nodes : Purged(m)' <=> Purged(m)
      /\ \A m \in Nodes : node'[m].state = node[m].state /\ node'[m].parent = node[m].parent
  BY <1>1, <1>5, PlacesKept DEF Active
<1>9. RowsOK'
  BY <1>1, <1>2, <1>3, <1>5 DEF IInv, RowsOK, Alone
<1>10. node'[n].prev.epoch <= node[n].epoch /\ node'[n].prev.epoch \in Nat
  BY <1>3, <1>5
<1>11. EpochsOK'
  <2>1. ASSUME NEW m \in Nodes
        PROVE  /\ node'[m].epoch <= epochSeq /\ node'[m].epoch \notin drawn
               /\ node'[m].key.epoch <= node'[m].epoch /\ node'[m].key.epoch \notin drawn
               /\ node'[m].prev.epoch <= node'[m].epoch
               /\ Active /\ node'[m].prev # NoPrev => node'[m].prev.epoch < t
    <3>1. CASE m = n
      <4>1. node'[m].epoch = t /\ node'[m].key.epoch = walker[w].target
            /\ node'[m].prev.epoch < t /\ node'[m].prev.epoch \in Nat
        BY <1>1, <1>2, <1>3, <1>5, <1>10, <3>1
      <4> QED
        BY <1>1, <1>2, <1>3, <4>1
    <3>2. CASE m # n
      <4>1. node'[m] = node[m]
        BY <1>5, <3>2 DEF Alone
      <4> QED
        BY <4>1 DEF IInv, EpochsOK
    <3> QED
      BY <3>1, <3>2
  <2>2. ASSUME NEW m \in There' \ {Root} PROVE node'[m].under <= node'[node'[m].parent].epoch
    <3>1. m \in There \ {Root} /\ m \in Nodes
      BY <1>8, <2>2 DEF There
    <3>2. node[m].parent \in Nodes /\ node[m].under <= node[node[m].parent].epoch
          /\ node[m].under \in Nat /\ node[m].parent # m
      BY <3>1, ParentFacts, RowFacts DEF IInv, EpochsOK
    <3>3. CASE m = n
      <4>1. node'[p] = node[p] /\ node[p].epoch = i.under /\ node'[m].under = i.under
            /\ node'[m].parent = p /\ i.under \in Nat
        BY <1>1, <1>5, <3>1, <3>3, ItemFacts DEF Alone, IInv
      <4> QED
        BY <4>1
    <3>4. CASE m # n /\ node[m].parent = n
      <4>1. node'[m] = node[m] /\ node'[n].epoch = t
        BY <1>5, <3>1, <3>4 DEF Alone
      <4> QED
        BY <1>1, <1>3, <3>2, <3>4, <4>1
    <3>5. CASE m # n /\ node[m].parent # n
      BY <1>5, <3>1, <3>2, <3>5 DEF Alone
    <3> QED
      BY <3>3, <3>4, <3>5
  <2>3. Active => rotation.root \in Nodes /\ node'[rotation.root].state \in {"live", "gone"}
    BY <1>8 DEF IInv, EpochsOK
  <2>4. /\ rotation'.target <= epochSeq' /\ rotation'.target \notin drawn'
        /\ rotation' = rotation /\ epochSeq' = epochSeq /\ drawn' = drawn
    BY <1>3
  <2> QED
    BY <1>8, <2>1, <2>2, <2>3, <2>4 DEF EpochsOK
<1>12. WalkersOK'
  <2>1. \A v \in Walkers : walker[v].target \in Nat
    BY DEF IInv, TypeOK
  <2>2. \A v \in Walkers : Active /\ walker[v].target > t =>
            \A m \in Nodes : node'[m].epoch # walker[v].target
    BY <1>3, <1>5, <2>1 DEF IInv, WalkersOK, Alone
  <2>3. \A v \in Walkers :
           /\ walker[v].target <= epochSeq /\ walker[v].target \notin drawn
           /\ walker[v].pc # "idle" => walker[v].root \in Nodes
           /\ walker[v].pc = "idle" => walker[v] = Idle
           /\ Active /\ (~Group \/ rotation.root # Root) => walker[v].target <= t
    BY DEF IInv, WalkersOK
  <2>4. \A v \in Walkers :
           /\ walker'[v].target <= epochSeq /\ walker'[v].target \notin drawn
           /\ walker'[v].pc # "idle" => walker'[v].root \in Nodes
           /\ walker'[v].pc = "idle" => walker'[v] = Idle
           /\ Active /\ (~Group \/ rotation.root # Root) => walker'[v].target <= t
           /\ walker'[v].target = walker[v].target
    BY <2>3 DEF SameDevices
  <2> QED
    BY <1>8, <2>2, <2>4 DEF WalkersOK
<1>13. ItemsOK'
  <2>1. Staled(n)
    BY <1>1, <1>5, SealedStale
  <2>2. Rekeyed(n)
    BY <1>1, <1>5 DEF Rekeyed
  <2>3. rotation' = rotation
    OBVIOUS
  <2> QED
    BY <1>1, <1>5, <1>7, <2>1, <2>2, <2>3, ItemsAround
<1>14. GrantsOK'
  <2> SUFFICES ASSUME NEW m \in Nodes, grant'[m].state = "live"
               PROVE  node'[m].state = "live" /\ grant'[m].epoch = node'[m].epoch /\ ~Group
    BY DEF GrantsOK
  <2>1. CASE m = n
    BY <1>5, <1>7, <2>1 DEF IInv, GrantsOK
  <2>2. CASE m # n
    BY <1>5, <1>7, <2>2 DEF IInv, GrantsOK, Alone
  <2> QED
    BY <2>1, <2>2
<1>15. EnvelopesOK'
  <2>1. ASSUME n # Root PROVE EnvelopeOK(n)'
    <3> SUFFICES ASSUME node'[p].state # "gone", n \notin cut', p \notin cut'
                 PROVE  Wrapped(n)' /\ PrevOpens(n)'
      BY <1>5 DEF EnvelopeOK
    <3>1. node'[p] = node[p] /\ n \notin cut /\ p \notin cut /\ node[n].prev = NoPrev
      BY <1>1, <1>5, <1>6, <2>1 DEF Alone
    <3>2. Wrapped(n)
      BY <1>1, <2>1, <3>1 DEF IInv, EnvelopesOK, EnvelopeOK
    <3>3. Wrapped(n)'
      BY <1>1, <1>5, <2>1, <3>1 DEF Wrapped
    <3>4. PrevOpens(n)'
      <4>1. node'[n].prev.parent = p /\ node'[n].prev.wrap = node[n].wrap
        BY <1>5, <3>1
      <4>2. OpenedBy(p, node[n].wrap)
        BY <3>2 DEF Wrapped, OpenedBy
      <4> QED
        BY <1>5, <3>1, <4>1, <4>2 DEF PrevOpens, OpenedBy
    <3> QED
      BY <3>3, <3>4
  <2>2. n \in cut' \/ PutAside(n)
    <3>1. ASSUME n \notin cut' PROVE PutAside(n)
      <4>1. /\ node[n].prev = NoPrev /\ node'[n].prev.key = node[n].key
            /\ node'[n].prev.epoch = node[n].epoch
        BY <1>5, <1>6, <3>1
      <4>2. node'[n].prev # NoPrev
        BY <1>1, <1>3, <4>1, Blanks, RootThere
      <4> QED
        BY <1>1, <4>1, <4>2 DEF PutAside
    <3> QED
      BY <3>1
  <2> QED
    BY <1>1, <1>5, <1>6, <2>1, <2>2, EnvelopesAround
<1>16. KnownOK'
  <2>1. \A m \in Nodes : node'[m].epoch \in Nat /\ node[m].epoch \in Nat /\ node[m].epoch <= node'[m].epoch
    BY <1>1, <1>3, <1>5, RowFacts DEF Alone, IInv
  <2>2. \A k \in Key : k.epoch \in Nat
    BY DEF Key
  <2> QED
    BY <1>8, <2>1, <2>2 DEF IInv, KnownOK
<1>17. LockInv'
  <2>1. ~Knows(n)'
    <3>1. <<n, i.key>> \notin known
      BY <1>1, <1>2, <1>3 DEF IInv, KnownOK
    <3> QED
      BY <1>5, <3>1 DEF Knows
  <2>2. \A m \in Kept \ {n} : m \in Nodes /\ node'[m] = node[m] /\ (Knows(m)' <=> Knows(m))
    BY <1>5 DEF Kept, Alone, Knows
  <2>3. \A m \in Kept : Knows(m)' => Knows(m) /\ node'[m].epoch = node[m].epoch /\ m \in Nodes
    BY <2>1, <2>2
  <2> QED
    BY <1>8, <2>3 DEF IInv, LockInv
<1> QED
  BY <1>8, <1>9, <1>11, <1>12, <1>13, <1>14, <1>15, <1>16, <1>17 DEF IInv

(* rotateNodeIn rewraps a node under its folder's current key.             *)
LEMMA RewrappedStep ==
    ASSUME IInv, NEW w \in Walkers, walker[w].pc = "walking", NEW i \in walker[w].batch, Taken(w, i),
           ~i.rotated, Rewrapped(i), SameDevices, TypeOK',
           \A v \in Walkers : walker'[v].pc = walker[v].pc /\ (walker[v] = Idle => walker'[v] = Idle),
           UNCHANGED <<epochSeq, drawn, rotation, early, known>>
    PROVE  IInv'
<1> DEFINE n == i.id
           p == node[n].parent
<1>1. /\ n \in Nodes /\ n \in Kept /\ n \in There /\ Active /\ node[n].state = "live"
      /\ node[n].rev = i.rev
      /\ n # Root => p \in Nodes \ {n} /\ node[p].epoch = i.under /\ node[p].key = i.wrap
  BY TakenFacts
<1>2. /\ node[n].rev \in Nat /\ node[n].rev >= 1 /\ node[n] \in Row /\ i.under \in Nat
      /\ node \in [Nodes -> Row]
  BY <1>1, RowFacts, ItemFacts DEF IInv, RowsOK, TypeOK
<1>3. /\ Alone(n)
      /\ node'[n].state = "live" /\ node'[n].parent = p /\ node'[n].epoch = node[n].epoch
      /\ node'[n].key = node[n].key /\ node'[n].under = i.under /\ node'[n].wrap = i.wrap
      /\ node'[n].rev = node[n].rev + 1 /\ node'[n].prev = node[n].prev
      /\ grant' = grant /\ cut' = cut
  <2>1. /\ node' = [node EXCEPT ![n].under = i.under, ![n].wrap = i.wrap, ![n].rev = @ + 1]
        /\ grant' = grant /\ cut' = cut
    BY DEF Rewrapped
  <2> QED
    BY <1>1, <1>2, <2>1 DEF Alone, Row
<1>4. /\ There' = There /\ Kept' = Kept /\ Shape' /\ Active' = Active
      /\ \A m \in Nodes : Purged(m)' <=> Purged(m)
      /\ \A m \in Nodes : node'[m].state = node[m].state /\ node'[m].parent = node[m].parent
  BY <1>1, <1>3, PlacesKept DEF Active
<1>5. \A m \in Nodes : /\ node'[m].key = node[m].key /\ node'[m].epoch = node[m].epoch
                       /\ node'[m].prev = node[m].prev
  BY <1>3 DEF Alone
<1>6. RowsOK'
  BY <1>1, <1>2, <1>3 DEF IInv, RowsOK, Alone
<1>7. EpochsOK'
  <2>1. ASSUME NEW m \in Nodes
        PROVE  /\ node'[m].epoch <= epochSeq /\ node'[m].epoch \notin drawn
               /\ node'[m].key.epoch <= node'[m].epoch /\ node'[m].key.epoch \notin drawn
               /\ node'[m].prev.epoch <= node'[m].epoch
               /\ Active /\ node'[m].prev # NoPrev => node'[m].prev.epoch < rotation.target
    <3>1. /\ node'[m].key = node[m].key /\ node'[m].epoch = node[m].epoch
          /\ node'[m].prev = node[m].prev
      BY <1>5
    <3> QED
      BY <3>1 DEF IInv, EpochsOK
  <2>2. ASSUME NEW m \in There' \ {Root} PROVE node'[m].under <= node'[node'[m].parent].epoch
    <3>1. m \in There \ {Root} /\ m \in Nodes
      BY <1>4, <2>2 DEF There
    <3>2. node[m].parent \in Nodes /\ node[m].under <= node[node[m].parent].epoch
      BY <3>1, ParentFacts DEF IInv, EpochsOK
    <3>3. CASE m = n
      <4>1. /\ node'[m].parent = p /\ node'[m].under = i.under /\ node'[p].epoch = node[p].epoch
            /\ node[p].epoch = i.under
        BY <1>1, <1>3, <1>5, <3>1, <3>3
      <4> QED
        BY <1>2, <4>1
    <3>4. CASE m # n
      <4>1. node'[m] = node[m] /\ node'[node[m].parent].epoch = node[node[m].parent].epoch
        BY <1>3, <1>5, <3>1, <3>2, <3>4 DEF Alone
      <4> QED
        BY <3>2, <4>1
    <3> QED
      BY <3>3, <3>4
  <2>3. Active => rotation.root \in Nodes /\ node'[rotation.root].state \in {"live", "gone"}
    BY <1>4 DEF IInv, EpochsOK
  <2>4. /\ rotation'.target <= epochSeq' /\ rotation'.target \notin drawn'
        /\ rotation' = rotation /\ epochSeq' = epochSeq /\ drawn' = drawn
    BY DEF IInv, EpochsOK
  <2> QED
    BY <1>4, <2>1, <2>2, <2>3, <2>4 DEF EpochsOK
<1>8. WalkersOK'
  <2>1. \A v \in Walkers :
           /\ walker'[v].target <= epochSeq /\ walker'[v].target \notin drawn
           /\ walker'[v].pc # "idle" => walker'[v].root \in Nodes
           /\ walker'[v].pc = "idle" => walker'[v] = Idle
           /\ Active /\ (~Group \/ rotation.root # Root) => walker'[v].target <= rotation.target
           /\ walker'[v].target = walker[v].target
    BY DEF IInv, WalkersOK, SameDevices
  <2>2. \A v \in Walkers : Active /\ walker[v].target > rotation.target =>
            \A m \in Nodes : node'[m].epoch # walker[v].target
    BY <1>5 DEF IInv, WalkersOK
  <2> QED
    BY <1>4, <2>1, <2>2 DEF WalkersOK
<1>9. KeyStays(n)
  BY <1>1, <1>3 DEF KeyStays
<1>10. ItemsOK'
  <2>1. Staled(n)
    BY <1>1, <1>3, SealedStale
  <2>2. rotation' = rotation /\ \A m \in Nodes \ {n} : grant'[m] = grant[m]
    BY <1>3
  <2> QED
    BY <1>1, <1>3, <1>9, <2>1, <2>2, ItemsAround
<1>11. GrantsOK'
  BY <1>3, <1>4, <1>5 DEF IInv, GrantsOK
<1>12. EnvelopesOK'
  <2>1. ASSUME n # Root PROVE EnvelopeOK(n)'
    <3> SUFFICES ASSUME node'[p].state # "gone", n \notin cut', p \notin cut'
                 PROVE  Wrapped(n)' /\ PrevOpens(n)'
      BY <1>3 DEF EnvelopeOK
    <3>1. node'[p] = node[p] /\ n \notin cut /\ p \notin cut
      BY <1>1, <1>3, <2>1 DEF Alone
    <3>2. PrevOpens(n)
      BY <1>1, <2>1, <3>1 DEF IInv, EnvelopesOK, EnvelopeOK
    <3>3. Wrapped(n)'
      BY <1>1, <1>3, <2>1, <3>1 DEF Wrapped
    <3>4. PrevOpens(n)'
      BY <1>3, <3>1, <3>2 DEF PrevOpens, OpenedBy
    <3> QED
      BY <3>3, <3>4
  <2>2. cut \subseteq cut'
    BY <1>3
  <2> QED
    BY <1>1, <1>3, <1>9, <2>1, <2>2, EnvelopesAround
<1>13. KnownOK'
  BY <1>4, <1>5 DEF IInv, KnownOK
<1>14. LockInv'
  <2>1. \A m \in Kept : m \in Nodes /\ (Knows(m)' <=> Knows(m)) /\ node'[m].epoch = node[m].epoch
    BY <1>5 DEF Kept, Knows
  <2> QED
    BY <1>4, <2>1 DEF IInv, LockInv
<1> QED
  BY <1>4, <1>6, <1>7, <1>8, <1>10, <1>11, <1>12, <1>13, <1>14 DEF IInv

(* A row re-keyed is a row. *)
LEMMA RowWritten ==
    ASSUME NEW r \in Row, NEW e \in Nat, NEW k \in Key, NEW u \in Nat, NEW x \in Key,
           NEW a \in [epoch : Nat, key : Key, wrap : Key, parent : Nodes \cup {NoNode}]
    PROVE  [r EXCEPT !.epoch = e, !.key = k, !.under = u, !.wrap = x, !.rev = @ + 1, !.prev = a]
               \in Row
<1> DEFINE P == [epoch : Nat, key : Key, wrap : Key, parent : Nodes \cup {NoNode}]
<1>1. Row = [state : {"none", "pending", "live", "gone"}, parent : Nodes \cup {NoNode},
             epoch : Nat, under : Nat, key : Key, wrap : Key, rev : Nat, trashed : BOOLEAN,
             prev : P]
  BY DEF Row
<1>2. a \in P
  OBVIOUS
<1> HIDE DEF P
<1>3. r.rev + 1 \in Nat
  BY <1>1
<1> QED
  BY <1>1, <1>2, <1>3

(* What a step of a batch leaves in every device's hands. *)
LEMMA SendFacts ==
    ASSUME IInv, NEW w \in Walkers, NEW i \in walker[w].batch, Send(w, i)
    PROVE  /\ SameDevices /\ walker[w].pc = "walking"
           /\ walker' \in [Walkers -> [pc : {"idle", "walking", "closing"}, root : Nodes \cup {NoNode},
                                       target : Nat, batch : SUBSET Item]]
           /\ \A v \in Walkers : walker'[v].pc = walker[v].pc
                                 /\ (walker[v] = Idle => walker'[v] = Idle)
<1>1. /\ walker[w].pc = "walking" /\ walker' = [walker EXCEPT ![w].batch = @ \ {i}]
      /\ walker \in [Walkers -> [pc : {"idle", "walking", "closing"}, root : Nodes \cup {NoNode},
                                 target : Nat, batch : SUBSET Item]]
  BY DEF Send, IInv, TypeOK
<1>2. /\ \A v \in Walkers \ {w} : walker'[v] = walker[v]
      /\ walker'[w].pc = walker[w].pc /\ walker'[w].root = walker[w].root
      /\ walker'[w].target = walker[w].target /\ walker'[w].batch = walker[w].batch \ {i}
      /\ walker' \in [Walkers -> [pc : {"idle", "walking", "closing"}, root : Nodes \cup {NoNode},
                                  target : Nat, batch : SUBSET Item]]
  BY <1>1
<1>3. SameDevices
  BY <1>2 DEF SameDevices
<1>4. walker[w] # Idle
  BY <1>1 DEF Idle
<1> QED
  BY <1>1, <1>2, <1>3, <1>4

(* A node of a batch, taken or refused.                                    *)
LEMMA SendStep ==
    ASSUME IInv, NEW w \in Walkers, NEW i \in walker[w].batch, Send(w, i)
    PROVE  IInv'
<1>1. /\ SameDevices /\ walker[w].pc = "walking"
      /\ walker' \in [Walkers -> [pc : {"idle", "walking", "closing"}, root : Nodes \cup {NoNode},
                                  target : Nat, batch : SUBSET Item]]
      /\ \A v \in Walkers : walker'[v].pc = walker[v].pc /\ (walker[v] = Idle => walker'[v] = Idle)
  BY SendFacts
<1>2. UNCHANGED <<epochSeq, drawn, rotation, early, known>>
  BY DEF Send
<1>3. i \in Item /\ i.id \in Nodes /\ i.under \in Nat /\ i.key \in Key /\ i.wrap \in Key
  BY ItemFacts DEF IInv
<1>4. node[i.id] \in Row /\ node \in [Nodes -> Row]
      /\ grant \in [Nodes -> [state : {"none", "live", "revoked"}, epoch : Nat]]
      /\ rotation.target \in Nat
  BY <1>3, RowFacts DEF IInv, TypeOK
<1>5. CASE ~Taken(w, i)
  <2>1. UNCHANGED <<node, grant, cut>>
    BY <1>5 DEF Send
  <2>2. TypeOK'
    BY <1>1, <1>2, <2>1 DEF IInv, TypeOK
  <2>3. /\ Shape' /\ RowsOK' /\ GrantsOK' /\ EnvelopesOK' /\ There' = There /\ Kept' = Kept
        /\ \A n \in Nodes : Purged(n)' <=> Purged(n)
    BY <2>1, StillRows
  <2>4. EpochsOK' /\ Active' = Active
    BY <1>2, <2>1, <2>3 DEF IInv, EpochsOK, Active
  <2>5. WalkersOK'
    <3>1. \A v \in Walkers : /\ walker'[v].target = walker[v].target
                             /\ walker'[v].root = walker[v].root
      BY <1>1 DEF SameDevices
    <3> QED
      BY <1>1, <1>2, <2>1, <2>4, <3>1 DEF IInv, WalkersOK
  <2>6. ItemsOK'
    <3>1. \A v \in Walkers : \A j \in walker'[v].batch : j \in walker[v].batch
      BY <1>1 DEF SameDevices
    <3>2. \A v \in Walkers : /\ walker'[v].root = walker[v].root
                             /\ walker'[v].target = walker[v].target
      BY <1>1 DEF SameDevices
    <3>3. \A v \in Walkers : \A j \in walker[v].batch : Fits(v, j) => Fits(v, j)'
      BY <1>2, <2>1, <3>2, StillFits
    <3> QED
      BY <2>1, <3>1, <3>3 DEF IInv, ItemsOK
  <2>7. KnownOK' /\ LockInv'
    BY <1>2, <2>1, <2>3, <2>4 DEF IInv, KnownOK, LockInv, Knows, Kept
  <2> QED
    BY <2>2, <2>3, <2>4, <2>5, <2>6, <2>7 DEF IInv
<1>6. CASE Taken(w, i) /\ i.rotated
  <2>1. Rotated(i)
    BY <1>6 DEF Send
  <2>2. node' \in [Nodes -> Row]
    <3> DEFINE aside == IF node[i.id].prev # NoPrev THEN node[i.id].prev
                        ELSE [epoch |-> node[i.id].epoch, key |-> node[i.id].key,
                              wrap |-> node[i.id].wrap, parent |-> node[i.id].parent]
               r == [node[i.id] EXCEPT !.epoch = rotation.target, !.key = i.key, !.under = i.under,
                                       !.wrap = i.wrap, !.rev = @ + 1, !.prev = aside]
    <3>1. node' = [node EXCEPT ![i.id] = r]
      BY <1>3, <1>4, <2>1 DEF Rotated, Row
    <3>2. aside \in [epoch : Nat, key : Key, wrap : Key, parent : Nodes \cup {NoNode}]
      BY <1>4 DEF Row
    <3> HIDE DEF aside
    <3>3. r \in Row
      BY <1>3, <1>4, <3>2, RowWritten
    <3> HIDE DEF r
    <3> QED
      BY <1>3, <1>4, <3>1, <3>3
  <2>3. /\ grant' \in [Nodes -> [state : {"none", "live", "revoked"}, epoch : Nat]]
        /\ cut' \subseteq Nodes
    BY <1>3, <1>4, <2>1 DEF Rotated, IInv, TypeOK
  <2>4. TypeOK'
    BY <1>1, <1>2, <2>2, <2>3 DEF IInv, TypeOK
  <2> QED
    BY <1>1, <1>2, <1>6, <2>1, <2>4, RotatedStep
<1>7. CASE Taken(w, i) /\ ~i.rotated
  <2>1. Rewrapped(i)
    BY <1>7 DEF Send
  <2>2. node' \in [Nodes -> Row]
    BY <1>3, <1>4, <2>1 DEF Rewrapped, Row
  <2>3. TypeOK'
    BY <1>1, <1>2, <2>1, <2>2 DEF Rewrapped, IInv, TypeOK
  <2> QED
    BY <1>1, <1>2, <1>7, <2>1, <2>3, RewrappedStep
<1> QED
  BY <1>5, <1>6, <1>7

-----------------------------------------------------------------------------
(* Every step keeps the invariant, so every state of a run has it. *)

(* What people do keeps the invariant.                                     *)
LEMMA EditStep == IInv /\ Edit => IInv'
<1> SUFFICES ASSUME IInv, Edit PROVE IInv'
  OBVIOUS
<1>1. CASE AllocateKeyEpochs
  BY <1>1, AllocateStep
<1>2. CASE \E p, n \in Nodes, e \in drawn :
              Create(p, n, e) \/ BeginUpload(p, n, e) \/ AttachSibling(p, n, e)
  <2>1. PICK p \in Nodes, n \in Nodes, e \in drawn :
            Create(p, n, e) \/ BeginUpload(p, n, e) \/ AttachSibling(p, n, e)
    BY <1>2
  <2>2. CASE Create(p, n, e)
    <3>1. node[n].state = "none" /\ Insert(p, n, e, "live")
      BY <2>2 DEF Create
    <3> QED
      BY <3>1, InsertStep
  <2>3. CASE BeginUpload(p, n, e)
    <3>1. n \notin Folders /\ node[n].state = "none" /\ Insert(p, n, e, "pending")
      BY <2>3 DEF BeginUpload
    <3> QED
      BY <3>1, InsertStep
  <2>4. CASE AttachSibling(p, n, e)
    <3>1. node[n].state = "pending" /\ Insert(p, n, e, "live")
      BY <2>4 DEF AttachSibling
    <3> QED
      BY <3>1, InsertStep
  <2> QED
    BY <2>1, <2>2, <2>3, <2>4
<1>3. CASE \E n \in Nodes : Complete(n) \/ AbortUpload(n)
  BY <1>3, CompleteStep, AbortStep
<1>4. CASE \E n \in Nodes : TrashNode(n) \/ RestoreNode(n)
  <2>1. PICK n \in Nodes : TrashNode(n) \/ RestoreNode(n)
    BY <1>4
  <2>2. node[n].state = "live" /\ (SetTrashed(n, TRUE) \/ SetTrashed(n, FALSE))
    BY <2>1 DEF TrashNode, RestoreNode, Changeable
  <2> QED
    BY <2>2, TrashStep
<1>5. CASE \E n \in Nodes : PurgeNode(n) \/ PurgeDescendant(n)
  <2>1. PICK n \in Nodes : PurgeNode(n) \/ PurgeDescendant(n)
    BY <1>5
  <2>2. n # Root /\ node[n].state \in {"pending", "live"} /\ PurgeOne(n)
    BY <2>1 DEF PurgeNode, PurgeDescendant, Changeable, Kept
  <2> QED
    BY <2>2, PurgeStep
<1>6. CASE \E n \in Nodes : RestoreToRoot(n)
  BY <1>6, RestoreStep
<1>7. CASE \E n \in Nodes : CreateShare(n) \/ RevokeShare(n)
  BY <1>7, ShareStep
<1>8. CASE \E n, d \in Nodes : MoveNode(n, d)
  BY <1>8, MoveStep
<1> QED
  BY <1>1, <1>2, <1>3, <1>4, <1>5, <1>6, <1>7, <1>8 DEF Edit

(* What devices do keeps the invariant.                                    *)
LEMMA WalkStep == ASSUME IInv, NEW w \in Walkers, Walk(w) PROVE IInv'
<1>1. CASE \E r \in Nodes : StartRotation(w, r)
  BY <1>1, StartStep
<1>2. CASE \E t \in drawn : RosterRotation(w, t)
  BY <1>2, RosterStep
<1>3. CASE Resume(w)
  BY <1>3, ResumeStep
<1>4. CASE FinishRotation(w)
  BY <1>4, FinishStep
<1>5. CASE Stop(w)
  BY <1>5, StopStep
<1>6. CASE \E reseal \in BOOLEAN : ListWork(w, reseal)
  BY <1>6, ListStep
<1>7. CASE \E i \in walker[w].batch : Send(w, i)
  BY <1>7, SendStep
<1> QED
  BY <1>1, <1>2, <1>3, <1>4, <1>5, <1>6, <1>7 DEF Walk

(* Every step keeps the invariant.                                         *)
LEMMA StepIInv == IInv /\ [Next]_vars => IInv'
<1> SUFFICES ASSUME IInv, [Next]_vars PROVE IInv'
  OBVIOUS
<1>1. CASE Edit
  BY <1>1, EditStep
<1>2. CASE \E w \in Walkers : Walk(w)
  BY <1>2, WalkStep
<1>3. CASE UNCHANGED vars
  <2>1. /\ UNCHANGED <<node, grant, cut>>
        /\ UNCHANGED <<epochSeq, drawn, rotation, walker, early, known>>
    BY <1>3 DEF vars
  <2>2. TypeOK'
    BY <2>1 DEF IInv, TypeOK
  <2>3. /\ Shape' /\ RowsOK' /\ GrantsOK' /\ EnvelopesOK' /\ There' = There /\ Kept' = Kept
        /\ \A n \in Nodes : Purged(n)' <=> Purged(n)
    BY <2>1, StillRows
  <2>4. EpochsOK' /\ Active' = Active
    BY <2>1, <2>3 DEF IInv, EpochsOK, Active
  <2>5. WalkersOK'
    BY <2>1, <2>4 DEF IInv, WalkersOK
  <2>6. ItemsOK'
    <3>1. \A v \in Walkers : \A i \in walker[v].batch : Fits(v, i) => Fits(v, i)'
      BY <2>1, StillFits
    <3> QED
      BY <2>1, <3>1 DEF IInv, ItemsOK
  <2>7. KnownOK' /\ LockInv'
    BY <2>1, <2>3, <2>4 DEF IInv, KnownOK, LockInv, Knows, Kept
  <2> QED
    BY <2>2, <2>3, <2>4, <2>5, <2>6, <2>7 DEF IInv
<1> QED
  BY <1>1, <1>2, <1>3 DEF Next

(* Every state of every run has the invariant.                             *)
LEMMA Invariance == Spec => []IInv
<1>1. Init => IInv
  BY InitIInv
<1>2. IInv /\ [Next]_vars => IInv'
  BY StepIInv
<1> QED
  BY <1>1, <1>2, PTL DEF Spec

-----------------------------------------------------------------------------
(* What the server stores can be opened: however creations, uploads, moves,*)
(* deletions and shares fall between a device's listing and its batch,     *)
(* whichever of several devices wins a node and wherever each of them      *)
(* stops, every envelope that no finding excepts opens from its folder's   *)
(* key or from the one beside it, and every live grant is sealed under its *)
(* node's current key.                                                     *)
THEOREM EnvelopesAlwaysOpen == Spec => []KeysOpen
<1>1. IInv => KeysOpen
  <2> SUFFICES ASSUME IInv PROVE EnvelopesOpen /\ GrantsOpen
    BY DEF KeysOpen
  <2>1. ASSUME NEW n \in Kept \ {Root}, node[node[n].parent].state # "gone",
               {n, node[n].parent} \cap cut = {}
        PROVE  Opens(n)
    <3>1. n \notin cut /\ node[n].parent \notin cut
      BY <2>1
    <3>2. Wrapped(n) /\ PrevOpens(n)
      BY <2>1, <3>1 DEF IInv, EnvelopesOK, EnvelopeOK
    <3> QED
      BY <3>2 DEF Wrapped, PrevOpens, Opens, OpenedBy
  <2>2. EnvelopesOpen
    BY <2>1 DEF EnvelopesOpen
  <2>3. GrantsOpen
    BY DEF GrantsOpen, IInv, GrantsOK, Kept
  <2> QED
    BY <2>2, <2>3
<1>2. Spec => []IInv
  BY Invariance
<1> QED
  BY <1>1, <1>2, PTL

(* And in an area, whose rows keep their shape. *)
THEOREM AreaEnvelopesOpen == Spec => []AreaKeysOpen
<1>1. IInv => TypeOK
  BY DEF IInv
<1>2. KeysOpen => EnvelopesOpen
  BY DEF KeysOpen
<1>3. TypeOK /\ EnvelopesOpen => AreaKeysOpen
  BY DEF AreaKeysOpen
<1>4. Spec => []KeysOpen
  BY EnvelopesAlwaysOpen
<1>5. Spec => []IInv
  BY Invariance
<1> QED
  BY <1>1, <1>2, <1>3, <1>4, <1>5, PTL

(* Once a group's rotation is over, and none was closed with work left,    *)
(* the removed member can open no key of the area, of what was there and   *)
(* of what came since.                                                     *)
THEOREM RemovedLockedOut == Spec => []LockedOut
<1>1. IInv => LockedOut
  <2> SUFFICES ASSUME IInv, Group, ~Active, ~early, NEW n \in Subtree(Up, Kept, Root) \cap Kept
               PROVE  <<n, node[n].key>> \notin known
    BY DEF LockedOut
  <2>1. n \in Kept /\ n \in There /\ n \in Nodes /\ Root \in Kept /\ Kept \in SUBSET There
    BY RootThere DEF Kept, There, IInv, Shape
  <2>2. Above(n) \subseteq Kept
    <3>1. Hangs(Up, There, Root)
      BY DEF IInv, Shape
    <3>2. Chain(Up, n) \subseteq Kept
      BY <2>1, <3>1, SubtreeOfRoot
    <3>3. Above(n) = Chain(Up, n)
      BY <2>1, AboveFacts DEF IInv
    <3> QED
      BY <3>2, <3>3
  <2>3. ~Purged(n)
    BY <2>2 DEF Purged, Kept
  <2> QED
    BY <2>1, <2>3 DEF IInv, LockInv, Knows
<1>2. Spec => []IInv
  BY Invariance
<1> QED
  BY <1>1, <1>2, PTL

(* No edit touches what a device has in hand.                              *)
LEMMA EditsLeaveWalkers == Edit => walker' = walker
<1> SUFFICES ASSUME Edit PROVE walker' = walker
  OBVIOUS
<1>1. AllocateKeyEpochs => walker' = walker
  BY DEF AllocateKeyEpochs
<1>2. \A p, n \in Nodes, e \in drawn :
         Create(p, n, e) \/ BeginUpload(p, n, e) \/ AttachSibling(p, n, e) => walker' = walker
  BY DEF Create, BeginUpload, AttachSibling, Insert
<1>3. \A n \in Nodes : /\ Complete(n) \/ AbortUpload(n) => walker' = walker
                       /\ TrashNode(n) \/ RestoreNode(n) => walker' = walker
  BY DEF Complete, AbortUpload, TrashNode, RestoreNode, SetTrashed, ForWalks
<1>4. \A n \in Nodes : /\ PurgeNode(n) \/ PurgeDescendant(n) => walker' = walker
                       /\ CreateShare(n) \/ RevokeShare(n) => walker' = walker
  BY DEF PurgeNode, PurgeDescendant, PurgeOne, CreateShare, RevokeShare, ForWalks
<1>5. \A n, d \in Nodes : RestoreToRoot(n) \/ MoveNode(n, d) => walker' = walker
  BY DEF RestoreToRoot, MoveNode, Rehang, ForWalks
<1> QED
  BY <1>1, <1>2, <1>3, <1>4, <1>5 DEF Edit

(* A batch closes only grants its device saw: one made after the device's  *)
(* listing moves the node's change sequence, and the server refuses the    *)
(* batch.                                                                  *)
THEOREM OnlySeenGrantsClosed == Spec => GrantsSeen
<1> DEFINE Seen == \A w \in Walkers : \A i \in walker[w].batch \ walker'[w].batch :
                      grant[i.id].state = "live" /\ grant'[i.id].state = "revoked" => i.saw
<1>1. IInv /\ [Next]_vars => [Seen]_vars
  <2> SUFFICES ASSUME IInv, Next PROVE Seen
    OBVIOUS
  <2>1. CASE Edit
    <3>1. walker' = walker
      BY <2>1, EditsLeaveWalkers
    <3> QED
      BY <3>1
  <2>2. ASSUME NEW w \in Walkers, Walk(w) PROVE Seen
    <3>1. CASE \E i \in walker[w].batch : Send(w, i)
      <4>1. PICK j \in walker[w].batch : Send(w, j)
        BY <3>1
      <4>2. /\ walker[w].pc = "walking" /\ \A v \in Walkers \ {w} : walker'[v] = walker[v]
            /\ walker'[w].batch = walker[w].batch \ {j}
        BY <4>1 DEF Send, IInv, TypeOK
      <4>3. ASSUME grant[j.id].state = "live", grant'[j.id].state = "revoked" PROVE j.saw
        <5>1. Taken(w, j)
          BY <4>1, <4>3 DEF Send
        <5>2. Fits(w, j)
          BY <4>2, <5>1, TakenFacts
        <5> QED
          BY <4>3, <5>2 DEF Fits
      <4> QED
        BY <4>2, <4>3
    <3>2. CASE ~\E i \in walker[w].batch : Send(w, i)
      <4>1. grant' = grant
        BY <2>2, <3>2 DEF Walk, StartRotation, RosterRotation, Resume, FinishRotation, Stop, ListWork
      <4> QED
        BY <4>1
    <3> QED
      BY <3>1, <3>2
  <2> QED
    BY <2>1, <2>2 DEF Next
<1>2. Spec => []IInv
  BY Invariance
<1>3. Spec => [][Seen]_vars
  BY <1>1, <1>2, PTL DEF Spec
<1> QED
  BY <1>3 DEF GrantsSeen

-----------------------------------------------------------------------------
(* A node is re-keyed once in a rotation. *)

(* n is below a deleted node, and nothing from n up to there is at the     *)
(* rotation's target or its root: no batch for n will be taken.            *)
OutOfReach(n) ==
    \E g \in Above(n) :
        /\ node[g].state = "gone"
        /\ \A m \in Above(n) : g \in Above(m) =>
               node[m].epoch < rotation.target /\ m # rotation.root

(* What is at the target is inside the rotation's root ... *)
RekeyedInside == Active => \A n \in There : node[n].epoch = rotation.target => Inside(n)
(* ... and a live node that carries a previous envelope is at the target,  *)
(* or where no walk comes any more.                                        *)
AsideOnce ==
    \A n \in Nodes \ cut : node[n].state = "live" /\ node[n].prev # NoPrev =>
        IF Active THEN OutOfReach(n) \/ node[n].epoch = rotation.target ELSE Purged(n)

(* The top folder is sent for only by who walks from there.                *)
TopFromTop == \A w \in Walkers : \A i \in walker[w].batch : i.id = Root => walker[w].root = Root

OnceInv == RekeyedInside /\ AsideOnce

(* What is out of a walk's reach is purged.                                *)
LEMMA OutPurged == ASSUME NEW n, OutOfReach(n) PROVE Purged(n)
BY DEF OutOfReach, Purged

(* A step that leaves places, epochs and what is put aside alone.          *)
LEMMA OnceQuiet ==
    ASSUME IInv, OnceInv, Up' = Up, rotation' = rotation, cut \subseteq cut',
           \A m \in Nodes :
              /\ node'[m].epoch = node[m].epoch /\ node'[m].prev = node[m].prev
              /\ node[m].state = "gone" => node'[m].state = "gone"
              /\ node'[m].state = "live" /\ node'[m].prev # NoPrev => node[m].state = "live"
              /\ node'[m].state # "none" => node[m].state # "none"
    PROVE  OnceInv'
<1>1. Active' = Active
  BY DEF Active
<1>2. \A m \in Nodes : Above(m)' = Above(m) /\ Above(m) \subseteq Nodes
  BY AboveFacts DEF Above, IInv
<1>3. RekeyedInside'
  BY <1>1, <1>2 DEF OnceInv, RekeyedInside, Inside, There
<1>4. ASSUME NEW n \in Nodes, OutOfReach(n) PROVE OutOfReach(n)'
  <2>1. PICK g \in Above(n) :
            /\ node[g].state = "gone"
            /\ \A m \in Above(n) : g \in Above(m) =>
                   node[m].epoch < rotation.target /\ m # rotation.root
    BY <1>4 DEF OutOfReach
  <2>2. g \in Above(n)' /\ node'[g].state = "gone"
    BY <1>2, <2>1
  <2>3. ASSUME NEW m \in Above(n)', g \in Above(m)'
        PROVE  node'[m].epoch < rotation'.target /\ m # rotation'.root
    <3>1. m \in Above(n) /\ m \in Nodes /\ g \in Above(m)
      BY <1>2, <2>3
    <3> QED
      BY <2>1, <3>1
  <2> QED
    BY <2>2, <2>3 DEF OutOfReach
<1>5. ASSUME NEW n \in Nodes, Purged(n) PROVE Purged(n)'
  BY <1>2, <1>5 DEF Purged
<1>6. AsideOnce'
  <2> SUFFICES ASSUME NEW n \in Nodes \ cut', node'[n].state = "live", node'[n].prev # NoPrev
               PROVE  IF Active THEN OutOfReach(n)' \/ node'[n].epoch = rotation'.target
                                ELSE Purged(n)'
    BY <1>1 DEF AsideOnce
  <2>1. IF Active THEN OutOfReach(n) \/ node[n].epoch = rotation.target ELSE Purged(n)
    BY DEF OnceInv, AsideOnce
  <2> QED
    BY <1>4, <1>5, <2>1
<1> QED
  BY <1>3, <1>6 DEF OnceInv

(* A row that holds nothing comes or goes.                                 *)
LEMMA OnceLeaf ==
    ASSUME IInv, OnceInv, NEW n \in Nodes, NoParentOf(n), Alone(n), rotation' = rotation, cut' = cut,
           node'[n].prev = NoPrev, node'[n].state # "none" => node'[n].epoch # rotation.target
    PROVE  OnceInv'
<1>1. Active' = Active /\ DOMAIN Up = Nodes /\ DOMAIN Up' = Nodes /\ There \subseteq Nodes
  BY DEF Active, Up, There
<1>2. ASSUME NEW m \in There \ {n}
      PROVE  /\ Above(m)' = Above(m) /\ n \notin Above(m) /\ Above(m) \subseteq There \ {n}
  <2>1. m \in Nodes /\ Above(m) = Chain(Up, m) /\ Above(m) \subseteq There
    BY <1>1, AboveFacts DEF IInv
  <2>2. n \notin Chain(Up, m)
    BY Leaf DEF IInv
  <2>3. \A k \in Chain(Up, m) : Up'[k] = Up[k]
    <3> SUFFICES ASSUME NEW k \in Chain(Up, m) PROVE Up'[k] = Up[k]
      OBVIOUS
    <3>1. k \in Nodes \ {n}
      BY <1>1, <2>1, <2>2
    <3> QED
      BY <3>1 DEF Up, Alone
  <2>4. Chain(Up', m) = Chain(Up, m)
    BY <1>1, <2>1, <2>3, ChainAgree
  <2>5. Above(m)' = Chain(Up', m)
    BY <1>1, <2>1, ClimbFacts DEF Above
  <2> QED
    BY <2>1, <2>2, <2>4, <2>5
<1>3. RekeyedInside'
  <2> SUFFICES ASSUME Active, NEW m \in There', node'[m].epoch = rotation.target PROVE Inside(m)'
    BY <1>1 DEF RekeyedInside
  <2>1. m # n /\ m \in Nodes
    BY DEF There
  <2>2. m \in There \ {n} /\ node'[m] = node[m]
    BY <2>1 DEF There, Alone
  <2>3. Inside(m)
    BY <2>2 DEF OnceInv, RekeyedInside
  <2> QED
    BY <1>2, <2>2, <2>3 DEF Inside
<1>4. ASSUME NEW m \in There \ {n}, OutOfReach(m) PROVE OutOfReach(m)'
  <2>1. PICK g \in Above(m) :
            /\ node[g].state = "gone"
            /\ \A k \in Above(m) : g \in Above(k) =>
                   node[k].epoch < rotation.target /\ k # rotation.root
    BY <1>4 DEF OutOfReach
  <2>2. g \in Above(m)' /\ node'[g].state = "gone"
    BY <1>1, <1>2, <2>1 DEF Alone
  <2>3. ASSUME NEW k \in Above(m)', g \in Above(k)'
        PROVE  node'[k].epoch < rotation'.target /\ k # rotation'.root
    <3>1. k \in Above(m) /\ k \in There \ {n} /\ k \in Nodes
      BY <1>1, <1>2, <2>3
    <3>2. g \in Above(k) /\ node'[k] = node[k]
      BY <1>2, <2>3, <3>1 DEF Alone
    <3> QED
      BY <2>1, <3>1, <3>2
  <2> QED
    BY <2>2, <2>3 DEF OutOfReach
<1>5. ASSUME NEW m \in There \ {n}, Purged(m) PROVE Purged(m)'
  <2>1. PICK g \in Above(m) : node[g].state = "gone"
    BY <1>5 DEF Purged
  <2>2. g \in Above(m)' /\ node'[g].state = "gone"
    BY <1>1, <1>2, <2>1 DEF Alone
  <2> QED
    BY <2>2 DEF Purged
<1>6. AsideOnce'
  <2> SUFFICES ASSUME NEW m \in Nodes \ cut', node'[m].state = "live", node'[m].prev # NoPrev
               PROVE  IF Active THEN OutOfReach(m)' \/ node'[m].epoch = rotation'.target
                                ELSE Purged(m)'
    BY <1>1 DEF AsideOnce
  <2>1. m # n /\ node'[m] = node[m] /\ m \in There \ {n}
    BY DEF Alone, There
  <2>2. IF Active THEN OutOfReach(m) \/ node[m].epoch = rotation.target ELSE Purged(m)
    BY <2>1 DEF OnceInv, AsideOnce
  <2> QED
    BY <1>4, <1>5, <2>1, <2>2
<1> QED
  BY <1>3, <1>6 DEF OnceInv

(* startRotation: what was purged stays below what the new root is not.    *)
LEMMA OnceStart ==
    ASSUME IInv, OnceInv, NEW w \in Walkers, NEW r \in Nodes, StartRotation(w, r)
    PROVE  OnceInv'
<1>1. /\ rotation' = [root |-> r, target |-> epochSeq + 1] /\ ~Purged(r) /\ ~Active
      /\ UNCHANGED <<node, cut>> /\ epochSeq \in Nat
  BY DEF StartRotation, IInv, TypeOK
<1>2. rotation'.root = r /\ rotation'.target = epochSeq + 1
  BY <1>1
<1>3. \A m \in Nodes : node[m].epoch < epochSeq + 1
  BY <1>1, RowFacts DEF IInv, EpochsOK
<1>4. There' = There /\ Up' = Up /\ There \subseteq Nodes
  BY <1>1 DEF There, Up
<1>5. \A m \in Nodes : Above(m)' = Above(m) /\ Above(m) \subseteq Nodes
  BY <1>4, AboveFacts DEF Above, IInv
<1>6. RekeyedInside'
  <2> SUFFICES ASSUME NEW m \in There', node'[m].epoch = rotation'.target PROVE FALSE
    BY DEF RekeyedInside
  <2>1. m \in Nodes /\ node[m].epoch = epochSeq + 1
    BY <1>1, <1>2, <1>4
  <2> QED
    BY <1>1, <1>3, <2>1
<1>7. ASSUME NEW n \in Nodes, Purged(n) PROVE OutOfReach(n)'
  <2>1. PICK g \in Above(n) : node[g].state = "gone"
    BY <1>7 DEF Purged
  <2>2. g \in Above(n)' /\ node'[g].state = "gone"
    BY <1>1, <1>5, <2>1
  <2>3. ASSUME NEW m \in Above(n)', g \in Above(m)'
        PROVE  node'[m].epoch < rotation'.target /\ m # rotation'.root
    <3>1. m \in Nodes /\ g \in Above(m)
      BY <1>5, <2>3
    <3>2. m # r
      BY <1>1, <2>1, <3>1 DEF Purged
    <3> QED
      BY <1>1, <1>2, <1>3, <3>1, <3>2
  <2> QED
    BY <2>2, <2>3 DEF OutOfReach
<1>8. AsideOnce'
  <2> SUFFICES ASSUME NEW n \in Nodes \ cut', node'[n].state = "live", node'[n].prev # NoPrev
               PROVE  OutOfReach(n)' /\ Active'
    BY DEF AsideOnce
  <2>1. Purged(n)
    <3>1. n \in Nodes \ cut /\ node[n].state = "live" /\ node[n].prev # NoPrev
      BY <1>1
    <3> QED
      BY <1>1, <3>1 DEF OnceInv, AsideOnce
  <2>2. Active'
    BY <1>2, RootThere DEF Active, NoRotation
  <2> QED
    BY <1>7, <2>1, <2>2
<1> QED
  BY <1>6, <1>8 DEF OnceInv

(* applyRotation: the target is newer than everything, and a rotation gives*)
(* way only when it re-keyed nothing.                                      *)
LEMMA OnceRoster ==
    ASSUME IInv, OnceInv, NEW w \in Walkers, NEW t \in drawn, RosterRotation(w, t)
    PROVE  OnceInv'
<1>1. /\ rotation' = [root |-> Root, target |-> t] /\ UNCHANGED cut
      /\ Active => \A n \in Nodes : node[n].epoch # rotation.target
      /\ node \in [Nodes -> Row] /\ t \in Nat
      /\ \A n \in Nodes : node[n].epoch \in Carried
      /\ \A e \in Carried : e < t
  BY DEF RosterRotation, IInv, TypeOK, Carried
<1>2. rotation'.root = Root /\ rotation'.target = t
  BY <1>1
<1>3. /\ Alone(Root) /\ node'[Root].state = node[Root].state
      /\ node'[Root].parent = node[Root].parent /\ node'[Root].epoch = t
  BY <1>1, RootThere DEF RosterRotation, Alone, Row
<1>4. /\ There' = There /\ Up' = Up /\ There \subseteq Nodes
      /\ \A m \in Nodes : node'[m].state = node[m].state
  BY <1>3, PlacesKept, RootThere DEF There
<1>5. \A m \in Nodes : Above(m)' = Above(m) /\ Above(m) \subseteq Nodes /\ m \in Above(m)
  BY <1>4, AboveFacts DEF Above, IInv
<1>6. \A m \in Nodes \ {Root} : node'[m] = node[m] /\ node[m].epoch < t
  BY <1>1, <1>3 DEF Alone
<1>7. RekeyedInside'
  <2> SUFFICES ASSUME NEW m \in There', node'[m].epoch = rotation'.target PROVE Inside(m)'
    BY DEF RekeyedInside
  <2>1. m \in Nodes /\ node'[m].epoch = t
    BY <1>2, <1>4
  <2>2. m = Root
    <3> SUFFICES ASSUME m # Root PROVE FALSE
      OBVIOUS
    <3>1. node'[m] = node[m] /\ node[m].epoch < t /\ node[m].epoch \in Nat
      BY <1>6, <2>1, RowFacts DEF IInv
    <3> QED
      BY <1>1, <2>1, <3>1
  <2> QED
    BY <1>2, <1>5, <2>1, <2>2 DEF Inside
<1>8. ASSUME NEW n \in Nodes, Purged(n) PROVE OutOfReach(n)'
  <2>1. PICK g \in Above(n) : node[g].state = "gone"
    BY <1>8 DEF Purged
  <2>2. g \in Above(n)' /\ g \in Nodes /\ node'[g].state = "gone"
    BY <1>4, <1>5, <2>1
  <2>3. ASSUME NEW m \in Above(n)', g \in Above(m)'
        PROVE  node'[m].epoch < rotation'.target /\ m # rotation'.root
    <3>1. m \in Nodes /\ g \in Above(m)
      BY <1>5, <2>3
    <3>2. m # Root
      BY <2>1, <3>1, AboveRoot DEF Purged, IInv
    <3> QED
      BY <1>2, <1>6, <3>1, <3>2
  <2> QED
    BY <2>2, <2>3 DEF OutOfReach
<1>9. AsideOnce'
  <2> SUFFICES ASSUME NEW n \in Nodes \ cut', node'[n].state = "live", node'[n].prev # NoPrev
               PROVE  OutOfReach(n)' \/ (node'[n].epoch = rotation'.target /\ Active')
    <3>1. Active'
      BY <1>1, RootThere DEF Active, NoRotation
    <3> QED
      BY <3>1 DEF AsideOnce
  <2>1. CASE n = Root
    <3>1. Active'
      BY <1>1, RootThere DEF Active, NoRotation
    <3> QED
      BY <1>2, <1>3, <2>1, <3>1
  <2>2. CASE n # Root
    <3>1. node'[n] = node[n] /\ n \in Nodes \ cut
      BY <1>1, <1>6, <2>2
    <3>2. IF Active THEN OutOfReach(n) \/ node[n].epoch = rotation.target ELSE Purged(n)
      BY <3>1 DEF OnceInv, AsideOnce
    <3>3. Purged(n)
      BY <1>1, <3>1, <3>2, OutPurged
    <3> QED
      BY <1>8, <3>1, <3>3
  <2> QED
    BY <2>1, <2>2
<1> QED
  BY <1>7, <1>9 DEF OnceInv

(* What a batch re-keys is in reach: its parent is at the target.          *)
LEMMA TakenInReach ==
    ASSUME IInv, NEW w \in Walkers, walker[w].pc = "walking", NEW i \in walker[w].batch,
           Taken(w, i), NEW n \in Nodes, NEW g \in Nodes, node[g].state = "gone",
           i.id \in Above(n), g \in Above(i.id)
    PROVE  \E m \in Above(n) : /\ g \in Above(m)
                               /\ ~(node[m].epoch < rotation.target) \/ m = rotation.root
<1>1. i.id \in Nodes /\ i.id \in There /\ node[i.id].state = "live"
  BY TakenFacts
<1>2. CASE i.id = rotation.root
  BY <1>2
<1>3. CASE i.id # rotation.root
  <2> DEFINE p == node[i.id].parent
  <2>1. i.id # Root
    <3> SUFFICES ASSUME i.id = Root PROVE FALSE
      OBVIOUS
    <3>1. g = Root
      BY AboveRoot DEF IInv
    <3> QED
      BY <1>1, <3>1
  <2>2. Above(i.id) = {i.id} \cup Above(p) /\ p \in Nodes
    BY <1>1, <2>1, AboveParent, ParentFacts DEF IInv
  <2>3. g \in Above(p)
    BY <1>1, <2>2
  <2>4. p \in Above(p) /\ Above(i.id) \subseteq Above(n)
    <3>1. Above(n) = Chain(Up, n) /\ Above(i.id) = Chain(Up, i.id) /\ p \in Above(p)
          /\ DOMAIN Up = Nodes
      BY <1>1, <2>2, AboveFacts DEF IInv, Up
    <3> QED
      BY <3>1, ChainRest
  <2>5. ~(node[p].epoch < rotation.target)
    <3>1. node[p].epoch >= rotation.target
      BY <1>3 DEF Taken
    <3> QED
      BY <2>2, <3>1, RowFacts DEF IInv
  <2> QED
    BY <2>2, <2>3, <2>4, <2>5
<1> QED
  BY <1>2, <1>3

(* rotateNodeIn: a node comes to the target below one that is there.       *)
LEMMA OnceRotated ==
    ASSUME IInv, TopFromTop, OnceInv, NEW w \in Walkers, walker[w].pc = "walking",
           NEW i \in walker[w].batch, Taken(w, i), Rotated(i), rotation' = rotation
    PROVE  OnceInv'
<1> DEFINE n == i.id
           p == node[n].parent
<1>1. /\ n \in Nodes /\ n \in There /\ node[n].state = "live" /\ Fits(w, i) /\ Active
      /\ walker[w].target <= rotation.target /\ rotation.root = walker[w].root
  BY TakenFacts DEF Taken
<1>2. /\ Alone(n) /\ node'[n].state = node[n].state /\ node'[n].parent = node[n].parent
      /\ node'[n].epoch = rotation.target /\ cut \subseteq cut'
  <2>1. node \in [Nodes -> Row]
    BY DEF IInv, TypeOK
  <2>2. Alone(n)
    BY <1>1, <2>1 DEF Rotated, Alone
  <2>3. /\ node'[n].state = node[n].state /\ node'[n].parent = node[n].parent
        /\ node'[n].epoch = rotation.target
    <3> DEFINE aside == IF node[n].prev # NoPrev THEN node[n].prev
                        ELSE [epoch |-> node[n].epoch, key |-> node[n].key,
                              wrap |-> node[n].wrap, parent |-> node[n].parent]
               r == [node[n] EXCEPT !.epoch = rotation.target, !.key = i.key, !.under = i.under,
                                    !.wrap = i.wrap, !.rev = @ + 1, !.prev = aside]
    <3>1. node' = [node EXCEPT ![n] = r] /\ node[n] \in Row
      BY <1>1, <2>1 DEF Rotated, Row
    <3> HIDE DEF aside
    <3>2. r.state = node[n].state /\ r.parent = node[n].parent /\ r.epoch = rotation.target
      BY <3>1 DEF Row
    <3> HIDE DEF r
    <3> QED
      BY <1>1, <2>1, <3>1, <3>2
  <2>4. cut \subseteq cut'
    BY DEF Rotated
  <2> QED
    BY <2>2, <2>3, <2>4
<1>3. /\ There' = There /\ Up' = Up /\ There \subseteq Nodes /\ Active' = Active
      /\ \A m \in Nodes : node'[m].state = node[m].state
  BY <1>1, <1>2, PlacesKept DEF There, Active
<1>4. \A m \in Nodes : Above(m)' = Above(m) /\ Above(m) \subseteq Nodes /\ m \in Above(m)
  BY <1>3, AboveFacts DEF Above, IInv
<1>5. Inside(n)
  <2>1. CASE n = rotation.root
    BY <1>1, <1>4, <2>1 DEF Inside
  <2>2. CASE n # rotation.root
    <3>1. n # Root /\ n # walker[w].root
      BY <1>1, <2>2 DEF TopFromTop
    <3>2. /\ p \in Nodes /\ p \in There /\ Above(n) = {n} \cup Above(p)
      BY <1>1, <3>1, ParentFacts, AboveParent DEF IInv
    <3>3. node[p].epoch >= rotation.target /\ node[p].epoch = walker[w].target
      BY <1>1, <2>2, <3>1 DEF Taken, Fits
    <3>4. node[p].epoch = rotation.target
      BY <1>1, <3>2, <3>3, RowFacts DEF IInv
    <3>5. Inside(p)
      BY <1>1, <3>2, <3>4 DEF OnceInv, RekeyedInside
    <3> QED
      BY <3>2, <3>5 DEF Inside
  <2> QED
    BY <2>1, <2>2
<1>6. RekeyedInside'
  <2> SUFFICES ASSUME NEW m \in There', node'[m].epoch = rotation.target PROVE Inside(m)'
    BY DEF RekeyedInside
  <2>1. m \in Nodes /\ m \in There
    BY <1>3
  <2>2. Inside(m)
    <3>1. CASE m = n
      BY <1>5, <3>1
    <3>2. CASE m # n
      BY <1>1, <1>2, <2>1, <3>2 DEF Alone, OnceInv, RekeyedInside
    <3> QED
      BY <3>1, <3>2
  <2> QED
    BY <1>4, <2>1, <2>2 DEF Inside
<1>7. ASSUME NEW m \in Nodes, OutOfReach(m) PROVE OutOfReach(m)'
  <2>1. PICK g \in Above(m) :
            /\ node[g].state = "gone"
            /\ \A k \in Above(m) : g \in Above(k) =>
                   node[k].epoch < rotation.target /\ k # rotation.root
    BY <1>7 DEF OutOfReach
  <2>2. g \in Above(m)' /\ g \in Nodes /\ node'[g].state = "gone"
    BY <1>3, <1>4, <2>1
  <2>3. ASSUME NEW k \in Above(m)', g \in Above(k)'
        PROVE  node'[k].epoch < rotation'.target /\ k # rotation'.root
    <3>1. k \in Nodes /\ k \in Above(m) /\ g \in Above(k)
      BY <1>4, <2>3
    <3>2. k # n
      BY <2>1, <2>2, <3>1, TakenInReach
    <3> QED
      BY <1>2, <2>1, <3>1, <3>2 DEF Alone
  <2> QED
    BY <2>2, <2>3 DEF OutOfReach
<1>8. AsideOnce'
  <2> SUFFICES ASSUME NEW m \in Nodes \ cut', node'[m].state = "live", node'[m].prev # NoPrev
               PROVE  OutOfReach(m)' \/ node'[m].epoch = rotation'.target
    BY <1>1, <1>3 DEF AsideOnce
  <2>1. CASE m = n
    BY <1>2, <2>1
  <2>2. CASE m # n
    <3>1. node'[m] = node[m] /\ m \in Nodes \ cut
      BY <1>2, <2>2 DEF Alone
    <3>2. OutOfReach(m) \/ node[m].epoch = rotation.target
      BY <1>1, <3>1 DEF OnceInv, AsideOnce
    <3> QED
      BY <1>7, <3>1, <3>2
  <2> QED
    BY <2>1, <2>2
<1> QED
  BY <1>6, <1>8 DEF OnceInv

(* finishRotation: what keeps its previous envelope is below what is gone. *)
LEMMA OnceFinish ==
    ASSUME IInv, OnceInv, NEW w \in Walkers, FinishRotation(w)
    PROVE  OnceInv'
<1>1. CASE rotation.root # walker[w].root
  <2>1. UNCHANGED <<node, rotation, cut>>
    BY <1>1 DEF FinishRotation
  <2>2. Up' = Up
    BY <2>1 DEF Up
  <2> QED
    BY <2>1, <2>2, OnceQuiet
<1>2. CASE rotation.root = walker[w].root
  <2> DEFINE all == Subtree(Up, Kept, rotation.root)
  <2>1. /\ node' = [n \in Nodes |-> IF n \in all THEN [node[n] EXCEPT !.prev = NoPrev] ELSE node[n]]
        /\ rotation' = NoRotation /\ cut \subseteq cut' /\ walker[w].pc = "closing"
        /\ node \in [Nodes -> Row]
    BY <1>2 DEF FinishRotation, IInv, TypeOK
  <2>2. rotation.root \in Nodes /\ Active
    BY <1>2, <2>1, ActiveFacts DEF IInv, WalkersOK
  <2>3. ~Active'
    BY <2>1 DEF Active
  <2>4. \A n \in Nodes : /\ node'[n].parent = node[n].parent /\ node'[n].state = node[n].state
                         /\ n \notin all => node'[n] = node[n]
                         /\ n \in all => node'[n].prev = NoPrev
    BY <2>1 DEF Row
  <2>5. Up' = Up /\ DOMAIN Up = Nodes /\ Kept \in SUBSET Nodes /\ Acyclic(Up)
    <3>1. Up' = Up /\ DOMAIN Up = Nodes
      BY <2>4 DEF Up
    <3>2. Kept \in SUBSET Nodes /\ Acyclic(Up)
      BY DEF Kept, IInv, Shape, Hangs
    <3> QED
      BY <3>1, <3>2
  <2>6. ASSUME NEW n \in Nodes \ cut', node'[n].state = "live", node'[n].prev # NoPrev
        PROVE  Purged(n)'
    <3>1. n \notin all /\ node'[n] = node[n] /\ n \in There /\ n \in Nodes \ cut
      BY <2>1, <2>4, <2>6 DEF There
    <3>2. OutOfReach(n) \/ node[n].epoch = rotation.target
      BY <2>2, <2>6, <3>1 DEF OnceInv, AsideOnce
    <3>3. Above(n) = Chain(Up, n) /\ Above(n) \subseteq There /\ Above(n) \subseteq Nodes
      BY <3>1, AboveFacts DEF IInv
    <3>4. Purged(n)
      <4>1. CASE OutOfReach(n)
        BY <4>1, OutPurged
      <4>2. CASE node[n].epoch = rotation.target
        <5> SUFFICES ASSUME ~Purged(n) PROVE FALSE
          OBVIOUS
        <5>1. rotation.root \in Chain(Up, n)
          BY <2>2, <3>1, <3>3, <4>2 DEF OnceInv, RekeyedInside, Inside
        <5>2. Chain(Up, n) \subseteq Kept
          <6> SUFFICES ASSUME NEW g \in Chain(Up, n) PROVE g \in Kept
            OBVIOUS
          <6>1. g \in Nodes /\ node[g].state # "none" /\ node[g].state # "gone"
            BY <3>3 DEF There, Purged
          <6> QED
            BY <6>1, RowFacts DEF Kept, IInv
        <5>3. n \in all
          BY <2>2, <2>5, <3>1, <5>1, <5>2, SubtreeWithin
        <5> QED
          BY <3>1, <5>3
      <4> QED
        BY <3>2, <4>1, <4>2
    <3>5. PICK g \in Above(n) : node[g].state = "gone"
      BY <3>4 DEF Purged
    <3>6. g \in Above(n)' /\ node'[g].state = "gone"
      BY <2>4, <2>5, <3>3, <3>5 DEF Above
    <3> QED
      BY <3>6 DEF Purged
  <2> QED
    BY <2>3, <2>6 DEF OnceInv, RekeyedInside, AsideOnce
<1> QED
  BY <1>1, <1>2

(* A node that is moved keeps what is below it below it.                   *)
LEMMA StillBelow ==
    ASSUME NEW up, NEW vp, NEW x, NEW p, Moves(up, vp, x, p), NEW n \in DOMAIN up,
           x \in Chain(up, n)
    PROVE  x \in Chain(vp, n)
<1> SUFFICES ASSUME x \notin Chain(vp, n) PROVE FALSE
  OBVIOUS
<1>1. Moves(vp, up, x, up[x]) /\ n \in DOMAIN vp
  BY DEF Moves
<1>2. Chain(up, n) = Chain(vp, n)
  BY <1>1, ChainUnmoved
<1> QED
  BY <1>2

(* moveNode: the rules keep what is at the target inside, and what is out  *)
(* of reach hangs below the moved node by what it hung from before.        *)
LEMMA OnceMove ==
    ASSUME IInv, OnceInv, NEW n \in Nodes, NEW d \in Nodes, MoveNode(n, d)
    PROVE  OnceInv'
<1>1. /\ node[n].state = "live" /\ ~Purged(n) /\ ~Purged(d) /\ n \notin Above(d)
      /\ Active => node[n].prev = NoPrev /\ (Inside(n) => Inside(d))
      /\ cut' = IF node[n].prev = NoPrev THEN cut ELSE cut \cup {n}
      /\ rotation' = rotation /\ node \in [Nodes -> Row]
  BY DEF MoveNode, Changeable, OpenFolder, Rehang, ForWalks, IInv, TypeOK
<1>2. /\ Alone(n) /\ node'[n].state = "live" /\ node'[n].parent = d
      /\ node'[n].epoch = node[n].epoch /\ node'[n].prev = node[n].prev
  BY <1>1 DEF MoveNode, Rehang, Alone, Row
<1>3. /\ DOMAIN Up = Nodes /\ DOMAIN Up' = Nodes /\ Moves(Up, Up', n, d)
      /\ There' = There /\ There \subseteq Nodes /\ Active' = Active /\ cut \subseteq cut'
  <2>1. There' = There /\ There \subseteq Nodes /\ Active' = Active
    BY <1>1, <1>2 DEF There, Alone, Active
  <2>2. DOMAIN Up = Nodes /\ DOMAIN Up' = Nodes /\ Moves(Up, Up', n, d)
    BY <1>2 DEF Moves, Up, Alone
  <2> QED
    BY <1>1, <2>1, <2>2
<1>4. \A m \in Nodes : /\ Above(m) = Chain(Up, m) /\ Above(m)' = Chain(Up', m)
                       /\ Above(m) \subseteq Nodes /\ Above(m)' \subseteq Nodes
  BY <1>3, ClimbFacts DEF Above
<1>5. \A m \in Nodes : /\ node'[m].epoch = node[m].epoch /\ node'[m].prev = node[m].prev
                       /\ node'[m].state = node[m].state
  BY <1>1, <1>2 DEF Alone
<1>6. ASSUME NEW m \in Nodes, n \notin Above(m) PROVE Above(m)' = Above(m)
  BY <1>3, <1>4, <1>6, ChainUnmoved
<1>7. ASSUME NEW m \in Nodes, Active, Inside(m) PROVE Inside(m)'
  <2>1. CASE n \notin Above(m)
    BY <1>1, <1>6, <1>7, <2>1 DEF Inside
  <2>2. CASE n \in Above(m) /\ rotation.root \notin Above(n)
    <3>1. rotation.root \in Chain(Up', m)
      BY <1>3, <1>4, <1>7, <2>2, ChainKept DEF Inside
    <3> QED
      BY <1>1, <1>4, <3>1 DEF Inside
  <2>3. CASE n \in Above(m) /\ rotation.root \in Above(n)
    <3>1. rotation.root \in Above(d)
      BY <1>1, <1>7, <2>3 DEF Inside
    <3>2. rotation.root \in Chain(Up', d)
      BY <1>1, <1>4, <1>6, <3>1
    <3>3. n \in Chain(Up', m)
      BY <1>3, <1>4, <2>3, StillBelow
    <3>4. Chain(Up', n) = {n} \cup Chain(Up', d)
      <4>1. Up'[n] = d
        BY <1>3 DEF Moves
      <4> QED
        BY <1>3, <4>1, ChainStep
    <3>5. Chain(Up', n) \subseteq Chain(Up', m)
      BY <1>3, <3>3, ChainRest
    <3> QED
      BY <1>1, <1>4, <3>2, <3>4, <3>5 DEF Inside
  <2> QED
    BY <2>1, <2>2, <2>3
<1>8. RekeyedInside'
  <2> SUFFICES ASSUME Active, NEW m \in There, node[m].epoch = rotation.target PROVE Inside(m)'
    BY <1>1, <1>3, <1>5 DEF RekeyedInside
  <2>1. Inside(m)
    BY DEF OnceInv, RekeyedInside
  <2> QED
    BY <1>3, <1>7, <2>1
<1>9. ASSUME NEW m \in Nodes, NEW g \in Above(m), node[g].state = "gone"
      PROVE  /\ g \in Above(m)'
             /\ \A k \in Above(m)' : g \in Above(k)' => k \in Above(m) /\ g \in Above(k)
  <2>1. g \notin Above(n) /\ g \notin Above(d) /\ g \in Nodes
    BY <1>1, <1>4, <1>9 DEF Purged
  <2>2. CASE n \notin Above(m)
    <3>1. Above(m)' = Above(m)
      BY <1>6, <2>2
    <3>2. ASSUME NEW k \in Above(m) PROVE Above(k)' = Above(k)
      <4>1. k \in Nodes /\ Chain(Up, k) \subseteq Chain(Up, m)
        BY <1>3, <1>4, <3>2, ChainRest
      <4> QED
        BY <1>4, <1>6, <2>2, <4>1
    <3> QED
      BY <3>1, <3>2
  <2>3. CASE n \in Above(m)
    <3>1. g \in Above(m)'
      BY <1>3, <1>4, <2>1, <2>3, ChainKept
    <3>2. ASSUME NEW k \in Above(m)', g \in Above(k)' PROVE k \in Above(m) /\ g \in Above(k)
      <4>1. k \in Nodes /\ n \notin Chain(Up, d)
        BY <1>1, <1>4, <3>2
      <4>2. k \notin Chain(Up, d)
        <5> SUFFICES ASSUME k \in Chain(Up, d) PROVE FALSE
          OBVIOUS
        <5>1. Chain(Up, k) \subseteq Chain(Up, d)
          BY <1>3, ChainRest
        <5>2. Above(k)' = Above(k)
          BY <1>4, <1>6, <4>1, <5>1
        <5> QED
          BY <1>4, <2>1, <3>2, <4>1, <5>1, <5>2
      <4>3. k \in Chain(Up, m) /\ n \in Chain(Up, k)
        BY <1>3, <1>4, <2>3, <3>2, <4>2, ChainMoved
      <4>4. g \in Chain(Up, k)
        BY <1>3, <1>4, <2>1, <3>2, <4>1, <4>3, ChainMoved
      <4> QED
        BY <1>4, <4>1, <4>3, <4>4
    <3> QED
      BY <3>1, <3>2
  <2> QED
    BY <2>2, <2>3
<1>10. ASSUME NEW m \in Nodes, OutOfReach(m) PROVE OutOfReach(m)'
  <2>1. PICK g \in Above(m) :
            /\ node[g].state = "gone"
            /\ \A k \in Above(m) : g \in Above(k) =>
                   node[k].epoch < rotation.target /\ k # rotation.root
    BY <1>10 DEF OutOfReach
  <2>2. /\ g \in Above(m)' /\ node'[g].state = "gone"
        /\ \A k \in Above(m)' : g \in Above(k)' => k \in Above(m) /\ g \in Above(k)
    BY <1>4, <1>5, <1>9, <2>1
  <2>3. ASSUME NEW k \in Above(m)', g \in Above(k)'
        PROVE  node'[k].epoch < rotation'.target /\ k # rotation'.root
    <3>1. k \in Nodes /\ k \in Above(m) /\ g \in Above(k)
      BY <1>4, <2>2, <2>3
    <3> QED
      BY <1>1, <1>5, <2>1, <3>1
  <2> QED
    BY <2>2, <2>3 DEF OutOfReach
<1>11. ASSUME NEW m \in Nodes, Purged(m) PROVE Purged(m)'
  <2>1. PICK g \in Above(m) : node[g].state = "gone"
    BY <1>11 DEF Purged
  <2>2. g \in Above(m)' /\ node'[g].state = "gone"
    BY <1>4, <1>5, <1>9, <2>1
  <2> QED
    BY <2>2 DEF Purged
<1>12. AsideOnce'
  <2> SUFFICES ASSUME NEW m \in Nodes \ cut', node'[m].state = "live", node'[m].prev # NoPrev
               PROVE  IF Active THEN OutOfReach(m)' \/ node'[m].epoch = rotation'.target
                                ELSE Purged(m)'
    BY <1>3 DEF AsideOnce
  <2>1. m \in Nodes \ cut /\ node[m].state = "live" /\ node[m].prev # NoPrev
    BY <1>3, <1>5
  <2>2. IF Active THEN OutOfReach(m) \/ node[m].epoch = rotation.target ELSE Purged(m)
    BY <2>1 DEF OnceInv, AsideOnce
  <2> QED
    BY <1>1, <1>5, <1>10, <1>11, <2>1, <2>2
<1> QED
  BY <1>8, <1>12 DEF OnceInv

(* What people do, but for restoring to the top.                           *)
LEMMA OnceEdit == ASSUME "restore" \notin Edits, IInv, OnceInv, Edit PROVE OnceInv'
<1>1. CASE AllocateKeyEpochs
  <2>1. UNCHANGED <<node, rotation, cut>>
    BY <1>1 DEF AllocateKeyEpochs
  <2>2. Up' = Up
    BY <2>1 DEF Up
  <2> QED
    BY <2>1, <2>2, OnceQuiet
<1>2. CASE \E p, n \in Nodes, e \in drawn :
              Create(p, n, e) \/ BeginUpload(p, n, e) \/ AttachSibling(p, n, e)
  <2>1. PICK p \in Nodes, n \in Nodes, e \in drawn :
            Create(p, n, e) \/ BeginUpload(p, n, e) \/ AttachSibling(p, n, e)
    BY <1>2
  <2>2. /\ node[n].state \in {"none", "pending"}
        /\ \E state \in {"live", "pending"} : Insert(p, n, e, state)
    BY <2>1 DEF Create, BeginUpload, AttachSibling
  <2>3. PICK state \in {"live", "pending"} : Insert(p, n, e, state)
    BY <2>2
  <2>4. /\ Alone(n) /\ rotation' = rotation /\ cut' = cut
        /\ node'[n].prev = NoPrev /\ node'[n].epoch = e
    BY <2>3, Blanks DEF Insert, Alone, IInv, TypeOK, Row, NoRow
  <2>5. e # rotation.target
    BY DEF IInv, EpochsOK
  <2>6. NoParentOf(n)
    BY <2>2, NothingInside DEF IInv
  <2> QED
    BY <2>4, <2>5, <2>6, OnceLeaf
<1>3. CASE \E n \in Nodes : AbortUpload(n)
  <2>1. PICK n \in Nodes : AbortUpload(n)
    BY <1>3
  <2>2. /\ Alone(n) /\ rotation' = rotation /\ cut' = cut
        /\ node'[n].prev = NoPrev /\ node'[n].state = "none" /\ node[n].state = "pending"
    BY <2>1, Blanks DEF AbortUpload, Alone, ForWalks, IInv, TypeOK
  <2>3. NoParentOf(n)
    BY <2>2, NothingInside DEF IInv
  <2> QED
    BY <2>2, <2>3, OnceLeaf
<1>4. CASE \E n \in Nodes : \/ Complete(n) \/ TrashNode(n) \/ RestoreNode(n)
                            \/ PurgeNode(n) \/ PurgeDescendant(n)
                            \/ CreateShare(n) \/ RevokeShare(n)
  <2>1. PICK n \in Nodes : \/ Complete(n) \/ TrashNode(n) \/ RestoreNode(n)
                           \/ PurgeNode(n) \/ PurgeDescendant(n)
                           \/ CreateShare(n) \/ RevokeShare(n)
    BY <1>4
  <2>2. UNCHANGED <<rotation, cut>> /\ node \in [Nodes -> Row]
    BY <2>1 DEF Complete, TrashNode, RestoreNode, SetTrashed, PurgeNode, PurgeDescendant, PurgeOne,
                CreateShare, RevokeShare, ForWalks, IInv, TypeOK
  <2>3. CASE Complete(n)
    <3>1. /\ node[n].state = "pending" /\ Alone(n) /\ node'[n].parent = node[n].parent
          /\ node'[n].epoch = node[n].epoch /\ node'[n].prev = node[n].prev
          /\ node[n].prev = NoPrev
      BY <2>2, <2>3 DEF Complete, Alone, Row, IInv, RowsOK
    <3>2. Up' = Up
      BY <3>1 DEF Up, Alone
    <3> QED
      BY <2>2, <3>1, <3>2, OnceQuiet DEF Alone
  <2>4. CASE \E trashed \in BOOLEAN : node[n].state = "live" /\ SetTrashed(n, trashed)
    <3>1. /\ Alone(n) /\ node'[n].parent = node[n].parent /\ node'[n].state = node[n].state
          /\ node'[n].epoch = node[n].epoch /\ node'[n].prev = node[n].prev
      BY <2>2, <2>4 DEF SetTrashed, Alone, Row
    <3>2. Up' = Up
      BY <3>1 DEF Up, Alone
    <3> QED
      BY <2>2, <3>1, <3>2, OnceQuiet DEF Alone
  <2>5. CASE node[n].state \in {"pending", "live"} /\ PurgeOne(n)
    <3>1. /\ Alone(n) /\ node'[n].parent = node[n].parent /\ node'[n].state = "gone"
          /\ node'[n].epoch = node[n].epoch /\ node'[n].prev = node[n].prev
      BY <2>2, <2>5 DEF PurgeOne, Alone, Row
    <3>2. Up' = Up
      BY <3>1 DEF Up, Alone
    <3> QED
      BY <2>2, <2>5, <3>1, <3>2, OnceQuiet DEF Alone
  <2>6. CASE CreateShare(n)
    <3>1. /\ Alone(n) /\ node'[n].parent = node[n].parent /\ node'[n].state = node[n].state
          /\ node'[n].epoch = node[n].epoch /\ node'[n].prev = node[n].prev
      BY <2>2, <2>6 DEF CreateShare, Alone, Row
    <3>2. Up' = Up
      BY <3>1 DEF Up, Alone
    <3> QED
      BY <2>2, <3>1, <3>2, OnceQuiet DEF Alone
  <2>7. CASE RevokeShare(n)
    <3>1. node' = node /\ Up' = Up
      BY <2>7 DEF RevokeShare, Up
    <3> QED
      BY <2>2, <3>1, OnceQuiet
  <2>8. /\ TrashNode(n) \/ RestoreNode(n) =>
              \E trashed \in BOOLEAN : node[n].state = "live" /\ SetTrashed(n, trashed)
        /\ PurgeNode(n) \/ PurgeDescendant(n) => node[n].state \in {"pending", "live"} /\ PurgeOne(n)
    BY DEF TrashNode, RestoreNode, PurgeNode, PurgeDescendant, Changeable, Kept
  <2> QED
    BY <2>1, <2>3, <2>4, <2>5, <2>6, <2>7, <2>8
<1>5. CASE \E n, d \in Nodes : MoveNode(n, d)
  BY <1>5, OnceMove
<1> QED
  BY <1>1, <1>2, <1>3, <1>4, <1>5 DEF Edit

(* What devices do.                                                        *)
LEMMA OnceWalk ==
    ASSUME IInv, TopFromTop, OnceInv, NEW w \in Walkers, Walk(w)
    PROVE  OnceInv'
<1>1. CASE \E r \in Nodes : StartRotation(w, r)
  BY <1>1, OnceStart
<1>2. CASE \E t \in drawn : RosterRotation(w, t)
  BY <1>2, OnceRoster
<1>3. CASE FinishRotation(w)
  BY <1>3, OnceFinish
<1>4. CASE UNCHANGED <<node, rotation, cut>>
  <2>1. Up' = Up
    BY <1>4 DEF Up
  <2> QED
    BY <1>4, <2>1, OnceQuiet
<1>5. CASE \E i \in walker[w].batch : Send(w, i)
  <2>1. PICK i \in walker[w].batch : Send(w, i)
    BY <1>5
  <2>2. rotation' = rotation /\ walker[w].pc = "walking"
    BY <2>1 DEF Send
  <2>3. CASE ~Taken(w, i)
    BY <1>4, <2>1, <2>2, <2>3 DEF Send
  <2>4. CASE Taken(w, i) /\ i.rotated
    <3>1. Rotated(i)
      BY <2>1, <2>4 DEF Send
    <3> QED
      BY <2>2, <2>4, <3>1, OnceRotated
  <2>5. CASE Taken(w, i) /\ ~i.rotated
    <3>1. Rewrapped(i) /\ i.id \in Nodes /\ node \in [Nodes -> Row]
      BY <2>1, <2>5, ItemFacts DEF Send, IInv, TypeOK
    <3>2. /\ Alone(i.id) /\ node'[i.id].parent = node[i.id].parent /\ cut' = cut
          /\ node'[i.id].state = node[i.id].state
          /\ node'[i.id].epoch = node[i.id].epoch /\ node'[i.id].prev = node[i.id].prev
      BY <3>1 DEF Rewrapped, Alone, Row
    <3>3. Up' = Up
      BY <3>2 DEF Up, Alone
    <3> QED
      BY <2>2, <3>1, <3>2, <3>3, OnceQuiet DEF Alone
  <2> QED
    BY <2>3, <2>4, <2>5
<1>6. Resume(w) \/ Stop(w) \/ (\E reseal \in BOOLEAN : ListWork(w, reseal)) =>
          UNCHANGED <<node, rotation, cut>>
  BY DEF Resume, Stop, ListWork
<1> QED
  BY <1>1, <1>2, <1>3, <1>4, <1>5, <1>6 DEF Walk

(* Every batch that names the top folder is listed from there.             *)
LEMMA TopStep == IInv /\ TopFromTop /\ [Next]_vars => TopFromTop'
<1> SUFFICES ASSUME IInv, TopFromTop, [Next]_vars PROVE TopFromTop'
  OBVIOUS
<1>1. CASE walker' = walker
  BY <1>1 DEF TopFromTop
<1>2. ASSUME NEW w \in Walkers, Walk(w) PROVE TopFromTop'
  <2>1. walker \in [Walkers -> [pc : {"idle", "walking", "closing"}, root : Nodes \cup {NoNode},
                                target : Nat, batch : SUBSET Item]]
    BY DEF IInv, TypeOK
  <2>2. CASE \A v \in Walkers : /\ walker'[v].batch \subseteq walker[v].batch
                                /\ walker'[v].batch = {} \/ walker'[v].root = walker[v].root
    BY <2>2 DEF TopFromTop
  <2>3. CASE \E i \in walker[w].batch : Send(w, i)
    <3>1. PICK i \in walker[w].batch : Send(w, i)
      BY <2>3
    <3>2. SameDevices
      BY <3>1, SendFacts
    <3> QED
      BY <2>2, <3>2 DEF SameDevices
  <2>4. CASE \E reseal \in BOOLEAN : ListWork(w, reseal)
    <3>1. PICK reseal \in BOOLEAN : ListWork(w, reseal)
      BY <2>4
    <3>2. CASE Work = {}
      <4>1. walker' = [walker EXCEPT ![w].pc = "closing"]
        BY <3>1, <3>2 DEF ListWork
      <4> QED
        BY <2>1, <2>2, <4>1
    <3>3. CASE Work # {}
      <4>1. /\ walker' = [walker EXCEPT ![w].batch = {Sealed(w, n, reseal) : n \in Ready}]
            /\ rotation.root = walker[w].root /\ walker[w].pc = "walking"
        BY <3>1, <3>3 DEF ListWork
      <4>2. /\ \A v \in Walkers \ {w} : walker'[v] = walker[v]
            /\ walker'[w].root = walker[w].root
            /\ walker'[w].batch = {Sealed(w, n, reseal) : n \in Ready}
        BY <2>1, <4>1
      <4>3. ASSUME Root \in Ready PROVE rotation.root = Root
        <5>1. rotation.root \in Nodes /\ DOMAIN Up = Nodes /\ Kept \in SUBSET Nodes
          BY <4>1 DEF IInv, WalkersOK, Up, Kept
        <5>2. Root \in Subtree(Up, Kept, rotation.root)
          BY <4>3 DEF Ready, Work
        <5>3. rotation.root \in Chain(Up, Root)
          BY <5>1, <5>2, SubtreeAbove
        <5>4. Chain(Up, Root) = {Root}
          BY AboveRoot, AboveFacts, RootThere DEF IInv
        <5> QED
          BY <5>3, <5>4
      <4>4. ASSUME NEW i \in walker'[w].batch, i.id = Root PROVE walker'[w].root = Root
        <5>1. PICK n \in Ready : i = Sealed(w, n, reseal)
          BY <4>2, <4>4
        <5>2. n = Root
          BY <4>4, <5>1 DEF Sealed
        <5> QED
          BY <4>1, <4>2, <4>3, <5>1, <5>2
      <4> QED
        BY <4>2, <4>4 DEF TopFromTop
    <3> QED
      BY <3>2, <3>3
  <2>5. CASE \/ \E r \in Nodes : StartRotation(w, r)
             \/ \E t \in drawn : RosterRotation(w, t)
             \/ Resume(w) \/ Stop(w)
    <3>1. /\ \A v \in Walkers \ {w} : walker'[v] = walker[v]
          /\ walker'[w].batch = {}
      <4>1. CASE \E r \in Nodes : StartRotation(w, r)
        BY <2>1, <4>1 DEF StartRotation, Idle
      <4>2. CASE \E t \in drawn : RosterRotation(w, t)
        BY <2>1, <4>2 DEF RosterRotation, Idle
      <4>3. CASE Resume(w)
        BY <2>1, <4>3 DEF Resume, Idle
      <4>4. CASE Stop(w)
        BY <2>1, <4>4 DEF Stop, Idle
      <4> QED
        BY <2>5, <4>1, <4>2, <4>3, <4>4
    <3>2. \A v \in Walkers : /\ walker'[v].batch \subseteq walker[v].batch
                             /\ walker'[v].batch = {} \/ walker'[v].root = walker[v].root
      BY <3>1
    <3> QED
      BY <2>2, <3>2
  <2>6. CASE FinishRotation(w)
    <3>1. /\ \A v \in Walkers \ {w} : walker'[v] = walker[v]
          /\ \/ walker'[w].batch = {}
             \/ walker'[w].batch = walker[w].batch /\ walker'[w].root = walker[w].root
      BY <2>1, <2>6 DEF FinishRotation, Idle
    <3>2. \A v \in Walkers : /\ walker'[v].batch \subseteq walker[v].batch
                             /\ walker'[v].batch = {} \/ walker'[v].root = walker[v].root
      BY <3>1
    <3> QED
      BY <2>2, <3>2
  <2> QED
    BY <1>2, <2>3, <2>4, <2>5, <2>6 DEF Walk
<1>3. Edit => walker' = walker
  BY EditsLeaveWalkers
<1>4. UNCHANGED vars => walker' = walker
  BY DEF vars
<1> QED
  BY <1>1, <1>2, <1>3, <1>4 DEF Next

(* No edit re-keys a row that carries a previous envelope.                 *)
LEMMA EditsKeepAside ==
    ASSUME IInv, Edit, NEW n \in Nodes, node[n].prev # NoPrev
    PROVE  node'[n].epoch = node[n].epoch
<1>1. node \in [Nodes -> Row] /\ node[n].state \notin {"none", "pending"}
  BY Blanks DEF IInv, TypeOK, RowsOK
<1>2. CASE AllocateKeyEpochs
  BY <1>2 DEF AllocateKeyEpochs
<1>3. CASE \E p, m \in Nodes, e \in drawn :
              Create(p, m, e) \/ BeginUpload(p, m, e) \/ AttachSibling(p, m, e)
  BY <1>1, <1>3 DEF Create, BeginUpload, AttachSibling, Insert
<1>4. CASE \E m \in Nodes : Complete(m) \/ AbortUpload(m)
  BY <1>1, <1>4 DEF Complete, AbortUpload, Row
<1>5. CASE \E m \in Nodes : TrashNode(m) \/ RestoreNode(m)
  BY <1>1, <1>5 DEF TrashNode, RestoreNode, SetTrashed, Row
<1>6. CASE \E m \in Nodes : PurgeNode(m) \/ PurgeDescendant(m)
  BY <1>1, <1>6 DEF PurgeNode, PurgeDescendant, PurgeOne, Row
<1>7. CASE \E m \in Nodes : CreateShare(m) \/ RevokeShare(m)
  BY <1>1, <1>7 DEF CreateShare, RevokeShare, Row
<1>8. CASE \E m, d \in Nodes : RestoreToRoot(m) \/ MoveNode(m, d)
  BY <1>1, <1>8 DEF RestoreToRoot, MoveNode, Rehang, Row
<1> QED
  BY <1>2, <1>3, <1>4, <1>5, <1>6, <1>7, <1>8 DEF Edit

(* Without restores to the top, no node is re-keyed while it carries a     *)
(* previous envelope, whatever people move, delete and upload under a walk,*)
(* however many devices walk and whatever roster replaces a rotation: at   *)
(* the target, inside the root, or below what is gone is where a node that *)
(* carries one can be, and finishRotation clears the second.  (A node in   *)
(* `cut` lost an earlier key by a path the findings name.)                 *)
THEOREM KeyedOnce == ASSUME "restore" \notin Edits PROVE Spec => KeyedOncePerRotation
<1> DEFINE Once == \A n \in Nodes :
              node[n].prev # NoPrev /\ node'[n].epoch > node[n].epoch => n \in cut
           All == IInv /\ TopFromTop /\ OnceInv
<1>1. Init => All
  <2> SUFFICES ASSUME Init PROVE All
    OBVIOUS
  <2>1. IInv
    BY InitIInv
  <2>2. \A n \in Nodes : node[n].prev = NoPrev
    BY Blanks DEF Init, NoRow
  <2>3. ~Active /\ TopFromTop
    BY DEF Init, Active, TopFromTop, Idle
  <2> QED
    BY <2>1, <2>2, <2>3 DEF OnceInv, RekeyedInside, AsideOnce
<1>2. All /\ [Next]_vars => All'
  <2> SUFFICES ASSUME All, [Next]_vars PROVE All'
    OBVIOUS
  <2>1. IInv' /\ TopFromTop'
    BY StepIInv, TopStep
  <2>2. CASE Edit
    BY <2>1, <2>2, OnceEdit
  <2>3. CASE \E w \in Walkers : Walk(w)
    BY <2>1, <2>3, OnceWalk
  <2>4. CASE UNCHANGED vars
    <3>1. UNCHANGED <<node, rotation, cut>>
      BY <2>4 DEF vars
    <3>2. Up' = Up
      BY <3>1 DEF Up
    <3> QED
      BY <2>1, <3>1, <3>2, OnceQuiet
  <2> QED
    BY <2>2, <2>3, <2>4 DEF Next
<1>3. All /\ [Next]_vars => [Once]_vars
  <2> SUFFICES ASSUME All, Next, NEW n \in Nodes, node[n].prev # NoPrev,
                      node'[n].epoch > node[n].epoch, n \notin cut
               PROVE  FALSE
    OBVIOUS
  <2>1. node[n].epoch \in Nat /\ node \in [Nodes -> Row]
    BY RowFacts DEF IInv, TypeOK
  <2>2. node'[n].epoch # node[n].epoch
    BY <2>1
  <2>3. CASE Edit
    BY <2>2, <2>3, EditsKeepAside
  <2>4. ASSUME NEW w \in Walkers, Walk(w) PROVE FALSE
    <3>1. CASE \E t \in drawn : RosterRotation(w, t)
      <4>1. node[Root].prev = NoPrev /\ \A m \in Nodes \ {Root} : node'[m] = node[m]
        BY <2>1, <3>1 DEF RosterRotation
      <4> QED
        BY <2>2, <4>1
    <3>2. CASE FinishRotation(w)
      <4>1. node'[n].epoch = node[n].epoch
        BY <2>1, <3>2 DEF FinishRotation, Row
      <4> QED
        BY <2>2, <4>1
    <3>3. CASE \E i \in walker[w].batch : Send(w, i)
      <4>1. PICK i \in walker[w].batch : Send(w, i)
        BY <3>3
      <4>2. i.id \in Nodes /\ walker[w].pc = "walking"
        BY <4>1, ItemFacts DEF Send, IInv
      <4>3. Taken(w, i) /\ i.rotated /\ n = i.id
        <5>1. CASE ~Taken(w, i)
          BY <2>2, <4>1, <5>1 DEF Send
        <5>2. CASE Taken(w, i) /\ ~i.rotated
          <6>1. Rewrapped(i)
            BY <4>1, <5>2 DEF Send
          <6>2. node'[n].epoch = node[n].epoch
            BY <2>1, <4>2, <6>1 DEF Rewrapped, Row
          <6> QED
            BY <2>2, <6>2
        <5>3. CASE Taken(w, i) /\ i.rotated
          <6>1. Rotated(i)
            BY <4>1, <5>3 DEF Send
          <6>2. \A m \in Nodes \ {i.id} : node'[m] = node[m]
            BY <2>1, <4>2, <6>1 DEF Rotated
          <6> QED
            BY <2>2, <5>3, <6>2
        <5> QED
          BY <5>1, <5>2, <5>3
      <4>4. Active /\ node[n].state = "live" /\ node[n].epoch < rotation.target
        BY <4>2, <4>3, TakenFacts
      <4>5. OutOfReach(n)
        <5>1. rotation.target \in Nat
          BY RowFacts DEF IInv
        <5>2. OutOfReach(n) \/ node[n].epoch = rotation.target
          BY <4>4 DEF OnceInv, AsideOnce
        <5> QED
          BY <2>1, <4>4, <5>1, <5>2
      <4>6. PICK g \in Above(n) :
                /\ node[g].state = "gone"
                /\ \A m \in Above(n) : g \in Above(m) =>
                       node[m].epoch < rotation.target /\ m # rotation.root
        BY <4>5 DEF OutOfReach
      <4>7. n \in Above(n) /\ g \in Nodes
        BY AboveFacts DEF IInv
      <4> QED
        BY <4>2, <4>3, <4>6, <4>7, TakenInReach
    <3>4. CASE UNCHANGED node
      BY <2>2, <3>4
    <3>5. \/ \E r \in Nodes : StartRotation(w, r)
          \/ Resume(w) \/ Stop(w) \/ (\E reseal \in BOOLEAN : ListWork(w, reseal))
          => UNCHANGED node
      BY DEF StartRotation, Resume, Stop, ListWork
    <3> QED
      BY <2>4, <3>1, <3>2, <3>3, <3>4, <3>5 DEF Walk
  <2> QED
    BY <2>3, <2>4 DEF Next
<1>4. Spec => [][Once]_vars
  <2> HIDE DEF All, Once
  <2> QED
    BY <1>1, <1>2, <1>3, PTL DEF Spec
<1> QED
  BY <1>4 DEF KeyedOncePerRotation
=============================================================================
