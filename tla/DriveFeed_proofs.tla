-------------------------- MODULE DriveFeed_proofs --------------------------
(***************************************************************************)
(* Proofs about DriveFeed, for every finite set of nodes, every tree there *)
(* is at the start, any number of tabs, every page size and every bound.   *)
(***************************************************************************)
EXTENDS DriveFeed, DriveWalks_proofs

-----------------------------------------------------------------------------
(* The inductive invariant, in named parts. *)

(* A tombstone past its window, or dropped since. *)
Doomed(n) == n \in old \/ node[n].state = "dropped"

(* What a listing may name. *)
Named(n) == node[n].state \in {"live", "gone"}

PullPc == {"idle", "ask", "marked", "listed", "paged", "refused", "pulled", "swept"}
Pulls == [pc : PullPc, from : Nat, cursor : Nat, mirrored : Nat, first : BOOLEAN,
          refile : BOOLEAN, attempt : Nat, arrived : Rows, purged : SUBSET Nodes,
          below : SUBSET Nodes, parents : SUBSET (Nodes \cup {Top}), resync : BOOLEAN,
          ids : SUBSET (Nodes \X Nat), changes : Rows, tombs : SUBSET Nodes,
          next : Nat, more : BOOLEAN]
Phases == {"closed", "building", "filed"}
TabState == [phase : Phases, rebuilt : BOOLEAN, pull : Pulls]
Copies == [rows : Rows, cursor : Nat]

NodeType == /\ node \in [Nodes -> [state : {"none", "live", "gone", "dropped"},
                                   parent : Nodes \cup {Top}, seq : Nat]]
            /\ seqNo \in Nat /\ dropped \in Nat /\ old \subseteq Nodes

ClientType == /\ mirror \in Copies /\ lost \subseteq Nodes /\ calm \in BOOLEAN
              /\ tab \in [Tabs -> TabState] /\ catalogue \in [Tabs -> Copies]

(* A row has taken a change or is not there; parents come before children. *)
ServerOK ==
    /\ dropped <= seqNo
    /\ \A n \in Nodes :
          /\ node[n].seq <= seqNo
          /\ node[n].state = "none" => node[n].seq = 0 /\ node[n].parent = Top
          /\ node[n].state # "none" =>
                node[n].seq >= 1 /\ (node[n].parent # Top => node[node[n].parent].state # "none")
          /\ n \in old => node[n].state = "gone"
          /\ node[n].state = "dropped" => node[n].seq <= dropped

(* Rows as the server had them, then or now. *)
Past(rows) ==
    \A n \in Held(rows) :
        /\ 1 <= rows[n].seq /\ rows[n].seq <= node[n].seq
        /\ rows[n].seq = node[n].seq => rows[n].parent = node[n].parent /\ node[n].state = "live"

CopyOK(copy) ==
    /\ copy.cursor <= seqNo /\ (copy.cursor = 0 => copy.rows = NoRows)
    /\ Past(copy.rows) /\ Complete(copy) /\ NoGhosts(copy)

(* A pull that starts before what was dropped and has not been past its    *)
(* first page: it will start over.                                         *)
Started(p) ==
    /\ p.first /\ p.pc \in {"ask", "marked", "listed", "paged"}
    /\ 0 < p.cursor /\ (p.pc # "ask" => p.resync)

(* While a copy holds what no tombstone names any more, whoever pulls is   *)
(* about to be told; and whoever asks from nothing never will be.          *)
Told(phase, p, cat, mir) ==
    /\ phase = "filed" /\ cat.cursor = 0 => \A n \in Held(mir.rows) : ~Doomed(n)
    /\ \A n \in Held(mir.rows) : node[n].state = "dropped" /\ p.pc # "idle" =>
          Started(p) /\ p.mirrored = mir.cursor /\ p.cursor <= mir.cursor
    /\ \A n \in Held(cat.rows) : node[n].state = "dropped" /\ p.pc # "idle" /\ ~p.refile =>
          Started(p) /\ p.cursor < dropped

(* What a pull has brought so far. *)
PullOK(p) ==
    /\ p.pc = "idle" => p = NoPull
    /\ p.cursor <= seqNo /\ p.mirrored <= seqNo
    /\ p.first => p.purged = {} /\ p.below = {} /\ p.arrived = NoRows
    /\ p.below \subseteq p.purged
    /\ \A n \in p.purged : node[n].state = "gone"
    /\ Past(p.arrived) /\ \A n \in Held(p.arrived) : ~Doomed(n)
    /\ p.pc \in {"pulled", "swept"} /\ p.arrived # NoRows => p.cursor > 0

(* The ids of a page: past its cursor, and none left out before the last.  *)
ListOK(p) == p.pc \in {"listed", "paged"} =>
    /\ \A i \in p.ids : p.cursor < i[2] /\ i[2] <= node[i[1]].seq /\ Named(i[1])
    /\ \A n \in Nodes, i \in p.ids :
          Named(n) /\ p.cursor < node[n].seq /\ node[n].seq <= i[2] => <<n, node[n].seq>> \in p.ids
    /\ p.cursor = 0 /\ p.arrived # NoRows => p.ids # {}

(* A page: every node whose last change is between its cursors.            *)
PageOK(p) == p.pc = "paged" =>
    /\ p.cursor <= p.next /\ p.next <= seqNo /\ \A i \in p.ids : i[2] <= p.next
    /\ Past(p.changes)
    /\ \A n \in Held(p.changes) :
          ~Doomed(n) /\ n \notin p.tombs /\ n \notin p.purged /\ \E i \in p.ids : i[1] = n
    /\ \A n \in p.tombs : node[n].state = "gone" /\ \E i \in p.ids : i[1] = n
    /\ \A n \in Nodes : Named(n) /\ p.cursor < node[n].seq /\ node[n].seq <= p.next =>
          /\ <<n, node[n].seq>> \in p.ids
          /\ node[n].state = "live" => p.changes[n].seq = node[n].seq
          /\ node[n].state = "gone" => n \in p.tombs

(* Rows are current, or their node changed past the cursor. *)
Newer(rows, cursor) == \A n \in Held(rows) : rows[n].seq = node[n].seq \/ node[n].seq > cursor

(* What a ready tab's pull brought since the catalogue's cursor. *)
Brought(p, cursor) ==
    \A n \in Nodes : cursor < node[n].seq /\ node[n].seq <= p.cursor =>
        /\ node[n].state = "live" => p.arrived[n].seq = node[n].seq
        /\ node[n].state = "gone" => n \in p.purged

TabOK(phase, p, cat) ==
    /\ phase = "closed" => p.pc = "idle"
    /\ phase = "building" => p.pc # "idle"
    /\ phase # "filed" => cat.cursor = 0
    /\ phase = "filed" =>
        /\ p.pc # "idle" => p.from = cat.cursor
        /\ Newer(p.arrived, cat.cursor)
        /\ p.pc = "paged" => Newer(p.changes, cat.cursor)
        /\ p.pc # "idle" /\ ~p.refile => Brought(p, cat.cursor)

TabInv(phase, p, cat, mir) ==
    /\ CopyOK(cat) /\ PullOK(p) /\ ListOK(p) /\ PageOK(p)
    /\ TabOK(phase, p, cat) /\ Told(phase, p, cat, mir)

(* Whatever can be reached hangs, in these rows, from the top folder. *)
Settled(rows) == \A n \in Held(rows) : Reached(n) => n \in Ordered(rows)
View(rows, new, gone) == Without(Put(rows, new), gone)

(* While all is calm, a pull and the mirror stand at one cursor, and what  *)
(* its last page leaves is a tree.                                         *)
CalmPull(phase, p, cat, mir) ==
    /\ phase = "filed" /\ p.first => cat.cursor >= mir.cursor
    /\ p.pc # "idle" =>
        /\ p.pc # "refused" /\ p.cursor = mir.cursor
        /\ p.first => p.mirrored = mir.cursor
        /\ p.purged \cap Held(mir.rows) = {}
    /\ p.pc = "listed" /\ ~p.more =>
         \A n \in Nodes : Named(n) /\ node[n].seq > p.cursor => <<n, node[n].seq>> \in p.ids

CalmTree(phase, p, rows, mir) ==
    /\ p.pc = "paged" /\ ~p.more =>
         /\ Settled(View(mir, p.changes, p.tombs))
         /\ phase = "filed" /\ ~p.refile =>
              Settled(View(rows, Put(p.arrived, p.changes), p.purged \cup p.tombs))
    /\ p.pc \in {"pulled", "swept"} =>
         /\ Settled(mir)
         /\ phase = "filed" /\ ~p.refile => Settled(View(rows, p.arrived, p.purged))

CalmInv(phase, p, cat, mir) ==
    CalmPull(phase, p, cat, mir) /\ CalmTree(phase, p, cat.rows, mir.rows)

CalmOK == calm => /\ \E t \in Tabs : Tabs = {t}
                  /\ lost = {}
                  /\ \A t \in Tabs : CalmInv(tab[t].phase, tab[t].pull, catalogue[t], mirror)

(* An app has its bounds, and hands news on only to a catalogue that is filed. *)
AppState == [on : BOOLEAN, since : Nat, queued : 0..MaxQueued, ready : BOOLEAN, unmet : Nat]
AppOK ==
    /\ app \in [Tabs -> AppState]
    /\ \A t \in Tabs : /\ app[t].ready => tab[t].phase = "filed"
                       /\ app[t].queued > 0 => app[t].ready

IInv == /\ NodeType /\ ClientType /\ ServerOK
        /\ CopyOK(mirror)
        /\ \A t \in Tabs : TabInv(tab[t].phase, tab[t].pull, catalogue[t], mirror)
        /\ CalmOK

-----------------------------------------------------------------------------
(* Walks, of the server's tree and of the rows of a copy. *)

RowUp(rows) == [n \in Nodes |-> rows[n].parent]

LEMMA NodeFacts == /\ IsFiniteSet(Nodes) /\ Top \notin Nodes /\ Nodes \subseteq Nat /\ Folders \subseteq Nodes
                   /\ DOMAIN Up = Nodes /\ \A rows : DOMAIN RowUp(rows) = Nodes
BY FeedAssumption DEF Up, RowUp, Top

(* The walk from a node, a row at a time, is the walk. *)
LEMMA ClimbFacts ==
    ASSUME NEW up, DOMAIN up = Nodes, NEW n \in Nodes
    PROVE  /\ Climb(up, n) = Chain(up, n) /\ n \in Climb(up, n) /\ Climb(up, n) \subseteq Nodes
           /\ \A m \in Climb(up, n) : up[m] \in Nodes => up[m] \in Climb(up, n)
           /\ \A m \in Climb(up, n) : Climb(up, m) \subseteq Climb(up, n)
<1>1. Climb(up, n) = Chain(up, n)
  BY NodeFacts, ClimbIsChain
<1>2. \A m \in Chain(up, n) : m \in Nodes /\ Climb(up, m) = Chain(up, m)
  BY NodeFacts, ClimbIsChain, ChainFacts
<1> QED
  BY <1>1, <1>2, ChainFacts, ChainRest

LEMMA ClimbLeast ==
    ASSUME NEW up, DOMAIN up = Nodes, NEW n \in Nodes, NEW S, n \in S,
           \A m \in S \cap Nodes : up[m] \in Nodes => up[m] \in S
    PROVE  Climb(up, n) \subseteq S
BY ClimbFacts, ChainLeast

LEMMA ClimbAgree ==
    ASSUME NEW up, NEW vp, DOMAIN up = Nodes, DOMAIN vp = Nodes, NEW n \in Nodes,
           \A m \in Climb(up, n) : vp[m] = up[m]
    PROVE  Climb(vp, n) = Climb(up, n)
<1>1. Climb(up, n) = Chain(up, n) /\ Climb(vp, n) = Chain(vp, n)
  BY ClimbFacts
<1> QED
  BY <1>1, ChainAgree

(* What can be reached lives, and so does all that is above it. *)
LEMMA ReachedFacts ==
    ASSUME NEW n \in Nodes, Reached(n)
    PROVE  node[n].state = "live" /\ \A a \in Climb(Up, n) : a \in Nodes /\ Reached(a)
<1>1. /\ n \in Climb(Up, n) /\ Climb(Up, n) \subseteq Nodes
      /\ \A a \in Climb(Up, n) : Climb(Up, a) \subseteq Climb(Up, n)
  BY NodeFacts, ClimbFacts
<1> QED
  BY <1>1 DEF Reached

(* What is below some rows is held, and one of them is above it. *)
LEMMA BelowClimbs ==
    ASSUME NEW rows \in Rows, NEW S \in SUBSET Nodes, NEW m \in PurgedBelow(rows, S)
    PROVE  m \in Held(rows) /\ m \in Nodes /\ \E r \in S : r \in Climb(RowUp(rows), m)
<1> DEFINE up == RowUp(rows)
           kept == Held(rows)
<1>1. DOMAIN up = Nodes /\ kept \subseteq Nodes
  BY NodeFacts DEF Held
<1>2. PICK r \in S : m \in Subtree(up, kept, r) /\ m # r
  BY DEF PurgedBelow, RowUp
<1> HIDE DEF up, kept
<1>3. m \in Nodes /\ r \in Nodes
  BY <1>1, <1>2 DEF Subtree
<1>4. m \in kept
  <2> DEFINE S1 == {r} \cup kept
  <2>1. S1 \in FallingFrom(up, kept, r)
    BY <1>1, <1>3 DEF FallingFrom
  <2>2. m \in S1
    BY <1>2, <2>1 DEF Subtree
  <2> QED
    BY <1>2, <2>2
<1>5. r \in Climb(up, m)
  <2> SUFFICES ASSUME r \notin Climb(up, m) PROVE FALSE
    OBVIOUS
  <2> DEFINE S2 == Nodes \ Climb(up, m)
  <2>1. /\ m \in Climb(up, m)
        /\ \A k \in Climb(up, m) : up[k] \in Nodes => up[k] \in Climb(up, m)
    BY <1>1, <1>3, ClimbFacts
  <2>2. \A k \in kept : up[k] \in S2 => k \in S2
    BY <1>1, <2>1
  <2>3. S2 \in FallingFrom(up, kept, r)
    BY <1>1, <1>3, <2>2 DEF FallingFrom
  <2>4. m \in S2
    BY <1>2, <2>3 DEF Subtree
  <2> QED
    BY <2>1, <2>4
<1> QED
  BY <1>3, <1>4, <1>5 DEF up, kept

(* A sweep below what is deleted takes what can be reached only when it has*)
(* not heard of a move.                                                    *)
LEMMA SweepSpares ==
    ASSUME NEW rows \in Rows, NEW S \in SUBSET Nodes, \A r \in S : node[r].state # "live",
           NEW m \in PurgedBelow(rows, S), Reached(m)
    PROVE  \E a \in Climb(Up, m) \cap Held(rows) : rows[a].parent # node[a].parent
<1> SUFFICES ASSUME \A a \in Climb(Up, m) \cap Held(rows) : rows[a].parent = node[a].parent
             PROVE  FALSE
  OBVIOUS
<1>1. m \in Nodes /\ \E r \in S : r \in Climb(RowUp(rows), m)
  BY BelowClimbs
<1>2. /\ m \in Climb(Up, m) /\ Climb(Up, m) \subseteq Nodes
      /\ \A a \in Climb(Up, m) : Up[a] \in Nodes => Up[a] \in Climb(Up, m)
  BY <1>1, NodeFacts, ClimbFacts
<1>3. ASSUME NEW a \in Climb(Up, m), RowUp(rows)[a] \in Nodes PROVE RowUp(rows)[a] \in Climb(Up, m)
  <2>1. a \in Nodes /\ rows[a].parent \in Nodes
    BY <1>2, <1>3 DEF RowUp
  <2>2. a \in Held(rows)
    BY <2>1, NodeFacts DEF Held, NoRow
  <2>3. Up[a] = rows[a].parent /\ RowUp(rows)[a] = rows[a].parent
    BY <1>3, <2>1, <2>2 DEF Up, RowUp
  <2> QED
    BY <1>2, <1>3, <2>1, <2>3
<1>4. Climb(RowUp(rows), m) \subseteq Climb(Up, m)
  BY <1>1, <1>2, <1>3, NodeFacts, ClimbLeast
<1> QED
  BY <1>1, <1>4, ReachedFacts

(* Rows that are as the server has them all the way up hang from the top. *)
LEMMA OrderedHas ==
    ASSUME NEW rows, NEW m \in Nodes,
           \A a \in Climb(Up, m) : a \in Held(rows) /\ rows[a].parent = node[a].parent
    PROVE  m \in Ordered(rows)
<1>1. m \in Climb(Up, m) /\ Climb(Up, m) \subseteq Nodes
  BY NodeFacts, ClimbFacts
<1>2. \A a \in Climb(Up, m) : RowUp(rows)[a] = Up[a]
  BY <1>1 DEF RowUp, Up
<1>3. Climb(RowUp(rows), m) = Climb(Up, m)
  BY <1>2, NodeFacts, ClimbAgree
<1> QED
  BY <1>1, <1>3 DEF Ordered, RowUp

LEMMA OrderedFacts ==
    ASSUME NEW rows, NEW m \in Ordered(rows)
    PROVE  /\ m \in Nodes /\ m \in Climb(RowUp(rows), m) /\ Climb(RowUp(rows), m) \subseteq Held(rows)
           /\ \A a \in Climb(RowUp(rows), m) : a \in Ordered(rows)
<1>1. m \in Held(rows) /\ m \in Nodes /\ Climb(RowUp(rows), m) \subseteq Held(rows)
  BY DEF Ordered, RowUp, Held
<1>2. /\ m \in Climb(RowUp(rows), m)
      /\ \A a \in Climb(RowUp(rows), m) : Climb(RowUp(rows), a) \subseteq Climb(RowUp(rows), m)
  BY <1>1, NodeFacts, ClimbFacts
<1> QED
  BY <1>1, <1>2 DEF Ordered, RowUp

(* What hangs from the top is not below what the rows do not hold ... *)
LEMMA OrderedAbove ==
    ASSUME NEW rows \in Rows, NEW S \in SUBSET Nodes, S \cap Held(rows) = {}
    PROVE  PurgedBelow(rows, S) \cap Ordered(rows) = {}
<1> SUFFICES ASSUME NEW m \in PurgedBelow(rows, S), m \in Ordered(rows) PROVE FALSE
  OBVIOUS
<1> QED
  BY BelowClimbs, OrderedFacts

(* ... and goes on hanging from it when other rows go. *)
LEMMA OrderedStays ==
    ASSUME NEW rows \in Rows, NEW S, S \cap Ordered(rows) = {}, NEW m \in Ordered(rows)
    PROVE  m \in Ordered(Without(rows, S))
<1> DEFINE left == Without(rows, S)
<1>1. /\ m \in Nodes /\ m \in Climb(RowUp(rows), m) /\ Climb(RowUp(rows), m) \subseteq Held(rows)
      /\ \A a \in Climb(RowUp(rows), m) : a \in Ordered(rows)
  BY OrderedFacts
<1>2. \A a \in Climb(RowUp(rows), m) : a \in Nodes /\ left[a] = rows[a] /\ a \in Held(left)
  BY <1>1 DEF Without, Held
<1>3. \A a \in Climb(RowUp(rows), m) : RowUp(left)[a] = RowUp(rows)[a]
  BY <1>2 DEF RowUp
<1>4. Climb(RowUp(left), m) = Climb(RowUp(rows), m)
  BY <1>1, <1>3, NodeFacts, ClimbAgree
<1> QED
  BY <1>1, <1>2, <1>4 DEF Ordered, RowUp

(* The same when what goes is still among the rows that are walked. *)
LEMMA OrderedWithout ==
    ASSUME NEW rows \in Rows, NEW S \in SUBSET Nodes, NEW m \in Ordered(Without(rows, S))
    PROVE  m \notin PurgedBelow(rows, S)
<1> DEFINE left == Without(rows, S)
<1>1. /\ m \in Nodes /\ m \in Climb(RowUp(left), m) /\ Climb(RowUp(left), m) \subseteq Held(left)
  BY OrderedFacts
<1>2. \A a \in Climb(RowUp(left), m) : a \in Nodes /\ a \notin S /\ left[a] = rows[a]
  BY <1>1 DEF Without, Held
<1>3. \A a \in Climb(RowUp(left), m) : RowUp(rows)[a] = RowUp(left)[a]
  BY <1>2 DEF RowUp
<1>4. Climb(RowUp(rows), m) = Climb(RowUp(left), m)
  BY <1>1, <1>3, NodeFacts, ClimbAgree
<1> QED
  BY <1>2, <1>4, BelowClimbs

-----------------------------------------------------------------------------
(* Rows. *)

LEMMA NoRowsFacts == NoRows \in Rows /\ Held(NoRows) = {} /\ NoRow \in [parent : Nodes \cup {Top}, seq : Nat]
BY DEF NoRows, NoRow, Rows, Held

LEMMA PutFacts ==
    ASSUME NEW a \in Rows, NEW b \in Rows
    PROVE  /\ Put(a, b) \in Rows
           /\ \A n \in Nodes : Put(a, b)[n] = IF n \in Held(b) THEN b[n] ELSE a[n]
           /\ Held(Put(a, b)) = Held(a) \cup Held(b)
BY DEF Put, Rows, Held

LEMMA WithoutFacts ==
    ASSUME NEW a \in Rows, NEW S
    PROVE  /\ Without(a, S) \in Rows
           /\ \A n \in Nodes : Without(a, S)[n] = IF n \in S THEN NoRow ELSE a[n]
           /\ Held(Without(a, S)) = Held(a) \ S
BY NoRowsFacts DEF Without, Rows, Held

LEMMA PutTwice ==
    ASSUME NEW a \in Rows, NEW b \in Rows, NEW c \in Rows
    PROVE  Put(Put(a, b), c) = Put(a, Put(b, c))
BY DEF Put, Rows

LEMMA RowFacts ==
    ASSUME NEW rows \in Rows, NEW n \in Nodes
    PROVE  /\ rows[n].seq \in Nat /\ rows[n].parent \in Nodes \cup {Top}
           /\ n \notin Held(rows) => rows[n] = NoRow /\ rows[n].seq = 0 /\ rows[n].parent = Top
           /\ n \in Held(rows) => rows[n] # NoRow
BY DEF Rows, Held, NoRow

LEMMA PastPut ==
    ASSUME NEW a \in Rows, NEW b \in Rows, Past(a), Past(b)
    PROVE  Past(Put(a, b))
BY PutFacts DEF Past, Held

LEMMA PastWithout ==
    ASSUME NEW a \in Rows, Past(a), NEW S
    PROVE  Past(Without(a, S))
BY WithoutFacts DEF Past, Held

(* A row at its node's own sequence is that node's. *)
LEMMA CurrentRow ==
    ASSUME NEW rows \in Rows, Past(rows), ServerOK, NEW n \in Nodes, node[n].state # "none",
           rows[n].seq = node[n].seq
    PROVE  n \in Held(rows) /\ rows[n].parent = node[n].parent /\ node[n].state = "live"
<1>1. n \in Held(rows)
  BY RowFacts DEF ServerOK
<1> QED
  BY <1>1 DEF Past

(* A row of a copy that holds all that is above it hangs from the top. *)
LEMMA HeldHangs ==
    ASSUME NEW copy \in Copies, Past(copy.rows), Complete(copy), ServerOK,
           NEW m \in Nodes, Reached(m),
           \A a \in Climb(Up, m) : node[a].seq <= copy.cursor /\ a \notin lost
    PROVE  m \in Ordered(copy.rows)
<1>1. copy.rows \in Rows
  BY DEF Copies
<1>2. ASSUME NEW a \in Climb(Up, m)
      PROVE  a \in Held(copy.rows) /\ copy.rows[a].parent = node[a].parent
  <2>1. a \in Nodes /\ Reached(a) /\ node[a].state = "live"
    BY ReachedFacts
  <2>2. copy.rows[a].seq = node[a].seq
    BY <2>1 DEF Complete
  <2> QED
    BY <1>1, <2>1, <2>2, CurrentRow
<1> QED
  BY <1>2, OrderedHas

-----------------------------------------------------------------------------
(* The server's writes. *)

(* What every write does: one row takes the next sequence, and nothing     *)
(* that could not be reached can be afterwards.                            *)
Wrote(n) ==
    /\ seqNo' = seqNo + 1 /\ node'[n].seq = seqNo'
    /\ node[n].state \in {"none", "live"} /\ node'[n].state \in {"live", "gone"}
    /\ \A m \in Nodes \ {n} : node'[m] = node[m]
    /\ \A m \in Nodes : node[m].state # "none" /\ Reached(m)' => Reached(m)
    /\ lost' = lost \ {n} /\ calm' = (calm /\ ~Listing)
    /\ UNCHANGED <<dropped, old, mirror, tab, catalogue>>

LEMMA StampFacts ==
    ASSUME NodeType, ServerOK, NEW n \in Nodes, NEW state, NEW parent \in Nodes \cup {Top},
           state \in {"live", "gone"}, node[n].state \in {"none", "live"},
           parent \in Nodes => node[parent].state # "none",
           Stamp(n, state, parent)
    PROVE  /\ NodeType' /\ ServerOK'
           /\ node' = [node EXCEPT ![n] = [state |-> state, parent |-> parent, seq |-> seqNo + 1]]
           /\ Up' = [Up EXCEPT ![n] = parent]
<1>1. /\ node' = [node EXCEPT ![n] = [state |-> state, parent |-> parent, seq |-> seqNo + 1]]
      /\ seqNo' = seqNo + 1 /\ UNCHANGED <<dropped, old>>
  BY DEF Stamp
<1>2. NodeType'
  BY <1>1 DEF NodeType
<1>3. ServerOK'
  <2>0. dropped' <= seqNo'
    BY <1>1 DEF NodeType, ServerOK
  <2> SUFFICES ASSUME NEW m \in Nodes
               PROVE  /\ node'[m].seq <= seqNo'
                      /\ node'[m].state = "none" => node'[m].seq = 0 /\ node'[m].parent = Top
                      /\ node'[m].state # "none" =>
                           node'[m].seq >= 1 /\ (node'[m].parent # Top => node'[node'[m].parent].state # "none")
                      /\ m \in old' => node'[m].state = "gone"
                      /\ node'[m].state = "dropped" => node'[m].seq <= dropped'
    BY <2>0 DEF ServerOK
  <2>1. CASE m = n
    BY <1>1, <2>1 DEF NodeType, ServerOK
  <2>2. CASE m # n
    BY <1>1, <2>2 DEF NodeType, ServerOK
  <2> QED
    BY <2>1, <2>2
<1>4. Up' = [Up EXCEPT ![n] = parent]
  BY <1>1 DEF Up, NodeType
<1> QED
  BY <1>1, <1>2, <1>3, <1>4

(* A write of a row that stays where it is. *)
LEMMA InPlace ==
    ASSUME NodeType, ServerOK, NEW n \in Nodes, NEW state \in {"live", "gone"},
           node[n].state = "live", Stamp(n, state, node[n].parent)
    PROVE  NodeType' /\ ServerOK' /\ Wrote(n)
<1>1. node[n].parent \in Nodes \cup {Top} /\ (node[n].parent \in Nodes => node[node[n].parent].state # "none")
  BY NodeFacts DEF NodeType, ServerOK
<1>2. /\ NodeType' /\ ServerOK' /\ Up' = [Up EXCEPT ![n] = node[n].parent]
      /\ node' = [node EXCEPT ![n] = [state |-> state, parent |-> node[n].parent, seq |-> seqNo + 1]]
  BY <1>1, StampFacts
<1>3. Up' = Up
  BY <1>2 DEF Up
<1>4. \A m \in Nodes : Reached(m)' => Reached(m)
  <2> SUFFICES ASSUME NEW m \in Nodes, Reached(m)', NEW a \in Climb(Up, m) PROVE node[a].state = "live"
    BY DEF Reached
  <2>1. node'[a].state = "live" /\ a \in Nodes
    BY <1>3, NodeFacts, ClimbFacts DEF Reached
  <2> QED
    BY <1>2, <2>1 DEF NodeType
<1>5. \A m \in Nodes \ {n} : node'[m] = node[m]
  BY <1>2 DEF NodeType
<1>6. node'[n].seq = seqNo' /\ node'[n].state \in {"live", "gone"}
  BY <1>2 DEF NodeType, Stamp
<1> QED
  BY <1>2, <1>4, <1>5, <1>6 DEF Wrote, Stamp

LEMMA PlaceFacts ==
    ASSUME NEW p, Place(p)
    PROVE  p \in Nodes \cup {Top} /\ (p \in Nodes => Reached(p) /\ node[p].state = "live")
BY NodeFacts, ReachedFacts DEF Place

LEMMA MoveWrites ==
    ASSUME NodeType, ServerOK, NEW n \in Nodes, NEW p, MoveNode(n, p)
    PROVE  NodeType' /\ ServerOK' /\ Wrote(n)
<1>1. Reached(n) /\ Stamp(n, "live", p) /\ p \in Nodes \cup {Top} /\ (p \in Nodes => node[p].state # "none")
  BY PlaceFacts DEF MoveNode
<1>2. node[n].state = "live"
  BY <1>1, ReachedFacts
<1>3. /\ NodeType' /\ ServerOK' /\ Up' = [Up EXCEPT ![n] = p]
      /\ node' = [node EXCEPT ![n] = [state |-> "live", parent |-> p, seq |-> seqNo + 1]]
  BY <1>1, <1>2, StampFacts
<1>4. \A m \in Nodes : Reached(m)' => Reached(m)
  <2> SUFFICES ASSUME NEW m \in Nodes, Reached(m)' PROVE Reached(m)
    OBVIOUS
  <2> DEFINE S == Climb(Up', m) \cup Climb(Up, n)
  <2>1. DOMAIN Up' = Nodes
    BY NodeFacts, <1>3
  <2>2. /\ m \in Climb(Up', m) /\ Climb(Up', m) \subseteq Nodes /\ n \in Climb(Up, n) /\ Climb(Up, n) \subseteq Nodes
        /\ \A a \in Climb(Up', m) : Up'[a] \in Nodes => Up'[a] \in Climb(Up', m)
        /\ \A a \in Climb(Up, n) : Up[a] \in Nodes => Up[a] \in Climb(Up, n)
    BY <2>1, NodeFacts, ClimbFacts
  <2>3. \A a \in S \cap Nodes : Up[a] \in Nodes => Up[a] \in S
    BY <1>3, <2>2, NodeFacts
  <2>4. Climb(Up, m) \subseteq S
    <3>1. m \in S /\ DOMAIN Up = Nodes
      BY <2>2, NodeFacts
    <3> HIDE DEF S
    <3> QED
      BY <2>3, <3>1, ClimbLeast
  <2>5. \A a \in Climb(Up', m) : node'[a].state = "live"
    BY DEF Reached
  <2>6. \A a \in Climb(Up, n) : node[a].state = "live"
    BY <1>1 DEF Reached
  <2>7. \A a \in Climb(Up', m) : node[a].state = "live"
    BY <1>2, <1>3, <2>2, <2>5 DEF NodeType
  <2> QED
    BY <2>4, <2>6, <2>7 DEF Reached
<1>5. \A m \in Nodes \ {n} : node'[m] = node[m]
  BY <1>3 DEF NodeType
<1>6. node'[n].seq = seqNo' /\ node'[n].state \in {"live", "gone"}
  BY <1>1, <1>3 DEF NodeType, Stamp
<1> QED
  BY <1>1, <1>2, <1>3, <1>4, <1>5, <1>6 DEF Wrote, Stamp

LEMMA CreateWrites ==
    ASSUME NodeType, ServerOK, NEW n \in Nodes, NEW p, Create(n, p)
    PROVE  NodeType' /\ ServerOK' /\ Wrote(n)
<1>1. /\ node[n].state = "none" /\ Stamp(n, "live", p)
      /\ p \in Nodes \cup {Top} /\ (p \in Nodes => node[p].state # "none")
  BY PlaceFacts DEF Create
<1>3. /\ NodeType' /\ ServerOK' /\ Up' = [Up EXCEPT ![n] = p]
      /\ node' = [node EXCEPT ![n] = [state |-> "live", parent |-> p, seq |-> seqNo + 1]]
  BY <1>1, StampFacts
<1>4. ASSUME NEW m \in Nodes, node[m].state # "none", Reached(m)' PROVE Reached(m)
  <2> DEFINE S == {a \in Climb(Up', m) : node[a].state # "none"}
  <2>1. DOMAIN Up' = Nodes
    BY NodeFacts, <1>3
  <2>2. /\ m \in Climb(Up', m) /\ Climb(Up', m) \subseteq Nodes
        /\ \A a \in Climb(Up', m) : Up'[a] \in Nodes => Up'[a] \in Climb(Up', m)
    BY <2>1, ClimbFacts
  <2>3. ASSUME NEW a \in S, Up[a] \in Nodes PROVE Up[a] \in S
    <3>1. a # n /\ a \in Nodes /\ Up'[a] = Up[a]
      BY <1>1, <1>3, <2>2, <2>3, NodeFacts
    <3>2. Up[a] = node[a].parent
      BY <3>1 DEF Up
    <3>3. node[Up[a]].state # "none"
      BY <2>3, <3>1, <3>2, NodeFacts DEF ServerOK
    <3> QED
      BY <2>2, <2>3, <3>1, <3>3
  <2>4. Climb(Up, m) \subseteq S
    <3>1. m \in S /\ S \subseteq Nodes /\ DOMAIN Up = Nodes
      BY <1>4, <2>2, NodeFacts
    <3> HIDE DEF S
    <3> QED
      BY <2>3, <3>1, ClimbLeast
  <2>5. \A a \in S : node'[a].state = "live" /\ a # n /\ a \in Nodes
    BY <1>1, <1>4, <2>2 DEF Reached
  <2>6. \A a \in S : node[a].state = "live"
    BY <1>3, <2>5 DEF NodeType
  <2> QED
    BY <2>4, <2>6 DEF Reached
<1>5. \A m \in Nodes \ {n} : node'[m] = node[m]
  BY <1>3 DEF NodeType
<1>6. node'[n].seq = seqNo' /\ node'[n].state \in {"live", "gone"}
  BY <1>1, <1>3 DEF NodeType, Stamp
<1> QED
  BY <1>1, <1>3, <1>4, <1>5, <1>6 DEF Wrote, Stamp

-----------------------------------------------------------------------------
(* What a write leaves as it was. *)

LEMMA WroteNode ==
    ASSUME NodeType, ServerOK, NEW n \in Nodes, Wrote(n), NEW m \in Nodes
    PROVE  /\ m # n => node'[m] = node[m]
           /\ m = n => node'[m].seq = seqNo + 1 /\ node[m].seq <= seqNo /\ m \notin old
           /\ node[m].seq \in Nat /\ seqNo \in Nat /\ node[m].seq <= seqNo
           /\ node[m].seq <= node'[m].seq
BY DEF NodeType, ServerOK, Wrote

LEMMA WrotePast ==
    ASSUME NodeType, ServerOK, NEW n \in Nodes, Wrote(n), NEW rows \in Rows, Past(rows)
    PROVE  Past(rows)'
<1> SUFFICES ASSUME NEW m \in Held(rows)
             PROVE  /\ 1 <= rows[m].seq /\ rows[m].seq <= node'[m].seq
                    /\ rows[m].seq = node'[m].seq =>
                         rows[m].parent = node'[m].parent /\ node'[m].state = "live"
  BY DEF Past, Held
<1>1. m \in Nodes /\ rows[m].seq \in Nat
  BY RowFacts DEF Held
<1>2. 1 <= rows[m].seq /\ rows[m].seq <= node[m].seq
  BY DEF Past
<1> QED
  BY <1>1, <1>2, WroteNode DEF Past

LEMMA WroteCopy ==
    ASSUME NodeType, ServerOK, NEW n \in Nodes, Wrote(n), NEW copy \in Copies, CopyOK(copy)
    PROVE  CopyOK(copy)'
<1>1. copy.rows \in Rows /\ copy.cursor \in Nat /\ copy.cursor <= seqNo
  BY DEF Copies, CopyOK
<1>2. Past(copy.rows)'
  BY <1>1, WrotePast DEF CopyOK
<1>3. Complete(copy)'
  <2> SUFFICES ASSUME NEW m \in Nodes, Reached(m)', node'[m].seq <= copy.cursor
               PROVE  copy.rows[m].seq = node'[m].seq \/ (m \in lost' /\ m \notin Held(copy.rows))
    BY DEF Complete, Held
  <2>1. m # n /\ node'[m] = node[m]
    BY <1>1, WroteNode
  <2>2. m \in Climb(Up', m)
    BY ClimbFacts DEF Up
  <2>3. Reached(m)
    BY <2>1, <2>2 DEF Wrote, Reached
  <2> QED
    BY <2>1, <2>3 DEF CopyOK, Complete, Wrote
<1>4. NoGhosts(copy)'
  <2> SUFFICES ASSUME NEW m \in Held(copy.rows)
               PROVE  /\ node'[m].state = "gone" => node'[m].seq > copy.cursor
                      /\ node'[m].state = "dropped" => copy.cursor < dropped'
    BY DEF NoGhosts, Held
  <2>1. m \in Nodes
    BY DEF Held
  <2>2. node'[m].state = "dropped" => node'[m] = node[m] /\ dropped' = dropped
    BY <2>1 DEF Wrote
  <2> QED
    BY <1>1, <2>1, <2>2, WroteNode DEF CopyOK, NoGhosts
<1>5. seqNo' = seqNo + 1 /\ seqNo \in Nat
  BY DEF Wrote, NodeType
<1> QED
  BY <1>1, <1>2, <1>3, <1>4, <1>5 DEF CopyOK, NoRows, NoRow

LEMMA WroteDoomed ==
    ASSUME NodeType, ServerOK, NEW n \in Nodes, Wrote(n), NEW m \in Nodes
    PROVE  Doomed(m)' <=> Doomed(m)
BY DEF Doomed, Wrote, NodeType, ServerOK

LEMMA WroteGone ==
    ASSUME NodeType, ServerOK, NEW n \in Nodes, Wrote(n), NEW m \in Nodes, node[m].state = "gone"
    PROVE  node'[m] = node[m]
BY DEF Wrote

LEMMA WrotePull ==
    ASSUME NodeType, ServerOK, NEW n \in Nodes, Wrote(n), NEW p \in Pulls,
           PullOK(p), ListOK(p), PageOK(p)
    PROVE  PullOK(p)' /\ ListOK(p)' /\ PageOK(p)'
<1>1. /\ p.arrived \in Rows /\ p.changes \in Rows /\ p.cursor \in Nat /\ p.mirrored \in Nat /\ p.next \in Nat
      /\ p.purged \subseteq Nodes /\ p.tombs \subseteq Nodes /\ p.ids \subseteq Nodes \X Nat
  BY DEF Pulls
<1>2. seqNo' = seqNo + 1 /\ seqNo \in Nat
  BY DEF Wrote, NodeType
<1>3. PullOK(p)'
  <2>1. Past(p.arrived)'
    BY <1>1, WrotePast DEF PullOK
  <2>2. \A m \in Held(p.arrived) : ~Doomed(m)'
    BY WroteDoomed DEF PullOK, Held
  <2>3. \A m \in p.purged : node'[m].state = "gone"
    BY <1>1, WroteGone DEF PullOK
  <2>4. p.cursor <= seqNo' /\ p.mirrored <= seqNo'
    BY <1>1, <1>2 DEF PullOK
  <2> QED
    BY <2>1, <2>2, <2>3, <2>4 DEF PullOK, NoRows, NoRow, NoPull, Held
<1>4. ListOK(p)'
  <2> SUFFICES ASSUME p.pc \in {"listed", "paged"}
               PROVE  /\ \A i \in p.ids : p.cursor < i[2] /\ i[2] <= node'[i[1]].seq /\ Named(i[1])'
                      /\ \A m \in Nodes, i \in p.ids :
                           Named(m)' /\ p.cursor < node'[m].seq /\ node'[m].seq <= i[2] =>
                               <<m, node'[m].seq>> \in p.ids
                      /\ p.cursor = 0 /\ p.arrived # NoRows => p.ids # {}
    BY DEF ListOK, NoRows, NoRow
  <2>1. ASSUME NEW i \in p.ids
        PROVE  /\ p.cursor < i[2] /\ i[2] <= node'[i[1]].seq /\ Named(i[1])' /\ i[2] \in Nat
               /\ i[2] <= node[i[1]].seq /\ node[i[1]].seq <= seqNo /\ i[1] \in Nodes
    <3>1. i[1] \in Nodes /\ i[2] \in Nat /\ p.cursor < i[2] /\ i[2] <= node[i[1]].seq /\ Named(i[1])
      BY <1>1 DEF ListOK
    <3>2. Named(i[1])'
      BY <3>1 DEF Named, Wrote
    <3>3. node[i[1]].seq <= node'[i[1]].seq /\ node[i[1]].seq <= seqNo /\ node[i[1]].seq \in Nat
      BY <3>1, WroteNode
    <3>4. node'[i[1]].seq \in Nat
      BY <1>2, <3>1, <3>3, WroteNode
    <3> QED
      BY <1>1, <3>1, <3>2, <3>3, <3>4
  <2>2. ASSUME NEW m \in Nodes, NEW i \in p.ids, Named(m)', p.cursor < node'[m].seq, node'[m].seq <= i[2]
        PROVE  <<m, node'[m].seq>> \in p.ids
    <3>1. i[2] <= seqNo /\ i[2] \in Nat
      BY <1>2, <2>1, WroteNode
    <3>2. m # n /\ node'[m] = node[m]
      BY <1>2, <2>2, <3>1, WroteNode
    <3> QED
      BY <2>2, <3>2 DEF ListOK, Named
  <2> QED
    BY <2>1, <2>2 DEF ListOK
<1>5. PageOK(p)'
  <2> SUFFICES ASSUME p.pc = "paged"
               PROVE  /\ p.cursor <= p.next /\ p.next <= seqNo' /\ \A i \in p.ids : i[2] <= p.next
                      /\ Past(p.changes)'
                      /\ \A m \in Held(p.changes) : ~Doomed(m)'
                           /\ m \notin p.tombs /\ m \notin p.purged /\ \E i \in p.ids : i[1] = m
                      /\ \A m \in p.tombs : node'[m].state = "gone" /\ \E i \in p.ids : i[1] = m
                      /\ \A m \in Nodes : Named(m)' /\ p.cursor < node'[m].seq /\ node'[m].seq <= p.next =>
                           /\ <<m, node'[m].seq>> \in p.ids
                           /\ node'[m].state = "live" => p.changes[m].seq = node'[m].seq
                           /\ node'[m].state = "gone" => m \in p.tombs
    BY DEF PageOK, Held, NoRow
  <2>1. Past(p.changes)'
    BY <1>1, WrotePast DEF PageOK
  <2>2. \A m \in Held(p.changes) : ~Doomed(m)'
    BY WroteDoomed DEF PageOK, Held
  <2>3. \A m \in p.tombs : node'[m].state = "gone" /\ \E i \in p.ids : i[1] = m
    BY <1>1, WroteGone DEF PageOK
  <2>4. p.next <= seqNo /\ p.next <= seqNo'
    BY <1>1, <1>2 DEF PageOK
  <2>5. ASSUME NEW m \in Nodes, Named(m)', p.cursor < node'[m].seq, node'[m].seq <= p.next
        PROVE  node'[m] = node[m] /\ Named(m)
    BY <1>1, <1>2, <2>4, <2>5, WroteNode DEF Named
  <2> QED
    BY <2>1, <2>2, <2>3, <2>4, <2>5 DEF PageOK
<1> QED
  BY <1>3, <1>4, <1>5

LEMMA WroteNewer ==
    ASSUME NodeType, ServerOK, NEW n \in Nodes, Wrote(n), NEW cursor \in Nat, cursor <= seqNo,
           NEW rows, Newer(rows, cursor)
    PROVE  Newer(rows, cursor)'
<1> SUFFICES ASSUME NEW m \in Held(rows)
             PROVE  rows[m].seq = node'[m].seq \/ node'[m].seq > cursor
  BY DEF Newer, Held
<1>1. m \in Nodes
  BY DEF Held
<1> QED
  BY <1>1, WroteNode DEF Newer

LEMMA WroteBrought ==
    ASSUME NodeType, ServerOK, NEW n \in Nodes, Wrote(n), NEW cursor \in Nat, NEW p \in Pulls,
           p.cursor <= seqNo, Brought(p, cursor)
    PROVE  Brought(p, cursor)'
<1> SUFFICES ASSUME NEW m \in Nodes, cursor < node'[m].seq, node'[m].seq <= p.cursor
             PROVE  /\ node'[m].state = "live" => p.arrived[m].seq = node'[m].seq
                    /\ node'[m].state = "gone" => m \in p.purged
  BY DEF Brought
<1>1. p.cursor \in Nat
  BY DEF Pulls
<1>2. node'[m] = node[m]
  BY <1>1, WroteNode
<1> QED
  BY <1>2 DEF Brought

LEMMA WroteSettled ==
    ASSUME NodeType, ServerOK, NEW n \in Nodes, Wrote(n), NEW rows \in Rows, Past(rows), Settled(rows)
    PROVE  Settled(rows)'
<1> SUFFICES ASSUME NEW m \in Held(rows), Reached(m)' PROVE m \in Ordered(rows)
  BY DEF Settled, Held, Ordered
<1>1. m \in Nodes /\ rows[m].seq \in Nat /\ 1 <= rows[m].seq /\ rows[m].seq <= node[m].seq
  BY RowFacts DEF Past, Held
<1>2. node[m].state # "none"
  BY <1>1 DEF ServerOK
<1>3. Reached(m)
  BY <1>1, <1>2 DEF Wrote
<1> QED
  BY <1>3 DEF Settled

LEMMA ViewFacts ==
    ASSUME NEW a \in Rows, NEW b \in Rows, NEW S
    PROVE  /\ View(a, b, S) \in Rows
           /\ \A n \in Nodes : View(a, b, S)[n] = IF n \in S THEN NoRow
                                                  ELSE IF n \in Held(b) THEN b[n] ELSE a[n]
           /\ Held(View(a, b, S)) = (Held(a) \cup Held(b)) \ S
           /\ Past(a) /\ Past(b) => Past(View(a, b, S))
<1> DEFINE both == Put(a, b)
<1>1. /\ both \in Rows /\ Held(both) = Held(a) \cup Held(b)
      /\ \A n \in Nodes : both[n] = IF n \in Held(b) THEN b[n] ELSE a[n]
  BY PutFacts
<1>2. Past(a) /\ Past(b) => Past(both)
  BY PastPut
<1>3. View(a, b, S) = Without(both, S)
  BY DEF View
<1> HIDE DEF both
<1>4. Past(both) => Past(Without(both, S))
  BY <1>1, PastWithout
<1> QED
  BY <1>1, <1>2, <1>3, <1>4, WithoutFacts

LEMMA PullFields ==
    ASSUME NEW p \in Pulls
    PROVE  /\ p.pc \in PullPc /\ p.from \in Nat /\ p.cursor \in Nat /\ p.mirrored \in Nat /\ p.next \in Nat
           /\ p.first \in BOOLEAN /\ p.refile \in BOOLEAN /\ p.resync \in BOOLEAN /\ p.more \in BOOLEAN
           /\ p.attempt \in Nat /\ p.arrived \in Rows /\ p.changes \in Rows /\ p.ids \in SUBSET (Nodes \X Nat)
           /\ p.purged \in SUBSET Nodes /\ p.below \in SUBSET Nodes /\ p.tombs \in SUBSET Nodes
           /\ p.parents \in SUBSET (Nodes \cup {Top})
BY DEF Pulls

LEMMA CopyFields ==
    ASSUME NEW copy \in Copies
    PROVE  copy.rows \in Rows /\ copy.cursor \in Nat
BY DEF Copies

LEMMA TabFacts ==
    ASSUME ClientType, NEW t \in Tabs
    PROVE  /\ tab[t] \in TabState /\ tab[t].pull \in Pulls /\ tab[t].rebuilt \in BOOLEAN
           /\ tab[t].phase \in Phases
           /\ catalogue[t] \in Copies /\ mirror \in Copies
<1>1. tab[t] \in TabState /\ catalogue[t] \in Copies /\ mirror \in Copies
  BY DEF ClientType
<1> QED
  BY <1>1 DEF TabState

LEMMA WroteTab ==
    ASSUME NodeType, ServerOK, NEW n \in Nodes, Wrote(n), NEW phase, NEW p \in Pulls,
           NEW cat \in Copies, NEW mir \in Copies, TabInv(phase, p, cat, mir)
    PROVE  TabInv(phase, p, cat, mir)'
<1>1. /\ cat.cursor \in Nat /\ cat.cursor <= seqNo /\ p.cursor <= seqNo
  BY CopyFields DEF TabInv, CopyOK, PullOK
<1>2. /\ CopyOK(cat)' /\ PullOK(p)' /\ ListOK(p)' /\ PageOK(p)'
  BY WroteCopy, WrotePull DEF TabInv
<1>3. \A m \in Nodes : /\ node'[m].state = "dropped" => node[m].state = "dropped"
                       /\ Doomed(m)' <=> Doomed(m)
  BY WroteDoomed DEF Wrote
<1>4. Told(phase, p, cat, mir)'
  BY <1>3 DEF TabInv, Told, Started, Held, NoRow, Wrote
<1>5. TabOK(phase, p, cat)'
  <2>1. \A rows : Newer(rows, cat.cursor) => Newer(rows, cat.cursor)'
    BY <1>1, WroteNewer
  <2>2. Brought(p, cat.cursor) => Brought(p, cat.cursor)'
    BY <1>1, WroteBrought
  <2> QED
    BY <2>1, <2>2 DEF TabInv, TabOK
<1> QED
  BY <1>2, <1>4, <1>5 DEF TabInv

LEMMA WroteCalm ==
    ASSUME NodeType, ServerOK, NEW n \in Nodes, Wrote(n), NEW phase, NEW p \in Pulls,
           NEW cat \in Copies, NEW mir \in Copies, TabInv(phase, p, cat, mir), CopyOK(mir),
           p.pc # "listed", CalmInv(phase, p, cat, mir)
    PROVE  CalmInv(phase, p, cat, mir)'
<1>1. CalmPull(phase, p, cat, mir)'
  BY DEF CalmInv, CalmPull, Held, NoRow
<1>2. CalmTree(phase, p, cat.rows, mir.rows)'
  <2>1. \A rows \in Rows : Past(rows) /\ Settled(rows) => Settled(rows)'
    BY WroteSettled
  <2> DEFINE after == View(mir.rows, p.changes, p.tombs)
             filed == View(cat.rows, Put(p.arrived, p.changes), p.purged \cup p.tombs)
             held == View(cat.rows, p.arrived, p.purged)
  <2>2. /\ p.arrived \in Rows /\ p.changes \in Rows /\ cat.rows \in Rows /\ mir.rows \in Rows
        /\ Past(mir.rows) /\ Past(cat.rows) /\ Past(p.arrived)
        /\ p.pc = "paged" => Past(p.changes)
    BY PullFields, CopyFields DEF TabInv, CopyOK, PullOK, PageOK
  <2>3. after \in Rows /\ held \in Rows /\ filed \in Rows /\ Past(held)
        /\ (p.pc = "paged" => Past(after) /\ Past(filed))
    <3>1. Put(p.arrived, p.changes) \in Rows
      BY <2>2, PutFacts
    <3>2. p.pc = "paged" => Past(Put(p.arrived, p.changes))
      BY <2>2, PastPut
    <3> QED
      BY <2>2, <3>1, <3>2, ViewFacts
  <2>4. CalmTree(phase, p, cat.rows, mir.rows)' <=>
          /\ p.pc = "paged" /\ ~p.more =>
               /\ Settled(after)'
               /\ phase = "filed" /\ ~p.refile => Settled(filed)'
          /\ p.pc \in {"pulled", "swept"} =>
               /\ Settled(mir.rows)'
               /\ phase = "filed" /\ ~p.refile => Settled(held)'
    BY DEF CalmTree, View, Put, Without, NoRow
  <2>5. /\ p.pc = "paged" /\ ~p.more =>
             /\ Settled(after)
             /\ phase = "filed" /\ ~p.refile => Settled(filed)
        /\ p.pc \in {"pulled", "swept"} =>
             /\ Settled(mir.rows)
             /\ phase = "filed" /\ ~p.refile => Settled(held)
    BY DEF CalmInv, CalmTree
  <2>6. after' = after /\ filed' = filed /\ held' = held
    BY DEF View, Put, Without, NoRow
  <2> HIDE DEF after, filed, held
  <2> QED
    BY <2>1, <2>2, <2>3, <2>4, <2>5, <2>6
<1> QED
  BY <1>1, <1>2 DEF CalmInv

LEMMA WroteInv ==
    ASSUME IInv, NEW n \in Nodes, Wrote(n), NodeType', ServerOK'
    PROVE  IInv'
<1> USE DEF IInv
<1>1. ClientType'
  BY DEF ClientType, Wrote, Listing
<1>2. UNCHANGED <<mirror, tab, catalogue>> /\ lost' \subseteq lost /\ (calm' => calm /\ ~Listing)
  BY DEF Wrote
<1>3. CopyOK(mirror)'
  <2>1. \A copy \in Copies : CopyOK(copy) => CopyOK(copy)'
    BY WroteCopy
  <2> QED
    BY <1>2, <2>1 DEF ClientType
<1>4. ASSUME NEW t \in Tabs PROVE TabInv(tab[t].phase, tab[t].pull, catalogue[t], mirror)'
  <2>1. TabInv(tab[t].phase, tab[t].pull, catalogue[t], mirror)
    OBVIOUS
  <2>2. \A phase \in Phases, p \in Pulls, cat \in Copies, mir \in Copies :
           TabInv(phase, p, cat, mir) => TabInv(phase, p, cat, mir)'
    BY WroteTab
  <2>3. tab[t].phase \in Phases /\ tab[t].pull \in Pulls /\ catalogue[t] \in Copies /\ mirror \in Copies
    BY TabFacts
  <2> QED
    BY <1>2, <2>1, <2>2, <2>3
<1>5. CalmOK'
  <2> SUFFICES ASSUME calm'
               PROVE  /\ \E t \in Tabs : Tabs = {t}
                      /\ lost' = {}
                      /\ \A t \in Tabs : CalmInv(tab[t].phase, tab[t].pull, catalogue[t], mirror)'
    BY DEF CalmOK
  <2>1. (\E t \in Tabs : Tabs = {t}) /\ lost = {}
        /\ \A t \in Tabs : CalmInv(tab[t].phase, tab[t].pull, catalogue[t], mirror)
    BY <1>2 DEF CalmOK
  <2>2. ASSUME NEW t \in Tabs PROVE CalmInv(tab[t].phase, tab[t].pull, catalogue[t], mirror)'
    <3>1. \A phase \in Phases, p \in Pulls, cat \in Copies, mir \in Copies :
             /\ TabInv(phase, p, cat, mir) /\ CopyOK(mir) /\ p.pc # "listed"
             /\ CalmInv(phase, p, cat, mir)
             => CalmInv(phase, p, cat, mir)'
      BY WroteCalm
    <3>2. tab[t].pull.pc # "listed"
      BY <1>2 DEF Listing, Lists
    <3>3. tab[t].phase \in Phases /\ tab[t].pull \in Pulls /\ catalogue[t] \in Copies /\ mirror \in Copies
      BY TabFacts
    <3> QED
      BY <1>2, <2>1, <3>1, <3>2, <3>3
  <2> QED
    BY <1>2, <2>1, <2>2
<1> QED
  BY <1>1, <1>3, <1>4, <1>5

-----------------------------------------------------------------------------
(* Ninety days, and the purge job's second half. *)

LEMMA NoPullFacts ==
    /\ NoPull \in Pulls /\ NoPull.pc = "idle" /\ NoPull.cursor = 0 /\ NoPull.mirrored = 0
    /\ NoPull.first = TRUE /\ NoPull.refile = FALSE /\ NoPull.from = 0
    /\ NoPull.purged = {} /\ NoPull.below = {} /\ NoPull.arrived = NoRows
    /\ Held(NoPull.arrived) = {}
BY NoRowsFacts DEF NoPull, Pulls, PullPc

(* No pull: nothing to keep. *)
LEMMA NoPullOK ==
    ASSUME seqNo \in Nat, NEW p, p = NoPull
    PROVE  PullOK(p) /\ ListOK(p) /\ PageOK(p)
<1>1. ListOK(p) /\ PageOK(p)
  BY NoPullFacts DEF ListOK, PageOK
<1>2. PullOK(p)
  BY NoPullFacts DEF PullOK, Past
<1> QED
  BY <1>1, <1>2

(* The same after a step of the server. *)
LEMMA NoPullOKNext ==
    ASSUME seqNo' \in Nat, NEW p, p = NoPull
    PROVE  PullOK(p)' /\ ListOK(p)' /\ PageOK(p)'
<1>1. ListOK(p)' /\ PageOK(p)'
  BY NoPullFacts DEF ListOK, PageOK
<1>2. Held(NoPull.arrived)' = {} /\ (NoPull.arrived = NoRows)' /\ Held(p.arrived)' = {}
  BY NoPullFacts DEF Held, NoRows, NoRow
<1>3. (p = NoPull)'
  BY DEF NoPull, NoRows, NoRow
<1>4. PullOK(p)'
  BY <1>2, <1>3, NoPullFacts DEF PullOK, Past, NoRows, NoRow
<1> QED
  BY <1>1, <1>4

(* No tombstone is dropped in the middle of a pull, and no tab whose       *)
(* catalogue stands at nothing goes ninety days without one.               *)
Attended == "midpull" \notin Events /\ "asleep" \notin Events

LEMMA NinetyInv ==
    ASSUME IInv, Attended, Ninety
    PROVE  IInv'
<1> USE DEF IInv
<1>1. /\ \A t \in Tabs : tab[t].pull = NoPull
      /\ \A t \in Tabs : tab[t].phase = "filed" => catalogue[t].cursor > 0
      /\ old' = {n \in Nodes : node[n].state = "gone"}
      /\ UNCHANGED <<node, seqNo, dropped, mirror, tab, catalogue, lost, calm>>
  BY DEF Ninety, Attended
<1>2. NodeType' /\ ClientType' /\ ServerOK'
  BY <1>1 DEF NodeType, ClientType, ServerOK
<1>3. \A copy : CopyOK(copy) => CopyOK(copy)'
  BY <1>1 DEF CopyOK, Past, Held, NoRow, NoRows, Complete, Reached, Up, NoGhosts
<1>4. CopyOK(mirror)'
  BY <1>1, <1>3
<1>6. ASSUME NEW t \in Tabs PROVE TabInv(tab[t].phase, tab[t].pull, catalogue[t], mirror)'
  <2>1. /\ tab[t].pull = NoPull /\ tab[t].pull.pc = "idle"
        /\ UNCHANGED <<tab, catalogue, mirror>>
        /\ TabInv(tab[t].phase, tab[t].pull, catalogue[t], mirror)
    BY <1>1, NoPullFacts
  <2>2. CopyOK(catalogue[t])'
    BY <1>3, <2>1 DEF TabInv
  <2>3. PullOK(tab[t].pull)' /\ ListOK(tab[t].pull)' /\ PageOK(tab[t].pull)'
    <3>1. seqNo' \in Nat
      BY <1>2 DEF NodeType
    <3>2. tab'[t].pull = NoPull
      BY <2>1
    <3> QED
      BY <3>1, <3>2, NoPullOKNext
  <2>4. Told(tab[t].phase, tab[t].pull, catalogue[t], mirror)'
    <3>1. tab[t].phase = "filed" => catalogue[t].cursor # 0
      BY <1>1, TabFacts, CopyFields
    <3> QED
      BY <1>1, <2>1, <3>1 DEF Told
  <2>5. TabOK(tab[t].phase, tab[t].pull, catalogue[t])'
    <3>1. Held(tab[t].pull.arrived)' = {}
      BY <2>1, NoPullFacts DEF Held, NoRow
    <3> QED
      BY <1>1, <2>1, <3>1 DEF TabOK, TabInv, Newer
  <2> QED
    BY <2>2, <2>3, <2>4, <2>5 DEF TabInv
<1>7. CalmOK'
  BY <1>1, NoPullFacts DEF CalmOK, CalmInv, CalmPull, CalmTree
<1> QED
  BY <1>2, <1>4, <1>6, <1>7

LEMMA DeleteTombstoneInv ==
    ASSUME IInv, Attended, NEW n \in Nodes, DeleteTombstone(n)
    PROVE  IInv'
<1> USE DEF IInv
<1>1. /\ \A t \in Tabs : tab[t].pull = NoPull
      /\ n \in old /\ node[n].state = "gone"
      /\ node' = [node EXCEPT ![n].state = "dropped"]
      /\ old' = old \ {n}
      /\ dropped' = (IF node[n].seq > dropped THEN node[n].seq ELSE dropped)
      /\ calm' = (calm /\ ~Listing)
      /\ UNCHANGED <<seqNo, mirror, tab, catalogue, lost>>
  BY DEF DeleteTombstone, Attended, ServerOK
<1>2. /\ \A m \in Nodes \ {n} : node'[m] = node[m]
      /\ node'[n].state = "dropped" /\ node'[n].seq = node[n].seq /\ node'[n].parent = node[n].parent
      /\ \A m \in Nodes : node'[m].seq = node[m].seq /\ node'[m].parent = node[m].parent
      /\ \A m \in Nodes : /\ node'[m].state = "live" <=> node[m].state = "live"
                          /\ node'[m].state = "gone" => node[m].state = "gone"
                          /\ node'[m].state = "none" <=> node[m].state = "none"
  BY <1>1 DEF NodeType
<1>3. NodeType'
  BY <1>1 DEF NodeType
<1>4. ClientType'
  BY <1>1 DEF ClientType, Listing
<1>5. dropped <= dropped' /\ node[n].seq <= dropped' /\ dropped' <= seqNo
  BY <1>1 DEF NodeType, ServerOK
<1>6. ServerOK'
  <2> SUFFICES ASSUME NEW m \in Nodes
               PROVE  /\ node'[m].seq <= seqNo'
                      /\ node'[m].state = "none" => node'[m].seq = 0 /\ node'[m].parent = Top
                      /\ node'[m].state # "none" =>
                           node'[m].seq >= 1 /\ (node'[m].parent # Top => node'[node'[m].parent].state # "none")
                      /\ m \in old' => node'[m].state = "gone"
                      /\ node'[m].state = "dropped" => node'[m].seq <= dropped'
    BY <1>1, <1>5 DEF ServerOK
  <2>1. node[m].parent # Top => node[m].parent \in Nodes
    BY DEF NodeType
  <2>2. CASE m = n
    BY <1>1, <1>2, <1>5, <2>1, <2>2 DEF ServerOK
  <2>3. CASE m # n
    BY <1>1, <1>2, <1>5, <2>1, <2>3 DEF ServerOK, NodeType
  <2> QED
    BY <2>2, <2>3
<1>7. Up' = Up
  BY <1>2 DEF Up
<1>8. \A m \in Nodes : Reached(m)' <=> Reached(m)
  <2> SUFFICES ASSUME NEW m \in Nodes PROVE Reached(m)' <=> Reached(m)
    OBVIOUS
  <2>1. Climb(Up, m) \subseteq Nodes
    BY NodeFacts, ClimbFacts
  <2> QED
    BY <1>2, <1>7, <2>1 DEF Reached
<1>9. ASSUME NEW copy \in Copies, CopyOK(copy) PROVE CopyOK(copy)'
  <2>1. Past(copy.rows)'
    BY <1>1, <1>2, <1>9 DEF CopyOK, Past, Held, NoRow
  <2>2. Complete(copy)'
    BY <1>1, <1>2, <1>8, <1>9 DEF CopyOK, Complete, Held, NoRow
  <2>3. NoGhosts(copy)'
    <3> SUFFICES ASSUME NEW m \in Held(copy.rows)
                 PROVE  /\ node'[m].state = "gone" => node'[m].seq > copy.cursor
                        /\ node'[m].state = "dropped" => copy.cursor < dropped'
      BY DEF NoGhosts, Held, NoRow
    <3>1. m \in Nodes /\ copy.cursor \in Nat
      BY CopyFields DEF Held
    <3>2. /\ node[m].state = "gone" => node[m].seq > copy.cursor
          /\ node[m].state = "dropped" => copy.cursor < dropped
      BY <1>9 DEF CopyOK, NoGhosts
    <3> QED
      BY <1>1, <1>2, <1>3, <1>5, <3>1, <3>2 DEF NodeType
  <2> QED
    BY <1>1, <1>9, <2>1, <2>2, <2>3 DEF CopyOK, NoRows, NoRow
<1>10. CopyOK(mirror)'
  BY <1>1, <1>9 DEF ClientType
<1>11. \A t \in Tabs : tab[t].pull.pc = "idle"
  BY <1>1, NoPullFacts
<1>13. ASSUME NEW t \in Tabs PROVE TabInv(tab[t].phase, tab[t].pull, catalogue[t], mirror)'
  <2>1. /\ tab[t].pull = NoPull /\ tab[t].pull.pc = "idle"
        /\ UNCHANGED <<tab, catalogue, mirror>>
        /\ TabInv(tab[t].phase, tab[t].pull, catalogue[t], mirror)
    BY <1>1, <1>11
  <2>2. CopyOK(catalogue[t])'
    BY <1>9, <2>1, TabFacts DEF TabInv
  <2>3. PullOK(tab[t].pull)' /\ ListOK(tab[t].pull)' /\ PageOK(tab[t].pull)'
    <3>1. seqNo' \in Nat
      BY <1>3 DEF NodeType
    <3>2. tab'[t].pull = NoPull
      BY <2>1
    <3> QED
      BY <3>1, <3>2, NoPullOKNext
  <2>4. Told(tab[t].phase, tab[t].pull, catalogue[t], mirror)'
    <3>1. \A m \in Nodes : Doomed(m)' => Doomed(m)
      BY <1>1, <1>2 DEF Doomed
    <3> QED
      BY <1>1, <2>1, <3>1 DEF Told, TabInv, Held, NoRow
  <2>5. TabOK(tab[t].phase, tab[t].pull, catalogue[t])'
    <3>1. Held(tab[t].pull.arrived)' = {}
      BY <2>1, NoPullFacts DEF Held, NoRow
    <3> QED
      BY <1>1, <2>1, <3>1 DEF TabOK, TabInv, Newer
  <2> QED
    BY <2>2, <2>3, <2>4, <2>5 DEF TabInv
<1>14. CalmOK'
  BY <1>1, <1>11 DEF CalmOK, CalmInv, CalmPull, CalmTree
<1> QED
  BY <1>3, <1>4, <1>6, <1>10, <1>13, <1>14

-----------------------------------------------------------------------------
(* The tabs' steps: the server's rows stay, and what is lost only grows. *)

LEMMA QuietFacts ==
    ASSUME UNCHANGED server, lost \subseteq lost'
    PROVE  /\ \A n : (Reached(n)' <=> Reached(n)) /\ (Doomed(n)' <=> Doomed(n))
           /\ \A copy : CopyOK(copy) => CopyOK(copy)'
           /\ \A p : /\ PullOK(p) => PullOK(p)'
                     /\ ListOK(p) => ListOK(p)'
                     /\ PageOK(p) => PageOK(p)'
           /\ \A phase, p, cat : TabOK(phase, p, cat) => TabOK(phase, p, cat)'
           /\ \A phase, p, cat, mir : /\ Told(phase, p, cat, mir) => Told(phase, p, cat, mir)'
                                      /\ CalmInv(phase, p, cat, mir) => CalmInv(phase, p, cat, mir)'
<1> USE DEF server
<1>1. \A n : (Reached(n)' <=> Reached(n)) /\ (Doomed(n)' <=> Doomed(n))
  BY DEF Reached, Up, Doomed
<1>2. \A rows : Past(rows) => Past(rows)'
  BY DEF Past, Held, NoRow
<1>3. ASSUME NEW copy, CopyOK(copy) PROVE CopyOK(copy)'
  <2>1. Complete(copy)'
    BY <1>1, <1>3 DEF CopyOK, Complete, Held, NoRow
  <2>2. NoGhosts(copy)'
    BY <1>3 DEF CopyOK, NoGhosts, Held, NoRow
  <2> QED
    BY <1>2, <1>3, <2>1, <2>2 DEF CopyOK, NoRows, NoRow
<1>4. ASSUME NEW p PROVE /\ PullOK(p) => PullOK(p)'
                         /\ ListOK(p) => ListOK(p)'
                         /\ PageOK(p) => PageOK(p)'
  <2>1. PullOK(p) => PullOK(p)'
    BY <1>1, <1>2 DEF PullOK, NoPull, NoRows, NoRow, Held
  <2>2. ListOK(p) => ListOK(p)'
    BY DEF ListOK, Named, NoRows, NoRow
  <2>3. PageOK(p) => PageOK(p)'
    BY <1>1, <1>2 DEF PageOK, Named, Held, NoRow
  <2> QED
    BY <2>1, <2>2, <2>3
<1>5. ASSUME NEW phase, NEW p, NEW cat PROVE TabOK(phase, p, cat) => TabOK(phase, p, cat)'
  <2>1. \A rows, c : Newer(rows, c) => Newer(rows, c)'
    BY DEF Newer, Held, NoRow
  <2>2. \A c : Brought(p, c) => Brought(p, c)'
    BY DEF Brought
  <2> QED
    BY <2>1, <2>2 DEF TabOK
<1>6. ASSUME NEW phase, NEW p, NEW cat, NEW mir
      PROVE  /\ Told(phase, p, cat, mir) => Told(phase, p, cat, mir)'
             /\ CalmInv(phase, p, cat, mir) => CalmInv(phase, p, cat, mir)'
  <2>1. Told(phase, p, cat, mir) => Told(phase, p, cat, mir)'
    BY <1>1 DEF Told, Started, Held, NoRow
  <2>2. \A rows : Settled(rows) => Settled(rows)'
    BY <1>1 DEF Settled, Held, NoRow, Ordered
  <2>3. CalmPull(phase, p, cat, mir) => CalmPull(phase, p, cat, mir)'
    BY DEF CalmPull, Named, Held, NoRow
  <2>4. CalmTree(phase, p, cat.rows, mir.rows) => CalmTree(phase, p, cat.rows, mir.rows)'
    <3>1. \A a, b, S : View(a, b, S)' = View(a, b, S)
      BY DEF View, Put, Without, NoRow
    <3>2. Put(p.arrived, p.changes)' = Put(p.arrived, p.changes)
      BY DEF Put, NoRow
    <3> QED
      BY <2>2 DEF CalmTree, View, Put, Without, NoRow
  <2> QED
    BY <2>1, <2>3, <2>4 DEF CalmInv
<1> QED
  BY <1>1, <1>3, <1>4, <1>5, <1>6

(* A step of one tab keeps the invariant when what it leaves is right, and *)
(* the mirror gains no row that no tombstone will name.                    *)
LEMMA TabStep ==
    ASSUME IInv, UNCHANGED server, lost \subseteq lost', lost' \subseteq Nodes,
           NEW t \in Tabs, NEW s \in TabState, NEW cat \in Copies, NEW m \in Copies,
           tab' = [tab EXCEPT ![t] = s], catalogue' = [catalogue EXCEPT ![t] = cat], mirror' = m,
           calm' \in BOOLEAN, calm' => calm /\ lost' = {},
           CopyOK(m)', CopyOK(cat)',
           \A n \in Held(m.rows) : Doomed(n) => n \in Held(mirror.rows),
           \A n \in Held(m.rows) : node[n].state = "dropped" => m.cursor = mirror.cursor,
           PullOK(s.pull), ListOK(s.pull), PageOK(s.pull),
           TabOK(s.phase, s.pull, cat), Told(s.phase, s.pull, cat, m),
           calm' => CalmInv(s.phase, s.pull, cat, m)
    PROVE  IInv'
<1>1. NodeType' /\ ServerOK'
  BY DEF IInv, NodeType, ServerOK, server
<1>2. ClientType'
  BY DEF IInv, ClientType
<1>3. CopyOK(mirror)'
  <2>1. mirror' = m
    OBVIOUS
  <2> QED
    BY <2>1 DEF CopyOK, Past, Complete, NoGhosts, Held, NoRows, NoRow
<1>4. /\ tab'[t] = s /\ catalogue'[t] = cat
      /\ \A u \in Tabs \ {t} : tab'[u] = tab[u] /\ catalogue'[u] = catalogue[u]
  BY DEF IInv, ClientType
<1>5. ASSUME NEW u \in Tabs PROVE TabInv(tab[u].phase, tab[u].pull, catalogue[u], mirror)'
  <2> SUFFICES \A phase, p, c, mir :
                  phase = tab'[u].phase /\ p = tab'[u].pull /\ c = catalogue'[u] /\ mir = mirror' =>
                     TabInv(phase, p, c, mir)'
    <3>1. \A phase, p, c, mir :
             phase = tab'[u].phase /\ p = tab'[u].pull /\ c = catalogue'[u] /\ mir = mirror' =>
                 (TabInv(phase, p, c, mir)' <=> TabInv(tab[u].phase, tab[u].pull, catalogue[u], mirror)')
      OBVIOUS
    <3> QED
      BY <3>1
  <2> SUFFICES ASSUME NEW phase, NEW p, NEW c, NEW mir, phase = tab'[u].phase, p = tab'[u].pull,
                      c = catalogue'[u], mir = mirror'
               PROVE  TabInv(phase, p, c, mir)'
    OBVIOUS
  <2>1. CASE u = t
    <3>1. phase = s.phase /\ p = s.pull /\ c = cat /\ mir = m
      BY <1>4, <2>1
    <3>2. PullOK(p)' /\ ListOK(p)' /\ PageOK(p)' /\ TabOK(phase, p, c)' /\ Told(phase, p, c, mir)'
      BY <3>1, QuietFacts
    <3>3. CopyOK(c)'
      BY <3>1
    <3> QED
      BY <3>2, <3>3 DEF TabInv
  <2>2. CASE u # t
    <3>1. phase = tab[u].phase /\ p = tab[u].pull /\ c = catalogue[u] /\ mir = m
      BY <1>4, <2>2
    <3>2. TabInv(phase, p, c, mirror)
      BY <3>1 DEF IInv
    <3>3. Told(phase, p, c, mir)
      <4>1. \A n \in Held(m.rows) : node[n].state = "dropped" =>
               n \in Held(mirror.rows) /\ m.cursor = mirror.cursor
        BY DEF Doomed
      <4>2. Told(phase, p, c, mirror)
        BY <3>2 DEF TabInv
      <4> QED
        BY <3>1, <4>1, <4>2 DEF Told
    <3> QED
      BY <3>2, <3>3, QuietFacts DEF TabInv
  <2> QED
    BY <2>1, <2>2
<1>6. CalmOK'
  <2> SUFFICES ASSUME calm'
               PROVE  /\ \E u \in Tabs : Tabs = {u}
                      /\ lost' = {}
                      /\ \A u \in Tabs : CalmInv(tab[u].phase, tab[u].pull, catalogue[u], mirror)'
    BY DEF CalmOK
  <2>1. calm /\ lost' = {} /\ \E u \in Tabs : Tabs = {u}
    BY DEF IInv, CalmOK
  <2>2. ASSUME NEW u \in Tabs PROVE CalmInv(tab[u].phase, tab[u].pull, catalogue[u], mirror)'
    <3>1. CalmInv(s.phase, s.pull, cat, m)'
      BY QuietFacts
    <3>2. u = t
      BY <2>1
    <3>3. tab'[u].phase = s.phase /\ tab'[u].pull = s.pull /\ catalogue'[u] = cat /\ mirror' = m
      BY <1>4, <3>2
    <3> QED
      BY <3>1, <3>3
  <2> QED
    BY <2>1, <2>2
<1> QED
  BY <1>1, <1>2, <1>3, <1>5, <1>6 DEF IInv

(* A copy that holds nothing. *)
LEMMA EmptyCopy ==
    ASSUME NodeType, ServerOK, NEW copy, copy = [rows |-> NoRows, cursor |-> 0]
    PROVE  copy \in Copies /\ CopyOK(copy)
<1>1. copy \in Copies /\ copy.rows = NoRows /\ copy.cursor = 0 /\ Held(copy.rows) = {}
  BY NoRowsFacts DEF Copies
<1>2. Complete(copy)
  <2> SUFFICES ASSUME NEW n \in Nodes, Reached(n), node[n].seq <= 0 PROVE FALSE
    BY <1>1 DEF Complete
  <2>1. node[n].state = "live"
    BY ReachedFacts
  <2> QED
    BY <2>1 DEF ServerOK, NodeType
<1> QED
  BY <1>1, <1>2 DEF CopyOK, NodeType, Past, NoGhosts

(* A step that only changes one tab. *)
LEMMA PullStep ==
    ASSUME IInv, UNCHANGED <<server, mirror, catalogue, lost, calm>>,
           NEW t \in Tabs, NEW s \in TabState, tab' = [tab EXCEPT ![t] = s],
           PullOK(s.pull), ListOK(s.pull), PageOK(s.pull),
           TabOK(s.phase, s.pull, catalogue[t]), Told(s.phase, s.pull, catalogue[t], mirror),
           calm => CalmInv(s.phase, s.pull, catalogue[t], mirror)
    PROVE  IInv'
<1>1. /\ mirror \in Copies /\ catalogue[t] \in Copies /\ lost \subseteq Nodes /\ calm \in BOOLEAN
      /\ CopyOK(mirror) /\ CopyOK(catalogue[t]) /\ (calm => lost = {})
  BY DEF IInv, ClientType, TabInv, CalmOK
<1>2. catalogue' = [catalogue EXCEPT ![t] = catalogue[t]]
  BY DEF IInv, ClientType
<1>3. \A copy : CopyOK(copy) => CopyOK(copy)'
  BY QuietFacts
<1>4. ASSUME NEW cat, NEW m, cat = catalogue[t], m = mirror PROVE IInv'
  <2>1. /\ CopyOK(m)' /\ CopyOK(cat)' /\ cat \in Copies /\ m \in Copies
        /\ TabOK(s.phase, s.pull, cat) /\ Told(s.phase, s.pull, cat, m)
        /\ calm => CalmInv(s.phase, s.pull, cat, m)
    BY <1>1, <1>3, <1>4
  <2>2. mirror' = m /\ catalogue' = [catalogue EXCEPT ![t] = cat]
    BY <1>2, <1>4
  <2>3. m.rows = mirror.rows /\ m.cursor = mirror.cursor
    BY <1>4
  <2> QED
    BY <1>1, <2>1, <2>2, <2>3, TabStep
<1> QED
  BY <1>4

(* A tab's pull moves on. *)
LEMMA StepFacts ==
    ASSUME ClientType, NEW t \in Tabs, NEW p \in Pulls, Step(t, p)
    PROVE  \E s \in TabState : /\ s.phase = tab[t].phase /\ s.pull = p
                               /\ tab' = [tab EXCEPT ![t] = s]
<1>1. tab[t] \in TabState
  BY DEF ClientType
<1>2. [tab[t] EXCEPT !.pull = p] \in TabState
  BY <1>1 DEF TabState
<1>3. tab' = [tab EXCEPT ![t] = [tab[t] EXCEPT !.pull = p]]
  BY DEF Step
<1>4. [tab[t] EXCEPT !.pull = p].phase = tab[t].phase /\ [tab[t] EXCEPT !.pull = p].pull = p
  BY <1>1 DEF TabState
<1> QED
  BY <1>2, <1>3, <1>4

(* What the invariant says of one tab. *)
LEMMA InvTab ==
    ASSUME IInv, NEW t \in Tabs
    PROVE  /\ NodeType /\ ClientType /\ ServerOK /\ tab[t].pull \in Pulls /\ tab[t].phase \in Phases
           /\ tab[t] \in TabState /\ catalogue[t] \in Copies /\ mirror \in Copies
           /\ CopyOK(mirror) /\ CopyOK(catalogue[t])
           /\ PullOK(tab[t].pull) /\ ListOK(tab[t].pull) /\ PageOK(tab[t].pull)
           /\ TabOK(tab[t].phase, tab[t].pull, catalogue[t])
           /\ Told(tab[t].phase, tab[t].pull, catalogue[t], mirror)
           /\ calm => lost = {} /\ CalmInv(tab[t].phase, tab[t].pull, catalogue[t], mirror)
           /\ seqNo \in Nat /\ lost \subseteq Nodes /\ calm \in BOOLEAN
<1>1. TabInv(tab[t].phase, tab[t].pull, catalogue[t], mirror) /\ ClientType
  BY DEF IInv
<1>2. /\ tab[t].pull \in Pulls /\ tab[t].phase \in Phases /\ tab[t] \in TabState
      /\ catalogue[t] \in Copies /\ mirror \in Copies
  BY <1>1, TabFacts
<1> QED
  BY <1>1, <1>2 DEF IInv, TabInv, CalmOK, NodeType, ClientType

LEMMA PullStepAt ==
    ASSUME IInv, UNCHANGED <<server, mirror, catalogue, lost, calm>>,
           NEW t \in Tabs, NEW p \in Pulls, Step(t, p),
           PullOK(p), ListOK(p), PageOK(p),
           TabOK(tab[t].phase, p, catalogue[t]), Told(tab[t].phase, p, catalogue[t], mirror),
           calm => CalmInv(tab[t].phase, p, catalogue[t], mirror)
    PROVE  IInv'
<1>1. ClientType
  BY DEF IInv
<1>2. PICK s \in TabState : s.phase = tab[t].phase /\ s.pull = p /\ tab' = [tab EXCEPT ![t] = s]
  BY <1>1, StepFacts
<1> QED
  BY <1>2, PullStep

-----------------------------------------------------------------------------
(* A pull begins. *)

Begins(phase, p, cat, mir) ==
    /\ p \in Pulls /\ p.pc = "ask" /\ p.first /\ p.purged = {} /\ p.below = {}
    /\ p.arrived = NoRows /\ p.mirrored = mir.cursor
    /\ phase # "filed" => p.cursor = mir.cursor /\ ~p.refile
    /\ phase = "filed" =>
         /\ p.from = cat.cursor
         /\ p.cursor = Lesser(cat.cursor, mir.cursor)
         /\ p.refile <=> (p.cursor = 0 /\ cat.cursor > 0)

LEMMA PullFromFacts ==
    ASSUME IInv, NEW t \in Tabs, NEW attempt \in Nat
    PROVE  Begins(tab[t].phase, PullFrom(t, attempt), catalogue[t], mirror)
<1> DEFINE p == PullFrom(t, attempt)
<1>1. catalogue[t].cursor \in Nat /\ mirror.cursor \in Nat
  BY InvTab, CopyFields
<1>2. NoPull \in Pulls
  BY NoPullFacts
<1>3. Lesser(catalogue[t].cursor, mirror.cursor) \in Nat
  BY <1>1 DEF Lesser
<1>4. /\ p.pc = "ask" /\ p.first /\ p.purged = {} /\ p.below = {}
      /\ p.arrived = NoRows /\ p.mirrored = mirror.cursor
      /\ p.attempt = attempt
      /\ tab[t].phase # "filed" => p.cursor = mirror.cursor /\ ~p.refile
      /\ tab[t].phase = "filed" =>
           /\ p.from = catalogue[t].cursor
           /\ p.cursor = Lesser(catalogue[t].cursor, mirror.cursor)
           /\ p.refile <=> (p.cursor = 0 /\ catalogue[t].cursor > 0)
  BY <1>1, <1>3 DEF PullFrom, NoPull
<1>5. p \in Pulls
  <2>1. CASE tab[t].phase = "filed"
    BY <1>1, <1>2, <1>3, <2>1 DEF PullFrom, Pulls, PullPc
  <2>2. CASE tab[t].phase # "filed"
    BY <1>1, <1>2, <2>2 DEF PullFrom, Pulls, PullPc
  <2> QED
    BY <2>1, <2>2
<1> QED
  BY <1>4, <1>5 DEF Begins

(* A pull that has asked for nothing yet. *)
LEMMA NewPull ==
    ASSUME ServerOK, NEW p \in Pulls, p.pc = "ask", p.purged = {}, p.below = {}, p.arrived = NoRows,
           p.cursor <= seqNo, p.mirrored <= seqNo
    PROVE  PullOK(p) /\ ListOK(p) /\ PageOK(p)
BY NoRowsFacts DEF PullOK, ListOK, PageOK, Past

LEMMA PullAgain ==
    ASSUME IInv, NEW t \in Tabs, tab[t].phase = "filed", NEW attempt \in Nat,
           NEW p, p = PullFrom(t, attempt)
    PROVE  /\ p \in Pulls /\ PullOK(p) /\ ListOK(p) /\ PageOK(p)
           /\ TabOK("filed", p, catalogue[t]) /\ Told("filed", p, catalogue[t], mirror)
           /\ catalogue[t].cursor >= mirror.cursor => CalmInv("filed", p, catalogue[t], mirror)
<1> DEFINE cat == catalogue[t]
<1>1. /\ p \in Pulls /\ p.pc = "ask" /\ p.first /\ p.purged = {} /\ p.below = {}
      /\ p.arrived = NoRows /\ p.mirrored = mirror.cursor
      /\ p.from = cat.cursor /\ p.cursor = Lesser(cat.cursor, mirror.cursor)
      /\ p.refile <=> (p.cursor = 0 /\ cat.cursor > 0)
  <2>1. Begins(tab[t].phase, p, catalogue[t], mirror)
    BY PullFromFacts
  <2> QED
    BY <2>1 DEF Begins
<1>2. /\ cat.cursor \in Nat /\ mirror.cursor \in Nat /\ seqNo \in Nat
      /\ cat.cursor <= seqNo /\ mirror.cursor <= seqNo
      /\ CopyOK(cat) /\ CopyOK(mirror) /\ ServerOK
      /\ Told("filed", tab[t].pull, cat, mirror)
  BY InvTab, CopyFields DEF CopyOK
<1>3. /\ p.cursor \in Nat /\ p.cursor <= cat.cursor /\ p.cursor <= mirror.cursor
      /\ p.cursor = 0 => cat.cursor = 0 \/ mirror.cursor = 0
  BY <1>1, <1>2 DEF Lesser
<1>4. p.cursor <= seqNo /\ p.mirrored <= seqNo
  BY <1>1, <1>2, <1>3
<1> HIDE DEF cat
<1>5. PullOK(p) /\ ListOK(p) /\ PageOK(p)
  BY <1>1, <1>2, <1>4, NewPull
<1>6. TabOK("filed", p, cat)
  <2>1. Brought(p, cat.cursor)
    <3> SUFFICES ASSUME NEW n \in Nodes, cat.cursor < node[n].seq, node[n].seq <= p.cursor PROVE FALSE
      BY DEF Brought
    <3> QED
      BY <1>2, <1>3 DEF IInv, NodeType
  <2> QED
    BY <1>1, <2>1, NoRowsFacts DEF TabOK, Newer
<1>7. Told("filed", p, cat, mirror)
  <2>1. cat.cursor = 0 => \A n \in Held(mirror.rows) : ~Doomed(n)
    BY <1>2 DEF Told
  <2>2. ASSUME NEW n \in Held(mirror.rows), node[n].state = "dropped" PROVE p.cursor > 0
    <3>1. cat.cursor # 0
      BY <2>1, <2>2 DEF Doomed
    <3>2. mirror.cursor # 0
      BY <1>2, NoRowsFacts DEF CopyOK
    <3> QED
      BY <1>3, <3>1, <3>2
  <2>3. ASSUME NEW n \in Held(cat.rows), node[n].state = "dropped", ~p.refile
        PROVE  p.cursor > 0 /\ p.cursor < dropped
    <3>1. cat.cursor # 0 /\ cat.cursor < dropped
      BY <1>2, <2>3, NoRowsFacts DEF CopyOK, NoGhosts
    <3> QED
      BY <1>1, <1>2, <1>3, <2>3, <3>1 DEF IInv, NodeType
  <2> QED
    BY <1>1, <1>3, <2>1, <2>2, <2>3 DEF Told, Started
<1>8. cat.cursor >= mirror.cursor => CalmInv("filed", p, cat, mirror)
  BY <1>1, <1>2 DEF CalmInv, CalmPull, CalmTree, Lesser
<1> QED
  BY <1>1, <1>5, <1>6, <1>7, <1>8 DEF cat

LEMMA BeginInv ==
    ASSUME IInv, NEW t \in Tabs, tab[t].phase = "filed", tab[t].pull = NoPull,
           Step(t, PullFrom(t, 0)), UNCHANGED <<server, mirror, catalogue, lost, calm>>
    PROVE  IInv'
<1>1. /\ tab[t].phase = "filed" /\ tab[t].pull = NoPull
      /\ Step(t, PullFrom(t, 0)) /\ UNCHANGED <<server, mirror, catalogue, lost, calm>>
  OBVIOUS
<1> DEFINE p == PullFrom(t, 0)
<1>2. /\ p \in Pulls /\ PullOK(p) /\ ListOK(p) /\ PageOK(p)
      /\ TabOK("filed", p, catalogue[t]) /\ Told("filed", p, catalogue[t], mirror)
      /\ catalogue[t].cursor >= mirror.cursor => CalmInv("filed", p, catalogue[t], mirror)
  BY <1>1, PullAgain
<1>3. calm => catalogue[t].cursor >= mirror.cursor
  BY <1>1, InvTab, NoPullFacts DEF CalmInv, CalmPull
<1> HIDE DEF p
<1>4. Step(t, p)
  BY <1>1 DEF p
<1> QED
  BY <1>1, <1>2, <1>3, <1>4, PullStepAt

LEMMA OpenInv ==
    ASSUME IInv, NEW t \in Tabs, Open(t)
    PROVE  IInv'
<1> DEFINE p == PullFrom(t, 0)
           s == [tab[t] EXCEPT !.phase = "building", !.pull = p]
<1>1. /\ tab[t].phase = "closed" /\ tab' = [tab EXCEPT ![t] = s]
      /\ UNCHANGED <<server, mirror, catalogue, lost, calm>>
  BY DEF Open
<1>2. /\ p \in Pulls /\ p.pc = "ask" /\ p.first /\ p.purged = {} /\ p.below = {}
      /\ p.arrived = NoRows /\ p.mirrored = mirror.cursor /\ p.cursor = mirror.cursor
  <2>1. Begins(tab[t].phase, p, catalogue[t], mirror)
    BY PullFromFacts
  <2> HIDE DEF p
  <2> QED
    BY <1>1, <2>1 DEF Begins
<1> HIDE DEF p
<1>3. s \in TabState /\ s.phase = "building" /\ s.pull = p
  BY <1>2, InvTab DEF TabState, Phases
<1> HIDE DEF s
<1>4. /\ catalogue[t].cursor = 0 /\ catalogue[t].rows = NoRows /\ Held(catalogue[t].rows) = {}
  BY <1>1, InvTab, NoRowsFacts DEF TabOK, CopyOK
<1>5. mirror.cursor \in Nat /\ mirror.cursor <= seqNo /\ CopyOK(mirror) /\ ServerOK
  BY InvTab, CopyFields DEF CopyOK
<1>6. PullOK(p) /\ ListOK(p) /\ PageOK(p)
  BY <1>2, <1>5, NewPull
<1>7. TabOK("building", p, catalogue[t])
  BY <1>2, <1>4 DEF TabOK
<1>8. Told("building", p, catalogue[t], mirror)
  <2>1. mirror.cursor = 0 => Held(mirror.rows) = {}
    BY <1>5, NoRowsFacts DEF CopyOK
  <2> QED
    BY <1>2, <1>4, <1>5, <2>1 DEF Told, Started
<1>9. CalmInv("building", p, catalogue[t], mirror)
  BY <1>2 DEF CalmInv, CalmPull, CalmTree
<1> QED
  BY <1>1, <1>3, <1>6, <1>7, <1>8, <1>9, PullStep

-----------------------------------------------------------------------------
(* A listing, a statement at a time. *)

LEMMA ReadMarkInv ==
    ASSUME IInv, NEW t \in Tabs, ReadMark(t)
    PROVE  IInv'
<1> DEFINE q == tab[t].pull
           p == [q EXCEPT !.pc = "marked", !.resync = q.cursor > 0 /\ q.cursor < dropped]
<1>1. q.pc = "ask" /\ Step(t, p) /\ UNCHANGED <<server, mirror, catalogue, lost, calm>>
  BY DEF ReadMark
<1>2. q \in Pulls
  BY InvTab
<1>3. p \in Pulls
  BY <1>2 DEF Pulls, PullPc
<1>4. /\ p.pc = "marked" /\ (p.resync <=> q.cursor > 0 /\ q.cursor < dropped)
      /\ p.from = q.from /\ p.cursor = q.cursor /\ p.mirrored = q.mirrored /\ p.first = q.first
      /\ p.refile = q.refile /\ p.arrived = q.arrived /\ p.purged = q.purged /\ p.below = q.below
  BY <1>2 DEF Pulls
<1>5. /\ PullOK(q) /\ TabOK(tab[t].phase, q, catalogue[t]) /\ Told(tab[t].phase, q, catalogue[t], mirror)
      /\ calm => CalmInv(tab[t].phase, q, catalogue[t], mirror)
      /\ q.cursor \in Nat /\ mirror.cursor \in Nat /\ dropped \in Nat /\ NoGhosts(mirror)
  BY InvTab, CopyFields, PullFields DEF NodeType, CopyOK
<1> HIDE DEF p, q
<1>6. PullOK(p)
  BY <1>1, <1>4, <1>5 DEF PullOK
<1>7. ListOK(p) /\ PageOK(p)
  BY <1>4 DEF ListOK, PageOK
<1>8. TabOK(tab[t].phase, p, catalogue[t])
  BY <1>1, <1>4, <1>5 DEF TabOK, Brought
<1>9. Told(tab[t].phase, p, catalogue[t], mirror)
  <2>1. ASSUME NEW n \in Held(mirror.rows), node[n].state = "dropped"
        PROVE  Started(p) /\ p.mirrored = mirror.cursor /\ p.cursor <= mirror.cursor
    <3>1. Started(q) /\ q.mirrored = mirror.cursor /\ q.cursor <= mirror.cursor
      BY <1>1, <1>5, <2>1 DEF Told
    <3>2. mirror.cursor < dropped
      BY <1>5, <2>1 DEF NoGhosts
    <3> QED
      BY <1>4, <1>5, <3>1, <3>2 DEF Started
  <2>2. ASSUME NEW n \in Held(catalogue[t].rows), node[n].state = "dropped", ~p.refile
        PROVE  Started(p) /\ p.cursor < dropped
    <3>1. Started(q) /\ q.cursor < dropped
      BY <1>1, <1>4, <1>5, <2>2 DEF Told
    <3> QED
      BY <1>4, <1>5, <3>1 DEF Started
  <2> QED
    BY <1>5, <2>1, <2>2 DEF Told
<1>10. calm => CalmInv(tab[t].phase, p, catalogue[t], mirror)
  BY <1>1, <1>4, <1>5 DEF CalmInv, CalmPull, CalmTree
<1> QED
  BY <1>1, <1>3, <1>6, <1>7, <1>8, <1>9, <1>10, PullStepAt

(* A page names the first of what is listed: none that comes before one of *)
(* them is left out, and it is empty only when nothing is listed.          *)
Below(all, n) == {m \in all : node[m].seq < node[n].seq}
FirstIds(all) == {n \in all : Cardinality(Below(all, n)) < Page}

LEMMA FirstIdsFacts ==
    ASSUME NodeType, NEW all \in SUBSET Nodes
    PROVE  /\ \A n \in FirstIds(all), m \in all : node[m].seq <= node[n].seq => m \in FirstIds(all)
           /\ all # {} => FirstIds(all) # {}
<1>1. ASSUME NEW n \in all PROVE IsFiniteSet(Below(all, n)) /\ Cardinality(Below(all, n)) \in Nat
  <2>1. Below(all, n) \subseteq Nodes
    BY DEF Below
  <2> QED
    BY <2>1, NodeFacts, FS_Subset, FS_CardinalityType
<1>2. \A n \in Nodes : node[n].seq \in Nat
  BY DEF NodeType
<1>3. Page \in Nat /\ Page > 0
  BY FeedAssumption
<1>4. ASSUME NEW n \in FirstIds(all), NEW m \in all, node[m].seq <= node[n].seq PROVE m \in FirstIds(all)
  <2>1. n \in all /\ Cardinality(Below(all, n)) < Page
    BY DEF FirstIds
  <2>2. Below(all, m) \subseteq Below(all, n)
    BY <1>2, <1>4, <2>1 DEF Below
  <2>3. Cardinality(Below(all, m)) <= Cardinality(Below(all, n))
    BY <1>1, <2>1, <2>2, FS_Subset
  <2>4. Cardinality(Below(all, m)) < Page
    BY <1>1, <1>3, <2>1, <2>3
  <2> QED
    BY <2>4 DEF FirstIds
<1>5. ASSUME all # {} PROVE FirstIds(all) # {}
  <2> DEFINE seqs == {node[n].seq : n \in all}
  <2>1. seqs \in SUBSET Nat /\ seqs # {}
    BY <1>2, <1>5
  <2> HIDE DEF seqs
  <2>2. PICK s \in seqs : \A k \in seqs : s <= k
    BY <2>1, LeastNat
  <2>3. PICK n \in all : s = node[n].seq
    BY DEF seqs
  <2>4. Below(all, n) = {}
    <3>1. \A m \in all : node[n].seq <= node[m].seq
      BY <2>2, <2>3 DEF seqs
    <3> QED
      BY <1>2, <2>3, <3>1 DEF Below
  <2>5. Cardinality(Below(all, n)) = 0
    BY <2>4, FS_EmptySet
  <2> QED
    BY <1>3, <2>3, <2>5 DEF FirstIds
<1> QED
  BY <1>4, <1>5

LEMMA ReadIdsInv ==
    ASSUME IInv, NEW t \in Tabs, ReadIds(t)
    PROVE  IInv'
<1> DEFINE q == tab[t].pull
           all == Listed(q.cursor)
           first == FirstIds(all)
           ids == {<<n, node[n].seq>> : n \in first}
           p == [q EXCEPT !.pc = "listed", !.ids = ids, !.more = all # first]
<1>1. q.pc = "marked" /\ Step(t, p) /\ UNCHANGED <<server, mirror, catalogue, lost, calm>>
  BY DEF ReadIds, FirstPage, FirstIds, Below
<1>2. q \in Pulls /\ NodeType /\ ServerOK /\ q.cursor \in Nat /\ all \in SUBSET Nodes
  BY InvTab, PullFields DEF Listed
<1>3. /\ first \subseteq all
      /\ \A n \in first, m \in all : node[m].seq <= node[n].seq => m \in first
      /\ all # {} => first # {}
  BY <1>2, FirstIdsFacts DEF FirstIds
<1>4. \A n \in Nodes : n \in all <=> Named(n) /\ node[n].seq > q.cursor
  BY DEF Listed, Named
<1>5. \A n \in Nodes : node[n].seq \in Nat
  BY <1>2 DEF NodeType
<1> HIDE DEF all, first
<1>6. ids \in SUBSET (Nodes \X Nat)
  BY <1>2, <1>3, <1>5
<1> HIDE DEF ids
<1>7. p \in Pulls
  BY <1>2, <1>6 DEF Pulls, PullPc
<1>8. /\ p.pc = "listed" /\ p.ids = ids /\ (p.more <=> all # first)
      /\ p.from = q.from /\ p.cursor = q.cursor /\ p.mirrored = q.mirrored /\ p.first = q.first
      /\ p.refile = q.refile /\ p.arrived = q.arrived /\ p.purged = q.purged /\ p.below = q.below
      /\ p.resync = q.resync
  BY <1>2 DEF Pulls
<1>9. /\ PullOK(q) /\ TabOK(tab[t].phase, q, catalogue[t]) /\ Told(tab[t].phase, q, catalogue[t], mirror)
      /\ calm => CalmInv(tab[t].phase, q, catalogue[t], mirror)
  BY InvTab
<1> HIDE DEF p, q
<1>10. PullOK(p)
  BY <1>1, <1>8, <1>9 DEF PullOK
<1>11. ListOK(p)
  <2>1. ASSUME NEW i \in ids PROVE p.cursor < i[2] /\ i[2] <= node[i[1]].seq /\ Named(i[1])
    <3>1. PICK n \in first : i = <<n, node[n].seq>>
      BY DEF ids
    <3> QED
      BY <1>2, <1>3, <1>4, <1>5, <1>8, <3>1
  <2>2. ASSUME NEW n \in Nodes, NEW i \in ids, Named(n), p.cursor < node[n].seq, node[n].seq <= i[2]
        PROVE  <<n, node[n].seq>> \in ids
    <3>1. PICK m \in first : i = <<m, node[m].seq>>
      BY DEF ids
    <3>2. n \in all
      BY <1>2, <1>4, <1>5, <1>8, <2>2
    <3>3. n \in first
      BY <1>3, <2>2, <3>1, <3>2
    <3> QED
      BY <3>3 DEF ids
  <2>3. ASSUME p.cursor = 0, p.arrived # NoRows PROVE ids # {}
    <3>1. p.arrived \in Rows /\ Past(p.arrived) /\ \A n \in Held(p.arrived) : ~Doomed(n)
      BY <1>2, <1>8, <1>9, PullFields DEF PullOK
    <3>2. PICK n \in Nodes : p.arrived[n] # NoRow
      BY <2>3, <3>1 DEF Rows, NoRows
    <3>3. n \in Held(p.arrived) /\ p.arrived[n].seq \in Nat
      BY <3>1, <3>2, RowFacts DEF Held
    <3>4. node[n].seq >= 1 /\ node[n].state # "dropped"
      BY <1>5, <3>1, <3>3 DEF Past, Doomed
    <3>5. Named(n)
      BY <1>2, <3>4 DEF Named, ServerOK, NodeType
    <3>6. n \in all
      BY <1>4, <1>5, <1>8, <2>3, <3>4, <3>5
    <3>7. PICK m \in first : TRUE
      BY <1>3, <3>6
    <3> QED
      BY <3>7 DEF ids
  <2> QED
    BY <1>8, <2>1, <2>2, <2>3 DEF ListOK
<1>12. PageOK(p)
  BY <1>8 DEF PageOK
<1>13. TabOK(tab[t].phase, p, catalogue[t])
  BY <1>1, <1>8, <1>9 DEF TabOK, Brought
<1>14. Told(tab[t].phase, p, catalogue[t], mirror)
  BY <1>1, <1>8, <1>9 DEF Told, Started
<1>15. calm => CalmInv(tab[t].phase, p, catalogue[t], mirror)
  <2> SUFFICES ASSUME calm PROVE CalmInv(tab[t].phase, p, catalogue[t], mirror)
    OBVIOUS
  <2>1. ~p.more => \A n \in Nodes : Named(n) /\ node[n].seq > p.cursor => <<n, node[n].seq>> \in p.ids
    BY <1>4, <1>8 DEF ids
  <2> QED
    BY <1>1, <1>8, <1>9, <2>1 DEF CalmInv, CalmPull, CalmTree
<1> QED
  BY <1>1, <1>7, <1>10, <1>11, <1>12, <1>13, <1>14, <1>15, PullStepAt

(* Numbers up to a bound have a greatest. *)
LEMMA GreatestNat ==
    ASSUME NEW bound \in Nat, NEW S, S # {}, \A k \in S : k \in Nat /\ k <= bound
    PROVE  \E m \in S : \A k \in S : k <= m
<1> DEFINE T == {bound - k : k \in S}
<1>1. T \in SUBSET Nat /\ T # {}
  OBVIOUS
<1>2. \A k \in S : bound - k \in T
  OBVIOUS
<1>3. \A m \in T : \E k \in S : m = bound - k
  OBVIOUS
<1> HIDE DEF T
<1>4. PICK m \in T : \A k \in T : m <= k
  BY <1>1, LeastNat
<1>5. PICK k \in S : m = bound - k
  BY <1>3
<1> QED
  BY <1>2, <1>4, <1>5

(* Rows that hold whatever can be reached as it is are a tree. *)
LEMMA SettledWhen ==
    ASSUME ServerOK, NEW rows \in Rows, Past(rows),
           \A n \in Nodes : Reached(n) => rows[n].seq = node[n].seq
    PROVE  Settled(rows)
<1> SUFFICES ASSUME NEW n \in Held(rows), Reached(n) PROVE n \in Ordered(rows)
  BY DEF Settled
<1>1. n \in Nodes
  BY DEF Held
<1>2. \A a \in Climb(Up, n) : a \in Nodes /\ Reached(a) /\ node[a].state = "live"
  BY <1>1, ReachedFacts
<1>3. \A a \in Climb(Up, n) : a \in Held(rows) /\ rows[a].parent = node[a].parent
  BY <1>2, CurrentRow
<1> QED
  BY <1>1, <1>3, OrderedHas

(* The last page, with what came before it, holds whatever can be reached. *)
LEMMA LastPage ==
    ASSUME NodeType, ServerOK, lost = {}, NEW p \in Pulls, NEW cat \in Copies, NEW mir \in Copies,
           CopyOK(mir), CopyOK(cat), PullOK(p), Past(p.changes), p.cursor = mir.cursor,
           \A n \in p.tombs : node[n].state = "gone",
           \A n \in Held(p.changes) : p.changes[n].seq = node[n].seq,
           \A n \in Nodes : node[n].state = "live" /\ node[n].seq > p.cursor => n \in Held(p.changes)
    PROVE  /\ Settled(View(mir.rows, p.changes, p.tombs))
           /\ Newer(p.arrived, cat.cursor) /\ Brought(p, cat.cursor) =>
                Settled(View(cat.rows, Put(p.arrived, p.changes), p.purged \cup p.tombs))
<1>1. /\ p.arrived \in Rows /\ p.changes \in Rows /\ cat.rows \in Rows /\ mir.rows \in Rows
      /\ Past(mir.rows) /\ Past(cat.rows) /\ Past(p.arrived)
      /\ p.cursor \in Nat /\ cat.cursor \in Nat /\ mir.cursor \in Nat
  BY PullFields, CopyFields DEF CopyOK, PullOK
<1>2. \A n \in Nodes : Reached(n) => node[n].state = "live" /\ node[n].seq \in Nat /\ node[n].seq >= 1
  BY ReachedFacts DEF NodeType, ServerOK
<1>3. Settled(View(mir.rows, p.changes, p.tombs))
  <2> DEFINE rows == View(mir.rows, p.changes, p.tombs)
  <2>1. /\ rows \in Rows /\ Past(rows)
        /\ \A n \in Nodes : rows[n] = IF n \in p.tombs THEN NoRow
                                      ELSE IF n \in Held(p.changes) THEN p.changes[n] ELSE mir.rows[n]
    BY <1>1, ViewFacts
  <2> HIDE DEF rows
  <2>2. ASSUME NEW n \in Nodes, Reached(n) PROVE rows[n].seq = node[n].seq
    <3>1. n \notin p.tombs
      BY <1>2, <2>2
    <3>2. CASE n \in Held(p.changes)
      BY <2>1, <3>1, <3>2
    <3>3. CASE n \notin Held(p.changes)
      <4>1. node[n].seq <= mir.cursor
        BY <1>1, <1>2, <2>2, <3>3
      <4>2. mir.rows[n].seq = node[n].seq
        BY <2>2, <4>1 DEF CopyOK, Complete
      <4> QED
        BY <2>1, <3>1, <3>3, <4>2
    <3> QED
      BY <3>2, <3>3
  <2>3. Settled(rows)
    BY <2>1, <2>2, SettledWhen
  <2> QED
    BY <2>3 DEF rows
<1>4. ASSUME Newer(p.arrived, cat.cursor), Brought(p, cat.cursor)
      PROVE  Settled(View(cat.rows, Put(p.arrived, p.changes), p.purged \cup p.tombs))
  <2> DEFINE new == Put(p.arrived, p.changes)
             gone == p.purged \cup p.tombs
             rows == View(cat.rows, new, gone)
  <2>1. /\ new \in Rows /\ Past(new) /\ Held(new) = Held(p.arrived) \cup Held(p.changes)
        /\ \A n \in Nodes : new[n] = IF n \in Held(p.changes) THEN p.changes[n] ELSE p.arrived[n]
    BY <1>1, PutFacts, PastPut
  <2> HIDE DEF new
  <2>2. \A n \in gone : node[n].state = "gone"
    BY DEF PullOK
  <2> HIDE DEF gone
  <2>3. /\ rows \in Rows /\ Past(rows)
        /\ \A n \in Nodes : rows[n] = IF n \in gone THEN NoRow
                                      ELSE IF n \in Held(new) THEN new[n] ELSE cat.rows[n]
    BY <1>1, <2>1, ViewFacts
  <2> HIDE DEF rows
  <2>4. ASSUME NEW n \in Nodes, Reached(n) PROVE rows[n].seq = node[n].seq
    <3>1. n \notin gone
      BY <1>2, <2>2, <2>4
    <3>2. CASE n \in Held(p.changes)
      BY <2>1, <2>3, <3>1, <3>2
    <3>3. CASE n \notin Held(p.changes) /\ node[n].seq > cat.cursor
      <4>1. node[n].seq <= p.cursor
        BY <1>1, <1>2, <2>4, <3>3
      <4>2. p.arrived[n].seq = node[n].seq
        BY <1>2, <1>4, <2>4, <3>3, <4>1 DEF Brought
      <4>3. n \in Held(p.arrived)
        BY <1>1, <1>2, <2>4, <4>2, RowFacts
      <4> QED
        BY <2>1, <2>3, <3>1, <3>3, <4>2, <4>3
    <3>4. CASE n \notin Held(p.changes) /\ node[n].seq <= cat.cursor
      <4>1. CASE n \in Held(p.arrived)
        <5>1. p.arrived[n].seq = node[n].seq
          BY <1>1, <1>2, <1>4, <2>4, <3>4, <4>1 DEF Newer
        <5> QED
          BY <2>1, <2>3, <3>1, <3>4, <4>1, <5>1
      <4>2. CASE n \notin Held(p.arrived)
        <5>1. cat.rows[n].seq = node[n].seq
          BY <2>4, <3>4 DEF CopyOK, Complete
        <5> QED
          BY <2>1, <2>3, <3>1, <3>4, <4>2, <5>1
      <4> QED
        BY <4>1, <4>2
    <3> QED
      BY <1>1, <1>2, <2>4, <3>2, <3>3, <3>4
  <2>5. Settled(rows)
    BY <2>3, <2>4, SettledWhen
  <2> QED
    BY <2>5 DEF rows, new, gone
<1> QED
  BY <1>3, <1>4

LEMMA ReadNodesInv ==
    ASSUME IInv, NEW t \in Tabs, ReadNodes(t)
    PROVE  IInv'
<1> DEFINE q == tab[t].pull
           named == {i[1] : i \in q.ids}
           changes == [n \in Nodes |-> IF n \in named /\ node[n].state = "live"
                                       THEN [parent |-> node[n].parent, seq |-> node[n].seq] ELSE NoRow]
           tombs == {n \in named : node[n].state = "gone"}
           next == IF q.ids = {} THEN q.cursor
                   ELSE CHOOSE s \in {i[2] : i \in q.ids} : \A i \in q.ids : i[2] <= s
           p == [q EXCEPT !.pc = "paged", !.changes = changes, !.tombs = tombs, !.next = next]
<1>1. /\ q.pc = "listed" /\ Step(t, p) /\ UNCHANGED <<server, mirror, catalogue, lost, calm>>
      /\ \A i \in q.ids : node[i[1]].state # "dropped"
  BY DEF ReadNodes
<1>2. /\ q \in Pulls /\ NodeType /\ ServerOK /\ q.cursor \in Nat /\ q.ids \in SUBSET (Nodes \X Nat)
      /\ ListOK(q) /\ PullOK(q) /\ TabOK(tab[t].phase, q, catalogue[t])
      /\ Told(tab[t].phase, q, catalogue[t], mirror)
      /\ calm => lost = {} /\ CalmInv(tab[t].phase, q, catalogue[t], mirror)
      /\ seqNo \in Nat /\ catalogue[t] \in Copies /\ mirror \in Copies /\ CopyOK(mirror) /\ CopyOK(catalogue[t])
  BY InvTab, PullFields
<1>3. \A n \in Nodes : node[n].seq \in Nat /\ node[n].seq <= seqNo
  BY <1>2 DEF NodeType, ServerOK
<1> HIDE DEF q
<1>4. \A i \in q.ids : i[1] \in Nodes /\ i[2] \in Nat /\ q.cursor < i[2] /\ i[2] <= node[i[1]].seq /\ Named(i[1])
  BY <1>1, <1>2 DEF ListOK
<1>5. named \in SUBSET Nodes /\ tombs \in SUBSET Nodes
  BY <1>4
<1>6. changes \in Rows /\ \A n \in Nodes : n \in Held(changes) <=> n \in named /\ node[n].state = "live"
  <2>1. \A n \in Nodes : node[n].state = "live" => node[n].seq >= 1
    BY <1>2 DEF ServerOK
  <2> QED
    BY <1>2, <2>1 DEF NodeType, Rows, Held, NoRow
<1>7. \A n \in Held(changes) : /\ n \in Nodes /\ n \in named /\ node[n].state = "live" /\ node[n].seq >= 1
                               /\ changes[n].seq = node[n].seq /\ changes[n].parent = node[n].parent
  <2>1. \A n \in Nodes : node[n].state = "live" => node[n].seq >= 1
    BY <1>2 DEF ServerOK
  <2> QED
    BY <1>6, <2>1 DEF Held
<1>8. /\ next \in Nat /\ q.cursor <= next /\ next <= seqNo /\ \A i \in q.ids : i[2] <= next
      /\ q.ids # {} => \E i \in q.ids : next = i[2]
      /\ q.ids = {} => next = q.cursor
  <2>1. CASE q.ids = {}
    BY <1>2, <2>1 DEF PullOK
  <2>2. CASE q.ids # {}
    <3> DEFINE S == {i[2] : i \in q.ids}
    <3>1. S # {} /\ \A k \in S : k \in Nat /\ k <= seqNo
      BY <1>2, <1>3, <1>4, <2>2
    <3>2. \A i \in q.ids : i[2] \in S
      OBVIOUS
    <3>3. \A k \in S : \E i \in q.ids : k = i[2]
      OBVIOUS
    <3>4. next = CHOOSE s \in S : \A i \in q.ids : i[2] <= s
      BY <2>2
    <3> HIDE DEF S, next
    <3>5. \E m \in S : \A k \in S : k <= m
      BY <1>2, <3>1, GreatestNat
    <3>6. \E m \in S : \A i \in q.ids : i[2] <= m
      BY <3>2, <3>5
    <3>7. next \in S /\ \A i \in q.ids : i[2] <= next
      BY <3>4, <3>6
    <3>8. PICK i \in q.ids : next = i[2]
      BY <3>3, <3>7
    <3> QED
      BY <1>2, <1>4, <2>2, <3>1, <3>7, <3>8
  <2> QED
    BY <2>1, <2>2
<1>9. \A n \in tombs : n \in named /\ node[n].state = "gone"
  OBVIOUS
<1>10. \A n \in named : \E i \in q.ids : i[1] = n
  OBVIOUS
<1>11. \A i \in q.ids : i[1] \in named
  OBVIOUS
<1>12. \A n \in named : node[n].state = "gone" => n \in tombs
  OBVIOUS
<1> HIDE DEF changes, tombs, next, named
<1>13. p \in Pulls
  BY <1>2, <1>5, <1>6, <1>8 DEF Pulls, PullPc
<1>14. /\ p.pc = "paged" /\ p.changes = changes /\ p.tombs = tombs /\ p.next = next
       /\ p.from = q.from /\ p.cursor = q.cursor /\ p.mirrored = q.mirrored /\ p.first = q.first
       /\ p.refile = q.refile /\ p.arrived = q.arrived /\ p.purged = q.purged /\ p.below = q.below
       /\ p.resync = q.resync /\ p.ids = q.ids /\ p.more = q.more
  BY <1>2 DEF Pulls
<1> HIDE DEF p
<1>15. PullOK(p)
  BY <1>1, <1>2, <1>14 DEF PullOK
<1>16. ListOK(p)
  BY <1>1, <1>2, <1>14 DEF ListOK
<1>17. PageOK(p)
  <2>1. Past(changes)
    BY <1>3, <1>7 DEF Past
  <2>2. ASSUME NEW n \in Held(changes)
        PROVE  ~Doomed(n) /\ n \notin tombs /\ n \notin q.purged /\ \E i \in q.ids : i[1] = n
    BY <1>2, <1>7, <1>9, <1>10 DEF Doomed, ServerOK, PullOK
  <2>3. ASSUME NEW n \in Nodes, Named(n), q.cursor < node[n].seq, node[n].seq <= next
        PROVE  /\ <<n, node[n].seq>> \in q.ids
               /\ node[n].state = "live" => changes[n].seq = node[n].seq
               /\ node[n].state = "gone" => n \in tombs
    <3>1. q.ids # {}
      BY <1>2, <1>3, <1>8, <2>3
    <3>2. PICK i \in q.ids : next = i[2]
      BY <1>8, <3>1
    <3>3. <<n, node[n].seq>> \in q.ids
      BY <1>1, <1>2, <2>3, <3>2 DEF ListOK
    <3>4. n \in named
      BY <1>11, <3>3
    <3> QED
      BY <1>6, <1>7, <1>12, <3>3, <3>4
  <2> QED
    BY <1>8, <1>9, <1>10, <1>14, <2>1, <2>2, <2>3 DEF PageOK
<1>18. \A cursor : Newer(changes, cursor)
  BY <1>7 DEF Newer
<1>19. TabOK(tab[t].phase, p, catalogue[t])
  BY <1>1, <1>2, <1>14, <1>18 DEF TabOK, Brought
<1>20. Told(tab[t].phase, p, catalogue[t], mirror)
  BY <1>1, <1>2, <1>14 DEF Told, Started
<1>21. calm => CalmInv(tab[t].phase, p, catalogue[t], mirror)
  <2> SUFFICES ASSUME calm PROVE CalmInv(tab[t].phase, p, catalogue[t], mirror)
    OBVIOUS
  <2>1. lost = {} /\ CalmPull(tab[t].phase, q, catalogue[t], mirror)
    BY <1>2 DEF CalmInv
  <2>2. CalmPull(tab[t].phase, p, catalogue[t], mirror)
    BY <1>1, <1>14, <2>1 DEF CalmPull
  <2>3. ASSUME ~p.more
        PROVE  /\ Settled(View(mirror.rows, p.changes, p.tombs))
               /\ tab[t].phase = "filed" /\ ~p.refile =>
                    Settled(View(catalogue[t].rows, Put(p.arrived, p.changes), p.purged \cup p.tombs))
    <3>1. p.cursor = mirror.cursor
      BY <1>14, <2>2 DEF CalmPull
    <3>2. \A n \in Nodes : node[n].state = "live" /\ node[n].seq > p.cursor => n \in Held(p.changes)
      <4> SUFFICES ASSUME NEW n \in Nodes, node[n].state = "live", node[n].seq > p.cursor
                   PROVE  n \in Held(changes)
        BY <1>14
      <4>1. <<n, node[n].seq>> \in q.ids
        BY <1>1, <1>14, <2>1, <2>3 DEF CalmPull, Named
      <4> QED
        BY <1>6, <1>11, <4>1
    <3>3. /\ \A n \in Held(p.changes) : p.changes[n].seq = node[n].seq
          /\ \A n \in p.tombs : node[n].state = "gone"
          /\ Past(p.changes)
      BY <1>7, <1>9, <1>14, <1>17 DEF PageOK
    <3>4. /\ Settled(View(mirror.rows, p.changes, p.tombs))
          /\ Newer(p.arrived, catalogue[t].cursor) /\ Brought(p, catalogue[t].cursor) =>
               Settled(View(catalogue[t].rows, Put(p.arrived, p.changes), p.purged \cup p.tombs))
      BY <1>2, <1>13, <1>15, <2>1, <3>1, <3>2, <3>3, LastPage
    <3> QED
      BY <1>14, <1>19, <3>4 DEF TabOK
  <2> QED
    BY <1>14, <2>2, <2>3 DEF CalmInv, CalmTree
<1> QED
  BY <1>1, <1>13, <1>15, <1>16, <1>17, <1>19, <1>20, <1>21, PullStepAt

-----------------------------------------------------------------------------
(* A tab starts over, or goes back.  *)

LEMMA StartOverInv ==
    ASSUME IInv, NEW t \in Tabs, StartOver(t)
    PROVE  IInv'
<1> DEFINE q == tab[t].pull
           cat == catalogue[t]
           phase == tab[t].phase
<1>1. /\ q.pc = "paged" /\ q.first /\ q.resync /\ q.cursor > 0
      /\ UNCHANGED <<server, catalogue, lost, calm>>
  BY DEF StartOver
<1>2. /\ q \in Pulls /\ NodeType /\ ServerOK /\ PullOK(q) /\ TabOK(phase, q, cat)
      /\ Told(phase, q, cat, mirror) /\ (calm => lost = {} /\ CalmInv(phase, q, cat, mirror))
      /\ q.cursor \in Nat /\ q.mirrored \in Nat /\ seqNo \in Nat /\ cat.cursor \in Nat
      /\ ClientType /\ cat \in Copies /\ CopyOK(cat) /\ mirror.cursor \in Nat
      /\ lost \subseteq Nodes /\ calm \in BOOLEAN
  BY InvTab, PullFields, CopyFields
<1>3. CASE q.cursor < q.mirrored
  <2> DEFINE p == [q EXCEPT !.pc = "ask", !.refile = TRUE, !.cursor = q.mirrored]
  <2>1. Step(t, p) /\ UNCHANGED mirror
    BY <1>3 DEF StartOver
  <2> HIDE DEF q
  <2>2. p \in Pulls
    BY <1>2 DEF Pulls, PullPc
  <2>3. /\ p.pc = "ask" /\ p.refile /\ p.cursor = q.mirrored
        /\ p.from = q.from /\ p.mirrored = q.mirrored /\ p.first = q.first
        /\ p.arrived = q.arrived /\ p.purged = q.purged /\ p.below = q.below
    BY <1>2 DEF Pulls
  <2> HIDE DEF p, cat, phase
  <2>4. PullOK(p) /\ ListOK(p) /\ PageOK(p)
    BY <1>1, <1>2, <2>3 DEF PullOK, ListOK, PageOK
  <2>5. TabOK(phase, p, cat)
    BY <1>1, <1>2, <2>3 DEF TabOK
  <2>6. Told(phase, p, cat, mirror)
    BY <1>1, <1>2, <1>3, <2>3 DEF Told, Started
  <2>7. calm => CalmInv(phase, p, cat, mirror)
    BY <1>1, <1>2, <1>3 DEF CalmInv, CalmPull
  <2> QED
    BY <1>1, <2>1, <2>2, <2>4, <2>5, <2>6, <2>7, PullStepAt DEF cat, phase
<1>4. CASE ~(q.cursor < q.mirrored)
  <2> DEFINE p == [q EXCEPT !.pc = "ask", !.refile = TRUE, !.cursor = 0, !.mirrored = 0]
             m == [rows |-> NoRows, cursor |-> 0]
  <2>1. Step(t, p) /\ mirror' = m
    BY <1>4 DEF StartOver
  <2> HIDE DEF q
  <2>2. p \in Pulls
    BY <1>2 DEF Pulls, PullPc
  <2>3. /\ p.pc = "ask" /\ p.refile /\ p.cursor = 0
        /\ p.from = q.from /\ p.mirrored = 0 /\ p.first = q.first
        /\ p.arrived = q.arrived /\ p.purged = q.purged /\ p.below = q.below
    BY <1>2 DEF Pulls
  <2>4. m.rows = NoRows /\ m.cursor = 0 /\ Held(m.rows) = {} /\ m \in Copies /\ CopyOK(m)
    BY <1>2, EmptyCopy, NoRowsFacts
  <2> HIDE DEF p, m
  <2>5. PullOK(p) /\ ListOK(p) /\ PageOK(p)
    BY <1>1, <1>2, <2>3 DEF PullOK, ListOK, PageOK
  <2>6. TabOK(phase, p, cat)
    BY <1>1, <1>2, <2>3 DEF TabOK
  <2>7. Told(phase, p, cat, m)
    BY <1>1, <1>2, <2>3, <2>4 DEF Told, Started
  <2>8. CalmInv(phase, p, cat, m)
    BY <1>2, <2>3, <2>4 DEF CalmInv, CalmPull, CalmTree
  <2>10. PICK s \in TabState : s.phase = phase /\ s.pull = p /\ tab' = [tab EXCEPT ![t] = s]
    BY <1>2, <2>1, <2>2, StepFacts
  <2>11. catalogue' = [catalogue EXCEPT ![t] = cat]
    BY <1>1, <1>2 DEF ClientType
  <2> HIDE DEF cat, phase
  <2>12. ASSUME NEW c, c = cat PROVE IInv'
    <3>1. /\ PullOK(s.pull) /\ ListOK(s.pull) /\ PageOK(s.pull)
          /\ TabOK(s.phase, s.pull, c) /\ Told(s.phase, s.pull, c, m) /\ CalmInv(s.phase, s.pull, c, m)
      BY <2>5, <2>6, <2>7, <2>8, <2>10, <2>12
    <3>2. /\ UNCHANGED server /\ lost \subseteq lost' /\ lost' \subseteq Nodes
          /\ calm' \in BOOLEAN /\ (calm' => calm /\ lost' = {})
          /\ c \in Copies /\ catalogue' = [catalogue EXCEPT ![t] = c]
      BY <1>1, <1>2, <2>11, <2>12
    <3>3. CopyOK(c) /\ CopyOK(m)
      BY <1>2, <2>4, <2>12
    <3>4. CopyOK(c)' /\ CopyOK(m)'
      BY <3>2, <3>3, QuietFacts
    <3> QED
      BY <2>1, <2>4, <2>10, <3>1, <3>2, <3>4, TabStep
  <2> QED
    BY <2>12
<1> QED
  BY <1>3, <1>4

LEMMA GoBackInv ==
    ASSUME IInv, NEW t \in Tabs, GoBack(t)
    PROVE  IInv'
<1> DEFINE q == tab[t].pull
           cat == catalogue[t]
           phase == tab[t].phase
           cursor == Lesser(q.cursor, mirror.cursor)
           p == [q EXCEPT !.pc = "ask", !.cursor = cursor, !.refile = @ \/ (cursor = 0 /\ q.from > 0)]
<1>1. /\ q.pc = "refused" /\ Step(t, p) /\ UNCHANGED <<server, mirror, catalogue, lost, calm>>
  BY DEF GoBack
<1>2. /\ q \in Pulls /\ PullOK(q) /\ TabOK(phase, q, cat) /\ NodeType
      /\ Told(phase, q, cat, mirror) /\ (calm => CalmInv(phase, q, cat, mirror))
      /\ q.cursor \in Nat /\ q.from \in Nat /\ q.refile \in BOOLEAN /\ mirror.cursor \in Nat /\ seqNo \in Nat
  BY InvTab, PullFields, CopyFields
<1>3. cursor \in Nat /\ cursor <= q.cursor
  BY <1>2 DEF Lesser
<1> HIDE DEF q, cursor
<1>4. p \in Pulls
  BY <1>2, <1>3 DEF Pulls, PullPc
<1>5. /\ p.pc = "ask" /\ p.cursor = cursor /\ (~p.refile => ~q.refile)
      /\ p.from = q.from /\ p.mirrored = q.mirrored /\ p.first = q.first
      /\ p.arrived = q.arrived /\ p.purged = q.purged /\ p.below = q.below
  BY <1>2 DEF Pulls
<1> HIDE DEF p, cat, phase
<1>6. PullOK(p) /\ ListOK(p) /\ PageOK(p)
  BY <1>1, <1>2, <1>3, <1>5 DEF PullOK, ListOK, PageOK
<1>7. TabOK(phase, p, cat)
  <2>1. Brought(q, cat.cursor) => Brought(p, cat.cursor)
    BY <1>2, <1>3, <1>5 DEF Brought, NodeType
  <2> QED
    BY <1>1, <1>2, <1>5, <2>1 DEF TabOK
<1>8. Told(phase, p, cat, mirror)
  BY <1>1, <1>2, <1>5 DEF Told, Started
<1>9. calm => CalmInv(phase, p, cat, mirror)
  BY <1>1, <1>2 DEF CalmInv, CalmPull
<1> QED
  BY <1>1, <1>4, <1>6, <1>7, <1>8, <1>9, PullStepAt DEF cat, phase

(* A closed tab forgets. *)
LEMMA ClosedTab ==
    ASSUME NodeType, ServerOK, NEW rebuilt \in BOOLEAN,
           NEW s, s = Closed \/ s = [Closed EXCEPT !.rebuilt = rebuilt],
           NEW cat, cat.cursor = 0, cat.rows = NoRows, NEW m \in Copies
    PROVE  /\ s \in TabState /\ PullOK(s.pull) /\ ListOK(s.pull) /\ PageOK(s.pull)
           /\ TabOK(s.phase, s.pull, cat) /\ Told(s.phase, s.pull, cat, m)
           /\ CalmInv(s.phase, s.pull, cat, m)
<1>1. s \in TabState /\ s.phase = "closed" /\ s.pull = NoPull
  <2>1. CASE s = Closed
    BY <2>1, NoPullFacts DEF Closed, TabState, Phases
  <2>2. CASE s = [Closed EXCEPT !.rebuilt = rebuilt]
    BY <2>2, NoPullFacts DEF Closed, TabState, Phases
  <2> QED
    BY <2>1, <2>2
<1>2. seqNo \in Nat
  BY DEF NodeType
<1>3. PullOK(s.pull) /\ ListOK(s.pull) /\ PageOK(s.pull)
  BY <1>1, <1>2, NoPullOK
<1>4. TabOK(s.phase, s.pull, cat)
  BY <1>1, NoPullFacts DEF TabOK
<1>5. Told(s.phase, s.pull, cat, m)
  BY <1>1, NoPullFacts DEF Told
<1>6. CalmInv(s.phase, s.pull, cat, m)
  BY <1>1, NoPullFacts DEF CalmInv, CalmPull, CalmTree
<1> QED
  BY <1>1, <1>3, <1>4, <1>5, <1>6

LEMMA CloseInv ==
    ASSUME IInv, NEW t \in Tabs, NEW reload \in BOOLEAN, Close(t, reload)
    PROVE  IInv'
<1> DEFINE rebuilt == tab[t].rebuilt /\ ~reload
           s == [Closed EXCEPT !.rebuilt = rebuilt]
           cat == [rows |-> NoRows, cursor |-> 0]
<1>1. /\ tab' = [tab EXCEPT ![t] = s] /\ catalogue' = [catalogue EXCEPT ![t] = cat]
      /\ UNCHANGED <<server, mirror, lost, calm>>
  BY DEF Close
<1>2. /\ NodeType /\ ServerOK /\ mirror \in Copies /\ CopyOK(mirror) /\ lost \subseteq Nodes
      /\ calm \in BOOLEAN /\ (calm => lost = {})
  BY InvTab
<1>3. cat \in Copies /\ CopyOK(cat) /\ cat.cursor = 0 /\ cat.rows = NoRows
  BY <1>2, EmptyCopy
<1>4. rebuilt \in BOOLEAN
  OBVIOUS
<1> HIDE DEF cat, rebuilt
<1>5. ASSUME NEW m, m = mirror PROVE IInv'
  <2>1. m \in Copies /\ CopyOK(m) /\ mirror' = m /\ m.rows = mirror.rows /\ m.cursor = mirror.cursor
    BY <1>1, <1>2, <1>5
  <2>2. /\ s \in TabState /\ PullOK(s.pull) /\ ListOK(s.pull) /\ PageOK(s.pull)
        /\ TabOK(s.phase, s.pull, cat) /\ Told(s.phase, s.pull, cat, m)
        /\ CalmInv(s.phase, s.pull, cat, m)
    BY <1>2, <1>3, <1>4, <2>1, ClosedTab
  <2>3. CopyOK(m)' /\ CopyOK(cat)'
    BY <1>1, <1>3, <2>1, QuietFacts
  <2> HIDE DEF s
  <2> QED
    BY <1>1, <1>2, <1>3, <2>1, <2>2, <2>3, TabStep
<1> QED
  BY <1>5

-----------------------------------------------------------------------------
(* A page is applied. *)

(* A step of a tab's pull and the mirror. *)
LEMMA MirrorStep ==
    ASSUME IInv, UNCHANGED <<server, catalogue>>, lost \subseteq lost', lost' \subseteq Nodes,
           calm' \in BOOLEAN, calm' => calm /\ lost' = {},
           NEW t \in Tabs, NEW p \in Pulls, Step(t, p), NEW m \in Copies, mirror' = m, CopyOK(m)',
           \A n \in Held(m.rows) : Doomed(n) => n \in Held(mirror.rows),
           \A n \in Held(m.rows) : node[n].state = "dropped" => m.cursor = mirror.cursor,
           PullOK(p), ListOK(p), PageOK(p),
           TabOK(tab[t].phase, p, catalogue[t]), Told(tab[t].phase, p, catalogue[t], m),
           calm' => CalmInv(tab[t].phase, p, catalogue[t], m)
    PROVE  IInv'
<1>1. ClientType /\ catalogue[t] \in Copies /\ CopyOK(catalogue[t])
  BY InvTab
<1>2. PICK s \in TabState : s.phase = tab[t].phase /\ s.pull = p /\ tab' = [tab EXCEPT ![t] = s]
  BY <1>1, StepFacts
<1>3. catalogue' = [catalogue EXCEPT ![t] = catalogue[t]]
  BY <1>1 DEF ClientType
<1>4. ASSUME NEW c, c = catalogue[t] PROVE IInv'
  <2>1. /\ PullOK(s.pull) /\ ListOK(s.pull) /\ PageOK(s.pull)
        /\ TabOK(s.phase, s.pull, c) /\ Told(s.phase, s.pull, c, m)
        /\ calm' => CalmInv(s.phase, s.pull, c, m)
    BY <1>2, <1>4
  <2>2. c \in Copies /\ catalogue' = [catalogue EXCEPT ![t] = c] /\ CopyOK(c)
    BY <1>1, <1>3, <1>4
  <2>3. CopyOK(c)'
    BY <2>2, QuietFacts
  <2> QED
    BY <1>2, <2>1, <2>2, <2>3, TabStep
<1> QED
  BY <1>4

(* The mirror stays where it is. *)
LEMMA ApplyRefused ==
    ASSUME IInv, NEW t \in Tabs, Apply(t), tab[t].pull.cursor > mirror.cursor
    PROVE  IInv'
<1> DEFINE q == tab[t].pull
           p == [q EXCEPT !.pc = "refused", !.first = FALSE]
<1>1. /\ q.pc = "paged" /\ ~(q.first /\ q.resync /\ q.cursor > 0)
      /\ Step(t, p) /\ UNCHANGED <<server, mirror, catalogue, lost, calm>>
  BY DEF Apply
<1>2. /\ q \in Pulls /\ PullOK(q) /\ TabOK(tab[t].phase, q, catalogue[t])
      /\ Told(tab[t].phase, q, catalogue[t], mirror)
      /\ (calm => CalmInv(tab[t].phase, q, catalogue[t], mirror))
      /\ q.cursor \in Nat /\ mirror.cursor \in Nat
  BY InvTab, PullFields, CopyFields
<1>3. q.cursor > mirror.cursor
  OBVIOUS
<1> HIDE DEF q
<1>4. p \in Pulls
  BY <1>2 DEF Pulls, PullPc
<1>5. /\ p.pc = "refused" /\ ~p.first /\ p.refile = q.refile
      /\ p.from = q.from /\ p.cursor = q.cursor /\ p.mirrored = q.mirrored
      /\ p.arrived = q.arrived /\ p.purged = q.purged /\ p.below = q.below
  BY <1>2 DEF Pulls
<1> HIDE DEF p
<1>6. PullOK(p) /\ ListOK(p) /\ PageOK(p)
  BY <1>1, <1>2, <1>5 DEF PullOK, ListOK, PageOK
<1>7. TabOK(tab[t].phase, p, catalogue[t])
  BY <1>1, <1>2, <1>5 DEF TabOK, Brought
<1>8. Told(tab[t].phase, p, catalogue[t], mirror)
  BY <1>1, <1>2, <1>5 DEF Told, Started
<1>9. calm => CalmInv(tab[t].phase, p, catalogue[t], mirror)
  BY <1>1, <1>2, <1>3 DEF CalmInv, CalmPull
<1> QED
  BY <1>1, <1>4, <1>6, <1>7, <1>8, <1>9, PullStepAt

(* What a page leaves in the mirror. *)
FreshOf(q, cursor) == {i[1] : i \in {i \in q.ids : i[2] > cursor}}
PutOf(q, fresh) == [n \in Nodes |-> IF n \in fresh THEN q.changes[n] ELSE NoRow]
Applied(q, m) == LET fresh == FreshOf(q, m.cursor) IN
    [rows |-> Without(Put(m.rows, PutOf(q, fresh)), q.tombs \cap fresh),
     cursor |-> Greater(m.cursor, q.next)]

LEMMA AppliedFacts ==
    ASSUME NodeType, ServerOK, NEW q \in Pulls, q.pc = "paged", PullOK(q), ListOK(q), PageOK(q),
           NEW m \in Copies, CopyOK(m), q.cursor <= m.cursor,
           \A n \in Held(m.rows) : node[n].state # "dropped",
           NEW a, a = Applied(q, m)
    PROVE  /\ a \in Copies /\ CopyOK(a) /\ a.cursor = Greater(m.cursor, q.next)
           /\ \A n \in Held(a.rows) : node[n].state # "dropped" /\ (Doomed(n) => n \in Held(m.rows))
           /\ Held(a.rows) \subseteq (Held(m.rows) \cup Held(q.changes)) \ {n \in q.tombs : q.cursor = m.cursor}
           /\ q.cursor = m.cursor => a.rows = View(m.rows, q.changes, q.tombs)
<1> DEFINE fresh == FreshOf(q, m.cursor)
           put == PutOf(q, fresh)
           gone == q.tombs \cap fresh
<1>1. /\ q.changes \in Rows /\ q.ids \in SUBSET (Nodes \X Nat) /\ q.next \in Nat /\ q.cursor \in Nat
      /\ q.tombs \in SUBSET Nodes /\ m.rows \in Rows /\ m.cursor \in Nat /\ seqNo \in Nat
      /\ \A n \in Nodes : node[n].seq \in Nat
  BY PullFields, CopyFields DEF NodeType
<1>2. /\ a.rows = Without(Put(m.rows, put), gone) /\ a.cursor = Greater(m.cursor, q.next)
      /\ a = [rows |-> Without(Put(m.rows, put), gone), cursor |-> Greater(m.cursor, q.next)]
  BY DEF Applied
<1>3. /\ \A i \in q.ids : /\ i[1] \in Nodes /\ i[2] \in Nat /\ q.cursor < i[2]
                          /\ i[2] <= node[i[1]].seq /\ i[2] <= q.next
      /\ q.cursor <= q.next /\ q.next <= seqNo /\ m.cursor <= seqNo
      /\ Past(q.changes) /\ Past(m.rows)
      /\ \A n \in q.tombs : node[n].state = "gone" /\ \E i \in q.ids : i[1] = n
      /\ \A n \in Held(q.changes) : ~Doomed(n) /\ n \notin q.tombs /\ \E i \in q.ids : i[1] = n
  BY <1>1 DEF ListOK, PageOK, CopyOK
<1>4. \A n : n \in fresh <=> \E i \in q.ids : i[1] = n /\ i[2] > m.cursor
  BY DEF FreshOf
<1>5. /\ put \in Rows /\ Held(put) = Held(q.changes) \cap fresh
      /\ \A n \in Held(put) : put[n] = q.changes[n]
  BY <1>1, NoRowsFacts DEF PutOf, Rows, Held
<1> HIDE DEF fresh, put
<1>6. \A n \in fresh : n \in Nodes /\ node[n].seq > m.cursor
  BY <1>1, <1>3, <1>4
<1>7. Past(put)
  BY <1>3, <1>5 DEF Past
<1> DEFINE both == Put(m.rows, put)
<1>8. /\ both \in Rows /\ Past(both) /\ Held(both) = Held(m.rows) \cup Held(put)
      /\ \A n \in Nodes : both[n] = IF n \in Held(put) THEN put[n] ELSE m.rows[n]
  BY <1>1, <1>3, <1>5, <1>7, PutFacts, PastPut
<1>9. a.rows = Without(both, gone)
  BY <1>2
<1> HIDE DEF both, gone
<1>10. /\ a.rows \in Rows /\ Past(a.rows) /\ Held(a.rows) = (Held(m.rows) \cup Held(put)) \ gone
       /\ \A n \in Nodes : a.rows[n] = IF n \in gone THEN NoRow
                                       ELSE IF n \in Held(put) THEN put[n] ELSE m.rows[n]
  BY <1>8, <1>9, WithoutFacts, PastWithout
<1>11. /\ a.cursor \in Nat /\ m.cursor <= a.cursor /\ q.next <= a.cursor /\ a.cursor <= seqNo
       /\ a.cursor = m.cursor \/ a.cursor = q.next
  BY <1>1, <1>2, <1>3 DEF Greater
<1>12. a \in Copies
  BY <1>2, <1>10, <1>11 DEF Copies
<1>13. ASSUME a.cursor = 0 PROVE a.rows = NoRows
  <2>1. m.cursor = 0 /\ q.next = 0 /\ m.rows = NoRows
    BY <1>1, <1>11, <1>13 DEF CopyOK
  <2>2. q.ids = {}
    BY <1>1, <1>3, <2>1
  <2>3. Held(put) = {} /\ Held(m.rows) = {}
    BY <1>3, <1>5, <2>1, <2>2, NoRowsFacts
  <2>4. \A n \in Nodes : a.rows[n] = NoRow
    BY <1>10, <2>3 DEF Held
  <2> QED
    BY <1>10, <2>4 DEF Rows, NoRows
<1>14. Complete(a)
  <2> SUFFICES ASSUME NEW n \in Nodes, Reached(n), node[n].seq <= a.cursor
               PROVE  a.rows[n].seq = node[n].seq \/ (n \in lost /\ n \notin Held(a.rows))
    BY DEF Complete
  <2>1. node[n].state = "live" /\ node[n].seq >= 1
    BY ReachedFacts DEF ServerOK
  <2>2. n \notin gone
    BY <1>3, <2>1 DEF gone
  <2>3. CASE node[n].seq <= m.cursor
    <3>1. n \notin Held(put)
      BY <1>1, <1>5, <1>6, <2>3
    <3>2. m.rows[n].seq = node[n].seq \/ (n \in lost /\ n \notin Held(m.rows))
      BY <2>3 DEF CopyOK, Complete
    <3> QED
      BY <1>10, <2>2, <3>1, <3>2
  <2>4. CASE ~(node[n].seq <= m.cursor)
    <3>1. q.cursor < node[n].seq /\ node[n].seq <= q.next /\ Named(n)
      BY <1>1, <1>11, <2>1, <2>4 DEF Named
    <3>2. <<n, node[n].seq>> \in q.ids /\ q.changes[n].seq = node[n].seq
      BY <2>1, <3>1 DEF PageOK
    <3>3. n \in fresh
      BY <1>1, <1>4, <2>4, <3>2
    <3>4. n \in Held(q.changes)
      BY <1>1, <2>1, <3>2, RowFacts
    <3> QED
      BY <1>5, <1>10, <2>2, <3>2, <3>3, <3>4
  <2> QED
    BY <2>3, <2>4
<1>15. ASSUME NEW n \in Held(a.rows)
       PROVE  node[n].state # "dropped" /\ (Doomed(n) => n \in Held(m.rows))
  BY <1>3, <1>5, <1>10 DEF Doomed
<1>16. NoGhosts(a)
  <2> SUFFICES ASSUME NEW n \in Held(a.rows), node[n].state = "gone" PROVE node[n].seq > a.cursor
    BY <1>15 DEF NoGhosts
  <2>1. n \in Nodes /\ node[n].seq \in Nat /\ n \notin gone
    BY <1>1, <1>10 DEF Held
  <2>2. node[n].seq > m.cursor
    BY <1>5, <1>6, <1>10 DEF CopyOK, NoGhosts
  <2>3. ASSUME node[n].seq <= q.next PROVE FALSE
    <3>1. <<n, node[n].seq>> \in q.ids /\ n \in q.tombs
      BY <1>1, <2>1, <2>2, <2>3 DEF PageOK, Named
    <3>2. n \in fresh
      BY <1>4, <2>2, <3>1
    <3> QED
      BY <2>1, <3>1, <3>2 DEF gone
  <2> QED
    BY <1>1, <1>11, <2>1, <2>2, <2>3
<1>17. CopyOK(a)
  BY <1>10, <1>11, <1>13, <1>14, <1>16 DEF CopyOK
<1>18. ASSUME q.cursor = m.cursor PROVE a.rows = View(m.rows, q.changes, q.tombs) /\ gone = q.tombs
  <2>1. \A i \in q.ids : i[1] \in fresh
    BY <1>3, <1>4, <1>18
  <2>2. Held(q.changes) \subseteq fresh /\ q.tombs \subseteq fresh
    BY <1>3, <2>1
  <2>3. Held(put) = Held(q.changes) /\ gone = q.tombs
    BY <1>5, <2>2 DEF gone
  <2>4. put = q.changes
    BY <1>1, <1>5, <2>3 DEF Rows, Held
  <2> QED
    BY <1>9, <2>3, <2>4 DEF View, both
<1> QED
  BY <1>2, <1>5, <1>10, <1>12, <1>15, <1>17, <1>18

LEMMA ApplyKept ==
    ASSUME IInv, NEW t \in Tabs, Apply(t), ~(tab[t].pull.cursor > mirror.cursor)
    PROVE  IInv'
<1> DEFINE q == tab[t].pull
           cat == catalogue[t]
           phase == tab[t].phase
           a == Applied(q, mirror)
           fresh == FreshOf(q, mirror.cursor)
           gone == q.tombs \cap fresh
           below == q.below \cup (gone \cap Held(mirror.rows) \cap Folders)
           parents == q.parents \cup {q.changes[n].parent : n \in Held(q.changes)}
           kept == [q EXCEPT !.first = FALSE, !.cursor = q.next,
                      !.arrived = Put(@, q.changes), !.purged = @ \cup q.tombs,
                      !.below = below, !.parents = parents]
           done == IF SweptBelow(kept) = {} THEN "swept" ELSE "pulled"
           p == [kept EXCEPT !.pc = IF q.more THEN "ask" ELSE done]
<1>1. /\ q.pc = "paged" /\ ~(q.first /\ q.resync /\ q.cursor > 0)
      /\ Step(t, p) /\ mirror' = a /\ UNCHANGED <<server, catalogue, lost, calm>>
  <2> DEFINE put == [n \in Nodes |-> IF n \in fresh THEN q.changes[n] ELSE NoRow]
             m == [rows |-> Without(Put(mirror.rows, put), gone), cursor |-> Greater(mirror.cursor, q.next)]
  <2>1. Fresh(q) = fresh
    BY DEF Fresh, FreshOf
  <2>2. a = m
    BY DEF Applied, PutOf
  <2> HIDE DEF fresh, a
  <2>3. mirror' = m
    BY <2>1 DEF Apply
  <2>4. Step(t, p)
    BY <2>1 DEF Apply
  <2> QED
    BY <2>2, <2>3, <2>4 DEF Apply
<1>2. /\ q \in Pulls /\ PullOK(q) /\ ListOK(q) /\ PageOK(q) /\ TabOK(phase, q, cat)
      /\ Told(phase, q, cat, mirror) /\ NodeType /\ ServerOK
      /\ (calm => lost = {} /\ CalmInv(phase, q, cat, mirror))
      /\ mirror \in Copies /\ CopyOK(mirror) /\ cat \in Copies /\ lost \subseteq Nodes /\ calm \in BOOLEAN
  BY InvTab
<1>3. /\ q.changes \in Rows /\ q.arrived \in Rows /\ q.ids \in SUBSET (Nodes \X Nat)
      /\ q.next \in Nat /\ q.cursor \in Nat /\ q.tombs \in SUBSET Nodes /\ q.purged \in SUBSET Nodes
      /\ q.below \in SUBSET Nodes /\ q.parents \in SUBSET (Nodes \cup {Top})
      /\ mirror.rows \in Rows /\ mirror.cursor \in Nat /\ cat.cursor \in Nat
      /\ \A n \in Nodes : node[n].seq \in Nat
  BY <1>2, PullFields, CopyFields DEF NodeType
<1>4. q.cursor <= mirror.cursor
  BY <1>3
<1>5. \A n \in Held(mirror.rows) : node[n].state # "dropped"
  BY <1>1, <1>2 DEF Told, Started
<1>6. /\ a \in Copies /\ CopyOK(a) /\ a.cursor = Greater(mirror.cursor, q.next)
      /\ \A n \in Held(a.rows) : node[n].state # "dropped" /\ (Doomed(n) => n \in Held(mirror.rows))
      /\ Held(a.rows) \subseteq
            (Held(mirror.rows) \cup Held(q.changes)) \ {n \in q.tombs : q.cursor = mirror.cursor}
      /\ q.cursor = mirror.cursor => a.rows = View(mirror.rows, q.changes, q.tombs)
  <2>1. q.pc = "paged"
    BY <1>1
  <2> HIDE DEF q
  <2> QED
    BY <1>2, <1>4, <1>5, <2>1, AppliedFacts
<1>0. done \in {"swept", "pulled"}
  OBVIOUS
<1> HIDE DEF q, a, cat, phase, fresh, done
<1>7. Put(q.arrived, q.changes) \in Rows
  BY <1>3, PutFacts
<1>8. \A n \in Held(q.changes) : q.changes[n].parent \in Nodes \cup {Top}
  BY <1>3, RowFacts DEF Held
<1>9. p \in Pulls
  <2>1. below \in SUBSET Nodes /\ parents \in SUBSET (Nodes \cup {Top})
    BY <1>3, <1>8
  <2> HIDE DEF below, parents
  <2>2. q.purged \cup q.tombs \in SUBSET Nodes
    BY <1>3
  <2> QED
    BY <1>0, <1>2, <1>3, <1>7, <2>1, <2>2 DEF Pulls, PullPc
<1>10. /\ p.pc = (IF q.more THEN "ask" ELSE done) /\ ~p.first /\ p.cursor = q.next
       /\ p.arrived = Put(q.arrived, q.changes) /\ p.purged = q.purged \cup q.tombs
       /\ p.below = q.below \cup (gone \cap Held(mirror.rows) \cap Folders)
       /\ p.from = q.from /\ p.mirrored = q.mirrored /\ p.refile = q.refile
  BY <1>2 DEF Pulls
<1> HIDE DEF p, kept
<1>11. /\ \A i \in q.ids : /\ i[1] \in Nodes /\ i[2] \in Nat /\ q.cursor < i[2]
                           /\ i[2] <= node[i[1]].seq /\ i[2] <= q.next
       /\ q.cursor <= q.next /\ q.next <= seqNo /\ Past(q.changes) /\ Past(q.arrived)
       /\ \A n \in q.tombs : node[n].state = "gone"
       /\ \A n \in Held(q.changes) : ~Doomed(n) /\ n \notin q.tombs /\ n \notin q.purged
                                     /\ \E i \in q.ids : i[1] = n
  BY <1>1, <1>2, <1>3 DEF ListOK, PageOK, PullOK
<1>12. /\ Past(p.arrived) /\ Held(p.arrived) = Held(q.arrived) \cup Held(q.changes)
       /\ \A n \in Nodes : p.arrived[n] = IF n \in Held(q.changes) THEN q.changes[n] ELSE q.arrived[n]
  <2>1. Past(Put(q.arrived, q.changes))
    BY <1>3, <1>11, PastPut
  <2> QED
    BY <1>3, <1>10, <2>1, PutFacts
<1>13. PullOK(p)
  <2>1. p.pc # "idle"
    BY <1>0, <1>10
  <2>2. p.mirrored <= seqNo /\ p.below \subseteq p.purged
    BY <1>2, <1>10 DEF PullOK
  <2>3. \A n \in p.purged : node[n].state = "gone"
    BY <1>2, <1>10, <1>11 DEF PullOK
  <2>4. \A n \in Held(p.arrived) : ~Doomed(n)
    BY <1>2, <1>11, <1>12 DEF PullOK
  <2>5. ASSUME p.arrived # NoRows PROVE p.cursor > 0
    <3>1. PICK n \in Nodes : p.arrived[n] # NoRow
      BY <1>7, <1>10, <2>5 DEF Rows, NoRows
    <3>2. n \in Held(q.arrived) \/ n \in Held(q.changes)
      BY <1>12, <3>1 DEF Held
    <3>3. q.cursor > 0 \/ q.ids # {}
      <4>1. q.cursor = 0 /\ n \in Held(q.arrived) => q.ids # {}
        BY <1>1, <1>2, NoRowsFacts DEF ListOK
      <4> QED
        BY <1>3, <1>11, <3>2, <4>1
    <3> QED
      BY <1>3, <1>10, <1>11, <3>3
  <2> QED
    BY <1>0, <1>10, <1>11, <1>12, <2>1, <2>2, <2>3, <2>4, <2>5 DEF PullOK
<1>14. ListOK(p) /\ PageOK(p)
  BY <1>0, <1>10 DEF ListOK, PageOK
<1>15. TabOK(phase, p, cat)
  <2>1. Newer(q.arrived, cat.cursor) /\ Newer(q.changes, cat.cursor) => Newer(p.arrived, cat.cursor)
    BY <1>12 DEF Newer, Held
  <2>2. ASSUME Brought(q, cat.cursor) PROVE Brought(p, cat.cursor)
    <3> SUFFICES ASSUME NEW n \in Nodes, cat.cursor < node[n].seq, node[n].seq <= q.next
                 PROVE  /\ node[n].state = "live" => p.arrived[n].seq = node[n].seq
                        /\ node[n].state = "gone" => n \in p.purged
      BY <1>10 DEF Brought
    <3>1. CASE node[n].seq <= q.cursor
      <4>1. n \notin Held(q.changes)
        BY <1>3, <1>11, <3>1
      <4> QED
        BY <1>10, <1>12, <2>2, <3>1, <4>1 DEF Brought
    <3>2. CASE ~(node[n].seq <= q.cursor)
      <4>1. q.cursor < node[n].seq
        BY <1>3, <3>2
      <4>2. /\ node[n].state = "live" => q.changes[n].seq = node[n].seq
            /\ node[n].state = "gone" => n \in q.tombs
        BY <1>1, <1>2, <4>1 DEF PageOK, Named
      <4>3. node[n].state = "live" => n \in Held(q.changes)
        BY <1>3, <4>1, <4>2, RowFacts
      <4> QED
        BY <1>10, <1>12, <4>2, <4>3
    <3> QED
      BY <3>1, <3>2
  <2> QED
    BY <1>0, <1>1, <1>2, <1>10, <2>1, <2>2 DEF TabOK
<1>16. Told(phase, p, cat, a)
  <2>1. phase = "filed" /\ cat.cursor = 0 => \A n \in Held(a.rows) : ~Doomed(n)
    BY <1>2, <1>6 DEF Told
  <2>2. \A n \in Held(cat.rows) : node[n].state = "dropped" => p.refile
    BY <1>1, <1>2, <1>10 DEF Told, Started
  <2> QED
    BY <1>6, <2>1, <2>2 DEF Told
<1>17. calm => CalmInv(phase, p, cat, a)
  <2> SUFFICES ASSUME calm PROVE CalmInv(phase, p, cat, a)
    OBVIOUS
  <2>1. CalmPull(phase, q, cat, mirror) /\ CalmTree(phase, q, cat.rows, mirror.rows)
    BY <1>2 DEF CalmInv
  <2>2. q.cursor = mirror.cursor /\ q.purged \cap Held(mirror.rows) = {}
    BY <1>1, <2>1 DEF CalmPull
  <2>3. a.rows = View(mirror.rows, q.changes, q.tombs) /\ a.cursor = q.next
    BY <1>3, <1>6, <1>11, <2>2 DEF Greater
  <2>4. p.purged \cap Held(a.rows) = {}
    BY <1>6, <1>10, <1>11, <2>2
  <2>5. CalmPull(phase, p, cat, a)
    BY <1>0, <1>10, <2>3, <2>4 DEF CalmPull
  <2>6. p.pc \in {"pulled", "swept"} => ~q.more
    BY <1>0, <1>10
  <2>7. CalmTree(phase, p, cat.rows, a.rows)
    BY <1>0, <1>1, <1>10, <2>1, <2>3, <2>6 DEF CalmTree
  <2> QED
    BY <2>5, <2>7 DEF CalmInv
<1>18. ASSUME NEW m, m = a PROVE IInv'
  <2>1. m \in Copies /\ CopyOK(m) /\ mirror' = m
    BY <1>1, <1>6, <1>18
  <2>2. CopyOK(m)'
    BY <1>1, <2>1, QuietFacts
  <2>3. /\ \A n \in Held(m.rows) : Doomed(n) => n \in Held(mirror.rows)
        /\ \A n \in Held(m.rows) : node[n].state = "dropped" => m.cursor = mirror.cursor
    BY <1>6, <1>18
  <2>4. TabOK(phase, p, cat) /\ Told(phase, p, cat, m) /\ (calm => CalmInv(phase, p, cat, m))
    BY <1>15, <1>16, <1>17, <1>18
  <2>5. /\ UNCHANGED <<server, catalogue>> /\ lost \subseteq lost' /\ lost' \subseteq Nodes
        /\ calm' \in BOOLEAN /\ (calm' => calm /\ lost' = {})
    BY <1>1, <1>2
  <2> QED
    BY <1>1, <1>9, <1>13, <1>14, <2>1, <2>2, <2>3, <2>4, <2>5, MirrorStep DEF phase, cat
<1> QED
  BY <1>18

LEMMA ApplyInv ==
    ASSUME IInv, NEW t \in Tabs, Apply(t)
    PROVE  IInv'
BY ApplyRefused, ApplyKept

-----------------------------------------------------------------------------
(* What hangs below what was taken off goes too. *)

DroppedCopy(copy, S) == [copy EXCEPT !.rows = Without(@, PurgedBelow(copy.rows, S))]

LEMMA DropFacts ==
    ASSUME NEW copy \in Copies, CopyOK(copy), NEW S, UNCHANGED server,
           S \in SUBSET Nodes, \A r \in S : node[r].state # "live",
           lost \subseteq lost', Strays(copy.rows, copy.cursor, PurgedBelow(copy.rows, S)) \subseteq lost',
           NEW d, d = DroppedCopy(copy, S)
    PROVE  /\ d \in Copies /\ CopyOK(d)' /\ d.cursor = copy.cursor
           /\ d.rows = Without(copy.rows, PurgedBelow(copy.rows, S))
           /\ Held(d.rows) = Held(copy.rows) \ PurgedBelow(copy.rows, S)
<1> DEFINE swept == PurgedBelow(copy.rows, S)
<1>1. copy.rows \in Rows /\ copy.cursor \in Nat
  BY CopyFields
<1>2. d.rows = Without(copy.rows, swept) /\ d.cursor = copy.cursor
  BY DEF DroppedCopy, Copies
<1>3. d = [rows |-> Without(copy.rows, swept), cursor |-> copy.cursor]
  BY DEF DroppedCopy, Copies
<1>4. /\ d.rows \in Rows /\ Held(d.rows) = Held(copy.rows) \ swept
      /\ \A n \in Nodes : d.rows[n] = IF n \in swept THEN NoRow ELSE copy.rows[n]
  BY <1>1, <1>2, WithoutFacts
<1>5. Past(d.rows)
  BY <1>1, <1>2, PastWithout DEF CopyOK
<1>6. d \in Copies
  BY <1>1, <1>2, <1>3, <1>4 DEF Copies
<1>7. ASSUME NEW n \in swept, Reached(n), node[n].seq <= copy.cursor PROVE n \in lost'
  <2>1. n \in Nodes
    BY <1>1, BelowClimbs
  <2>2. \E a \in Climb(Up, n) \cap Held(copy.rows) : copy.rows[a].parent # node[a].parent
    BY <1>1, <1>7, SweepSpares
  <2> QED
    BY <1>7, <2>2 DEF Strays
<1>8. (d.cursor = 0 => d.rows = NoRows) /\ d.cursor <= seqNo
  <2>1. ASSUME copy.cursor = 0 PROVE d.rows = NoRows
    <3>1. \A n \in Nodes : copy.rows[n] = NoRow
      BY <2>1, NoRowsFacts DEF CopyOK, NoRows
    <3> QED
      BY <1>4, <3>1 DEF Rows, NoRows
  <2> QED
    BY <1>2, <2>1 DEF CopyOK
<1>9. \A n \in Nodes : Reached(n)' <=> Reached(n)
  BY QuietFacts
<1>10. Complete(d)'
  <2> SUFFICES ASSUME NEW n \in Nodes, Reached(n), node[n].seq <= d.cursor
               PROVE  d.rows[n].seq = node[n].seq \/ (n \in lost' /\ n \notin Held(d.rows))
    BY <1>9 DEF Complete, server, Held, NoRow
  <2>1. copy.rows[n].seq = node[n].seq \/ (n \in lost /\ n \notin Held(copy.rows))
    BY <1>2 DEF CopyOK, Complete
  <2> QED
    BY <1>2, <1>4, <1>7, <2>1
<1>11. NoGhosts(d)'
  BY <1>2, <1>4 DEF CopyOK, NoGhosts, server, Held, NoRow
<1>12. CopyOK(d)'
  <2>1. Past(d.rows)'
    BY <1>5 DEF Past, server, Held, NoRow
  <2> QED
    BY <1>8, <1>10, <1>11, <2>1 DEF CopyOK, server, NoRows, NoRow
<1> QED
  BY <1>2, <1>4, <1>6, <1>12

(* Nothing is swept below nothing. *)
LEMMA NoneBelow ==
    ASSUME NEW rows \in Rows
    PROVE  PurgedBelow(rows, {}) = {} /\ Without(rows, {}) = rows
BY DEF PurgedBelow, Without, Rows

(* While all is calm what is swept could not be reached. *)
LEMMA CalmSweep ==
    ASSUME NEW rows \in Rows, Settled(rows), NEW S \in SUBSET Nodes, S \cap Held(rows) = {}, NEW cursor
    PROVE  /\ Strays(rows, cursor, PurgedBelow(rows, S)) = {}
           /\ Settled(Without(rows, PurgedBelow(rows, S)))
<1> DEFINE swept == PurgedBelow(rows, S)
<1>1. swept \cap Ordered(rows) = {}
  BY OrderedAbove
<1>2. \A n \in swept : n \in Held(rows) /\ n \in Nodes
  BY BelowClimbs
<1> HIDE DEF swept
<1>3. Strays(rows, cursor, swept) = {}
  BY <1>1, <1>2 DEF Strays, Settled
<1>4. Settled(Without(rows, swept))
  <2> SUFFICES ASSUME NEW n \in Held(Without(rows, swept)), Reached(n) PROVE n \in Ordered(Without(rows, swept))
    BY DEF Settled
  <2>1. n \in Held(rows)
    BY WithoutFacts
  <2>2. n \in Ordered(rows)
    BY <2>1 DEF Settled
  <2> QED
    BY <1>1, <2>2, OrderedStays
<1> QED
  BY <1>3, <1>4 DEF swept

(* What a sweep takes is below what tombstones named. *)
LEMMA SweptBelowFacts ==
    ASSUME NEW q \in Pulls, PullOK(q)
    PROVE  /\ SweptBelow(q) \in SUBSET Nodes /\ SweptBelow(q) \subseteq q.purged
           /\ \A r \in SweptBelow(q) : node[r].state # "live"
           /\ q.first => SweptBelow(q) = {}
BY PullFields DEF SweptBelow, PullOK

(* A sweep of the mirror. *)
LEMMA DropStep ==
    ASSUME IInv, NEW t \in Tabs, DropBelow(tab[t].pull), UNCHANGED server
    PROVE  \E m \in Copies :
              /\ mirror' = m /\ CopyOK(m)' /\ m.cursor = mirror.cursor
              /\ m.rows = Without(mirror.rows, PurgedBelow(mirror.rows, SweptBelow(tab[t].pull)))
              /\ Held(m.rows) \subseteq Held(mirror.rows)
              /\ lost \subseteq lost' /\ lost' \subseteq Nodes
<1> SUFFICES ASSUME NEW copy, NEW S, NEW m, copy = mirror, S = SweptBelow(tab[t].pull),
                    m = DroppedCopy(copy, S)
             PROVE  /\ m \in Copies /\ mirror' = m /\ CopyOK(m)' /\ m.cursor = copy.cursor
                    /\ m.rows = Without(copy.rows, PurgedBelow(copy.rows, S))
                    /\ Held(m.rows) \subseteq Held(copy.rows)
                    /\ lost \subseteq lost' /\ lost' \subseteq Nodes
  OBVIOUS
<1>1. /\ tab[t].pull \in Pulls /\ PullOK(tab[t].pull) /\ copy \in Copies /\ CopyOK(copy)
      /\ copy.rows \in Rows /\ lost \subseteq Nodes
  BY InvTab, CopyFields
<1>2. S \in SUBSET Nodes /\ \A r \in S : node[r].state # "live"
  BY <1>1, SweptBelowFacts
<1>3. /\ mirror' = m
      /\ lost' = lost \cup Strays(copy.rows, copy.cursor, PurgedBelow(copy.rows, S))
  BY DEF DropBelow, DroppedCopy
<1>4. PurgedBelow(copy.rows, S) \subseteq Nodes
  BY <1>1, <1>2, BelowClimbs
<1>5. lost \subseteq lost' /\ lost' \subseteq Nodes
  BY <1>1, <1>3, <1>4 DEF Strays
<1>6. /\ m \in Copies /\ CopyOK(m)' /\ m.cursor = copy.cursor
      /\ m.rows = Without(copy.rows, PurgedBelow(copy.rows, S))
      /\ Held(m.rows) = Held(copy.rows) \ PurgedBelow(copy.rows, S)
  BY <1>1, <1>2, <1>3, DropFacts
<1> QED
  BY <1>3, <1>5, <1>6

LEMMA SweepInv ==
    ASSUME IInv, NEW t \in Tabs, Sweep(t)
    PROVE  IInv'
<1> DEFINE q == tab[t].pull
           cat == catalogue[t]
           phase == tab[t].phase
           S == SweptBelow(q)
           p == [q EXCEPT !.pc = "swept"]
<1>1. /\ q.pc = "pulled" /\ Step(t, p) /\ DropBelow(q) /\ UNCHANGED <<server, catalogue, calm>>
      /\ lost' = lost \cup Strays(mirror.rows, mirror.cursor, PurgedBelow(mirror.rows, S))
  BY DEF Sweep, DropBelow
<1>2. /\ q \in Pulls /\ PullOK(q) /\ TabOK(phase, q, cat) /\ Told(phase, q, cat, mirror)
      /\ (calm => lost = {} /\ CalmInv(phase, q, cat, mirror))
      /\ mirror \in Copies /\ calm \in BOOLEAN /\ mirror.rows \in Rows
  BY InvTab, CopyFields
<1>3. S \in SUBSET Nodes /\ S \subseteq q.purged
  BY <1>2, SweptBelowFacts
<1>4. PICK m \in Copies :
         /\ mirror' = m /\ CopyOK(m)' /\ m.cursor = mirror.cursor
         /\ m.rows = Without(mirror.rows, PurgedBelow(mirror.rows, S))
         /\ Held(m.rows) \subseteq Held(mirror.rows)
         /\ lost \subseteq lost' /\ lost' \subseteq Nodes
  BY <1>1, DropStep
<1> HIDE DEF q, S, cat, phase
<1>5. p \in Pulls
  BY <1>2 DEF Pulls, PullPc
<1>6. /\ p.pc = "swept" /\ p.first = q.first /\ p.refile = q.refile
      /\ p.from = q.from /\ p.cursor = q.cursor /\ p.mirrored = q.mirrored
      /\ p.arrived = q.arrived /\ p.purged = q.purged /\ p.below = q.below
  BY <1>2 DEF Pulls
<1> HIDE DEF p
<1>7. PullOK(p) /\ ListOK(p) /\ PageOK(p)
  BY <1>1, <1>2, <1>6 DEF PullOK, ListOK, PageOK
<1>8. TabOK(phase, p, cat)
  BY <1>1, <1>2, <1>6 DEF TabOK, Brought
<1>9. Told(phase, p, cat, m)
  BY <1>1, <1>2, <1>4, <1>6 DEF Told, Started
<1>10. ASSUME calm PROVE lost' = {} /\ CalmInv(phase, p, cat, m)
  <2>1. CalmPull(phase, q, cat, mirror) /\ CalmTree(phase, q, cat.rows, mirror.rows) /\ lost = {}
    BY <1>2, <1>10 DEF CalmInv
  <2>2. Settled(mirror.rows) /\ S \cap Held(mirror.rows) = {}
    BY <1>1, <1>3, <2>1 DEF CalmPull, CalmTree
  <2>3. /\ Strays(mirror.rows, mirror.cursor, PurgedBelow(mirror.rows, S)) = {}
        /\ Settled(m.rows)
    BY <1>2, <1>3, <1>4, <2>2, CalmSweep
  <2>4. CalmPull(phase, p, cat, m)
    BY <1>1, <1>4, <1>6, <2>1 DEF CalmPull
  <2>5. CalmTree(phase, p, cat.rows, m.rows)
    BY <1>1, <1>6, <2>1, <2>3 DEF CalmTree
  <2> QED
    BY <1>1, <2>1, <2>3, <2>4, <2>5 DEF CalmInv
<1>11. /\ UNCHANGED <<server, catalogue>> /\ calm' \in BOOLEAN /\ (calm' => calm /\ lost' = {})
       /\ calm' => CalmInv(phase, p, cat, m)
  BY <1>1, <1>2, <1>10
<1> QED
  BY <1>1, <1>4, <1>5, <1>7, <1>8, <1>9, <1>11, MirrorStep DEF phase, cat

LEMMA FailInv ==
    ASSUME IInv, NEW t \in Tabs, Fail(t)
    PROVE  IInv'
<1> DEFINE q == tab[t].pull
           phase == tab[t].phase
           after == IF phase = "building" THEN "closed" ELSE phase
           s == [tab[t] EXCEPT !.pull = NoPull, !.phase = after]
           S == SweptBelow(q)
<1>1. /\ q.pc \in {"ask", "marked", "listed"} /\ DropBelow(q) /\ tab' = [tab EXCEPT ![t] = s]
      /\ calm' = (calm /\ q.first) /\ UNCHANGED <<server, catalogue>>
      /\ lost' = lost \cup Strays(mirror.rows, mirror.cursor, PurgedBelow(mirror.rows, S))
  BY DEF Fail, DropBelow
<1>2. /\ q \in Pulls /\ PullOK(q) /\ phase \in Phases /\ tab[t] \in TabState /\ ClientType /\ NodeType
      /\ mirror \in Copies /\ calm \in BOOLEAN /\ mirror.rows \in Rows /\ CopyOK(catalogue[t])
      /\ catalogue[t] \in Copies /\ q.first \in BOOLEAN
  BY InvTab, CopyFields, PullFields
<1>3. q.first => S = {}
  BY <1>2, SweptBelowFacts
<1>4. PICK m \in Copies :
         /\ mirror' = m /\ CopyOK(m)' /\ m.cursor = mirror.cursor
         /\ m.rows = Without(mirror.rows, PurgedBelow(mirror.rows, S))
         /\ Held(m.rows) \subseteq Held(mirror.rows)
         /\ lost \subseteq lost' /\ lost' \subseteq Nodes
  BY <1>1, DropStep
<1>5. s \in TabState /\ s.phase = after /\ s.pull = NoPull
  BY <1>2, NoPullFacts DEF TabState, Phases
<1>6. after # "building" /\ (after = "filed" <=> phase = "filed")
  OBVIOUS
<1> HIDE DEF q, S, s, after
<1>7. SUFFICES ASSUME NEW cat, cat = catalogue[t] PROVE IInv'
  OBVIOUS
<1>8. /\ cat \in Copies /\ CopyOK(cat) /\ TabOK(phase, q, cat) /\ Told(phase, q, cat, mirror)
      /\ calm => lost = {} /\ CalmInv(phase, q, cat, mirror)
  BY <1>2, <1>7, InvTab DEF q
<1>9. catalogue' = [catalogue EXCEPT ![t] = cat] /\ CopyOK(cat)'
  BY <1>1, <1>2, <1>4, <1>7, <1>8, QuietFacts DEF ClientType
<1> HIDE DEF phase
<1>10. PullOK(NoPull) /\ ListOK(NoPull) /\ PageOK(NoPull)
  BY <1>2, NoPullOK DEF NodeType
<1>11. TabOK(after, NoPull, cat)
  BY <1>6, <1>8, NoPullFacts DEF TabOK, Newer
<1>12. Told(after, NoPull, cat, m)
  BY <1>4, <1>6, <1>8, NoPullFacts DEF Told
<1>13. ASSUME calm' PROVE calm /\ lost' = {} /\ CalmInv(after, NoPull, cat, m)
  <2>1. calm /\ q.first /\ S = {}
    BY <1>1, <1>3, <1>13
  <2>2. PurgedBelow(mirror.rows, S) = {}
    BY <1>2, <2>1, NoneBelow
  <2>3. lost' = {}
    BY <1>1, <1>8, <2>1, <2>2 DEF Strays
  <2>4. phase = "filed" => cat.cursor >= mirror.cursor
    BY <1>8, <2>1 DEF CalmInv, CalmPull
  <2>5. CalmInv(after, NoPull, cat, m)
    BY <1>4, <1>6, <2>4, NoPullFacts DEF CalmInv, CalmPull, CalmTree
  <2> QED
    BY <2>1, <2>3, <2>5
<1>14. calm' \in BOOLEAN
  BY <1>1, <1>2
<1>15. /\ PullOK(s.pull) /\ ListOK(s.pull) /\ PageOK(s.pull)
       /\ TabOK(s.phase, s.pull, cat) /\ Told(s.phase, s.pull, cat, m)
       /\ calm' => CalmInv(s.phase, s.pull, cat, m)
  BY <1>5, <1>10, <1>11, <1>12, <1>13
<1>16. ASSUME NEW r, r = s PROVE IInv'
  <2>1. /\ r \in TabState /\ tab' = [tab EXCEPT ![t] = r]
        /\ PullOK(r.pull) /\ ListOK(r.pull) /\ PageOK(r.pull)
        /\ TabOK(r.phase, r.pull, cat) /\ Told(r.phase, r.pull, cat, m)
        /\ calm' => CalmInv(r.phase, r.pull, cat, m)
    BY <1>1, <1>5, <1>15, <1>16
  <2>2. \A n \in Held(m.rows) : n \in Held(mirror.rows)
    BY <1>4
  <2> QED
    BY <1>1, <1>4, <1>8, <1>9, <1>13, <1>14, <2>1, <2>2, TabStep
<1> QED
  BY <1>16

-----------------------------------------------------------------------------
(* A catalogue is filed. *)

LEMMA FileStep ==
    ASSUME IInv, NEW t \in Tabs, NEW rows \in Rows, NEW cursor \in Nat, File(t, rows, cursor),
           UNCHANGED <<server, mirror, calm>>, lost \subseteq lost', lost' \subseteq Nodes,
           NEW cat, cat = [rows |-> rows, cursor |-> cursor], CopyOK(cat)',
           cursor = 0 => \A n \in Held(mirror.rows) : ~Doomed(n),
           calm => lost' = {} /\ cursor >= mirror.cursor
    PROVE  IInv'
<1> SUFFICES ASSUME NEW s, s = [tab[t] EXCEPT !.phase = "filed", !.pull = NoPull], NEW m, m = mirror
             PROVE  IInv'
  OBVIOUS
<1>1. /\ tab[t] \in TabState /\ NodeType /\ m \in Copies /\ CopyOK(m) /\ calm \in BOOLEAN
  BY InvTab
<1>2. s \in TabState /\ s.phase = "filed" /\ s.pull = NoPull
  BY <1>1, NoPullFacts DEF TabState, Phases
<1>3. /\ tab' = [tab EXCEPT ![t] = s] /\ catalogue' = [catalogue EXCEPT ![t] = cat] /\ mirror' = m
  BY DEF File
<1>4. cat \in Copies /\ cat.cursor = cursor
  BY DEF Copies
<1>5. CopyOK(m)'
  BY <1>1, QuietFacts
<1>6. PullOK(NoPull) /\ ListOK(NoPull) /\ PageOK(NoPull)
  BY <1>1, NoPullOK DEF NodeType
<1>7. TabOK("filed", NoPull, cat)
  BY NoPullFacts DEF TabOK, Newer
<1>8. Told("filed", NoPull, cat, m)
  BY <1>4, NoPullFacts DEF Told
<1>9. calm => CalmInv("filed", NoPull, cat, m)
  BY <1>4, NoPullFacts DEF CalmInv, CalmPull, CalmTree
<1>10. /\ PullOK(s.pull) /\ ListOK(s.pull) /\ PageOK(s.pull)
       /\ TabOK(s.phase, s.pull, cat) /\ Told(s.phase, s.pull, cat, m)
       /\ calm' => CalmInv(s.phase, s.pull, cat, m)
  BY <1>2, <1>6, <1>7, <1>8, <1>9
<1>11. /\ calm' \in BOOLEAN /\ (calm' => calm /\ lost' = {})
       /\ \A n \in Held(m.rows) : n \in Held(mirror.rows) /\ m.cursor = mirror.cursor
  BY <1>1
<1> QED
  BY <1>1, <1>2, <1>3, <1>4, <1>5, <1>10, <1>11, TabStep

(* The mirror's tree, filed as a catalogue. *)
LEMMA KeptFacts ==
    ASSUME NodeType, ServerOK, NEW copy \in Copies, CopyOK(copy), UNCHANGED server,
           lost \subseteq lost', Orphans(copy.rows, copy.cursor) \subseteq lost',
           NEW cat, cat = [rows |-> Kept(copy.rows), cursor |-> copy.cursor]
    PROVE  Kept(copy.rows) \in Rows /\ CopyOK(cat)'
<1>1. copy.rows \in Rows /\ copy.cursor \in Nat
  BY CopyFields
<1>2. /\ cat.rows = Kept(copy.rows) /\ cat.cursor = copy.cursor
  OBVIOUS
<1>3. Ordered(copy.rows) \subseteq Held(copy.rows)
  BY DEF Ordered
<1>4. /\ cat.rows \in Rows /\ Held(cat.rows) = Ordered(copy.rows)
      /\ \A n \in Ordered(copy.rows) : cat.rows[n] = copy.rows[n]
  <2>1. /\ cat.rows \in Rows /\ Held(cat.rows) = Held(copy.rows) \ (Nodes \ Ordered(copy.rows))
        /\ \A n \in Nodes : cat.rows[n] = IF n \in Nodes \ Ordered(copy.rows) THEN NoRow ELSE copy.rows[n]
    BY <1>1, <1>2, WithoutFacts DEF Kept
  <2>2. Held(copy.rows) \subseteq Nodes
    BY DEF Held
  <2> QED
    BY <1>3, <2>1, <2>2
<1>5. Past(cat.rows)
  BY <1>1, <1>2, PastWithout DEF Kept, CopyOK
<1>6. cat.cursor = 0 => cat.rows = NoRows
  <2> SUFFICES ASSUME copy.cursor = 0 PROVE cat.rows = NoRows
    BY <1>2
  <2>1. Held(cat.rows) = {}
    BY <1>3, <1>4, NoRowsFacts DEF CopyOK
  <2> QED
    BY <1>4, <2>1 DEF Held, Rows, NoRows
<1>7. \A n \in Nodes : Reached(n)' <=> Reached(n)
  BY QuietFacts
<1>8. Complete(cat)'
  <2> SUFFICES ASSUME NEW n \in Nodes, Reached(n), node[n].seq <= cat.cursor
               PROVE  cat.rows[n].seq = node[n].seq \/ (n \in lost' /\ n \notin Held(cat.rows))
    BY <1>7 DEF Complete, server, Held, NoRow
  <2>1. copy.rows[n].seq = node[n].seq \/ (n \in lost /\ n \notin Held(copy.rows))
    BY <1>2 DEF CopyOK, Complete
  <2>2. CASE n \in Ordered(copy.rows)
    BY <1>3, <1>4, <2>1, <2>2
  <2>3. CASE n \notin Held(copy.rows)
    <3>1. node[n].state # "none"
      BY ReachedFacts
    <3>2. copy.rows[n].seq # node[n].seq
      BY <1>1, <2>3, <3>1, RowFacts DEF ServerOK, NodeType
    <3> QED
      BY <1>3, <1>4, <2>1, <2>3, <3>2
  <2>4. CASE n \in Held(copy.rows) \ Ordered(copy.rows)
    <3>1. \E a \in Climb(Up, n) : ~(node[a].seq <= copy.cursor) \/ a \in lost
      BY <2>4, HeldHangs DEF CopyOK
    <3>2. PICK a \in Climb(Up, n) : ~(node[a].seq <= copy.cursor) \/ a \in lost
      BY <3>1
    <3>3. a \in Nodes
      BY ReachedFacts
    <3>4. node[a].seq > copy.cursor \/ a \in lost
      BY <1>1, <3>2, <3>3 DEF NodeType
    <3>5. n \in Orphans(copy.rows, copy.cursor)
      BY <1>2, <2>4, <3>4 DEF Orphans
    <3> QED
      BY <1>4, <2>4, <3>5
  <2> QED
    BY <2>2, <2>3, <2>4
<1>9. NoGhosts(cat)'
  BY <1>2, <1>3, <1>4 DEF CopyOK, NoGhosts, server, Held, NoRow
<1>10. Past(cat.rows)'
  BY <1>5 DEF Past, server, Held, NoRow
<1>11. CopyOK(cat)'
  BY <1>2, <1>6, <1>8, <1>9, <1>10 DEF CopyOK, server, NoRows, NoRow
<1> QED
  BY <1>2, <1>4, <1>11

LEMMA FileKeptInv ==
    ASSUME IInv, NEW t \in Tabs, FileKept(t), UNCHANGED <<server, mirror, calm>>,
           tab[t].pull.pc = "swept"
    PROVE  IInv'
<1> SUFFICES ASSUME NEW copy, copy = mirror, NEW cat, cat = [rows |-> Kept(copy.rows), cursor |-> copy.cursor]
             PROVE  IInv'
  OBVIOUS
<1>1. /\ NodeType /\ ServerOK /\ copy \in Copies /\ CopyOK(copy) /\ lost \subseteq Nodes /\ calm \in BOOLEAN
      /\ calm => lost = {} /\ CalmInv(tab[t].phase, tab[t].pull, catalogue[t], mirror)
      /\ copy.cursor \in Nat
  BY InvTab, CopyFields
<1>2. File(t, Kept(copy.rows), copy.cursor) /\ lost' = lost \cup Orphans(copy.rows, copy.cursor)
  BY DEF FileKept
<1>3. lost \subseteq lost' /\ lost' \subseteq Nodes /\ Orphans(copy.rows, copy.cursor) \subseteq lost'
  BY <1>1, <1>2 DEF Orphans, Held
<1>4. Kept(copy.rows) \in Rows /\ CopyOK(cat)'
  BY <1>1, <1>3, KeptFacts
<1>5. copy.cursor = 0 => Held(mirror.rows) = {}
  BY <1>1, NoRowsFacts DEF CopyOK
<1>6. ASSUME calm PROVE lost' = {} /\ copy.cursor >= mirror.cursor
  <2>1. Settled(mirror.rows) /\ lost = {}
    BY <1>1, <1>6 DEF CalmInv, CalmTree
  <2>2. Orphans(copy.rows, copy.cursor) = {}
    BY <2>1 DEF Orphans, Settled
  <2> QED
    BY <1>1, <1>2, <2>1, <2>2
<1> QED
  BY <1>1, <1>2, <1>3, <1>4, <1>5, <1>6, FileStep

LEMMA BuildInv ==
    ASSUME IInv, NEW t \in Tabs, Build(t)
    PROVE  IInv'
<1>1. tab[t].phase = "building" /\ tab[t].pull.pc = "swept" /\ UNCHANGED <<server, calm>>
  BY DEF Build
<1>2. CASE FileKept(t) /\ UNCHANGED mirror
  BY <1>1, <1>2, FileKeptInv
<1>3. CASE ~(FileKept(t) /\ UNCHANGED mirror)
  <2> SUFFICES ASSUME NEW m, m = [rows |-> NoRows, cursor |-> 0],
                      NEW s, s = [Closed EXCEPT !.rebuilt = TRUE], NEW cat, cat = catalogue[t]
               PROVE  IInv'
    OBVIOUS
  <2>1. mirror' = m /\ tab' = [tab EXCEPT ![t] = s] /\ UNCHANGED <<catalogue, lost>>
    BY <1>3 DEF Build
  <2>2. /\ NodeType /\ ServerOK /\ ClientType /\ cat \in Copies /\ CopyOK(cat)
        /\ TabOK(tab[t].phase, tab[t].pull, cat)
        /\ lost \subseteq Nodes /\ calm \in BOOLEAN /\ (calm => lost = {})
    BY InvTab
  <2>3. m \in Copies /\ CopyOK(m) /\ Held(m.rows) = {}
    BY <2>2, EmptyCopy, NoRowsFacts
  <2>4. cat.cursor = 0 /\ cat.rows = NoRows
    BY <1>1, <2>2 DEF TabOK, CopyOK
  <2>5. /\ s \in TabState /\ PullOK(s.pull) /\ ListOK(s.pull) /\ PageOK(s.pull)
        /\ TabOK(s.phase, s.pull, cat) /\ Told(s.phase, s.pull, cat, m)
        /\ CalmInv(s.phase, s.pull, cat, m)
    BY <2>2, <2>3, <2>4, ClosedTab
  <2>6. CopyOK(m)' /\ CopyOK(cat)'
    BY <1>1, <2>1, <2>2, <2>3, QuietFacts
  <2>7. catalogue' = [catalogue EXCEPT ![t] = cat]
    BY <2>1, <2>2 DEF ClientType
  <2>8. calm' \in BOOLEAN /\ (calm' => calm /\ lost' = {}) /\ lost \subseteq lost' /\ lost' \subseteq Nodes
    BY <1>1, <2>1, <2>2
  <2>9. /\ \A n \in Held(m.rows) : Doomed(n) => n \in Held(mirror.rows)
        /\ \A n \in Held(m.rows) : node[n].state = "dropped" => m.cursor = mirror.cursor
        /\ UNCHANGED server /\ tab' = [tab EXCEPT ![t] = s] /\ mirror' = m
        /\ cat \in Copies /\ m \in Copies
    BY <1>1, <2>1, <2>2, <2>3
  <2> QED
    BY <2>5, <2>6, <2>7, <2>8, <2>9, TabStep
<1> QED
  BY <1>2, <1>3

LEMMA RefileInv ==
    ASSUME IInv, NEW t \in Tabs, Refile(t)
    PROVE  IInv'
<1> DEFINE q == tab[t].pull
<1>1. tab[t].phase = "filed" /\ q.pc = "swept" /\ UNCHANGED <<server, mirror, calm>>
  BY DEF Refile
<1>2. CASE mirror.cursor >= q.cursor
  <2>1. FileKept(t)
    BY <1>2 DEF Refile
  <2> QED
    BY <1>1, <2>1, FileKeptInv
<1>3. CASE ~(mirror.cursor >= q.cursor)
  <2>1. /\ Step(t, IF q.attempt < 2 THEN PullFrom(t, q.attempt + 1) ELSE NoPull)
        /\ UNCHANGED <<server, mirror, catalogue, lost, calm>>
    BY <1>1, <1>3 DEF Refile
  <2>2. /\ q \in Pulls /\ q.attempt \in Nat /\ q.cursor \in Nat /\ mirror.cursor \in Nat /\ NodeType
        /\ Told("filed", q, catalogue[t], mirror)
        /\ calm => CalmInv("filed", q, catalogue[t], mirror)
    BY <1>1, InvTab, PullFields, CopyFields
  <2>3. ~calm
    BY <1>1, <1>3, <2>2 DEF CalmInv, CalmPull
  <2> HIDE DEF q
  <2>4. CASE q.attempt < 2
    <3> DEFINE p == PullFrom(t, q.attempt + 1)
    <3>1. q.attempt + 1 \in Nat
      BY <2>2
    <3>2. /\ p \in Pulls /\ PullOK(p) /\ ListOK(p) /\ PageOK(p)
          /\ TabOK("filed", p, catalogue[t]) /\ Told("filed", p, catalogue[t], mirror)
      BY <1>1, <3>1, PullAgain
    <3>3. Step(t, p)
      BY <2>1, <2>4
    <3> HIDE DEF p
    <3> QED
      BY <1>1, <2>1, <2>3, <3>2, <3>3, PullStepAt
  <2>5. CASE ~(q.attempt < 2)
    <3>1. Step(t, NoPull)
      BY <2>1, <2>5
    <3>2. PullOK(NoPull) /\ ListOK(NoPull) /\ PageOK(NoPull) /\ NoPull \in Pulls
      BY <2>2, NoPullOK, NoPullFacts DEF NodeType
    <3>3. TabOK("filed", NoPull, catalogue[t])
      BY NoPullFacts DEF TabOK, Newer
    <3>4. Told("filed", NoPull, catalogue[t], mirror)
      BY <2>2, NoPullFacts DEF Told
    <3> QED
      BY <1>1, <2>1, <2>3, <3>1, <3>2, <3>3, <3>4, PullStepAt
  <2> QED
    BY <2>4, <2>5
<1> QED
  BY <1>2, <1>3

(* What a pull brought, filed in the catalogue. *)
ArrivedRows(q, copy) == Put(copy.rows, q.arrived)
ArrivedBelow(q, copy) == PurgedBelow(ArrivedRows(q, copy), q.purged)
ArrivedCursor(q, copy) == Greater(copy.cursor, q.cursor)
Arrived(q, copy) == [rows |-> Without(ArrivedRows(q, copy), q.purged \cup ArrivedBelow(q, copy)),
                     cursor |-> ArrivedCursor(q, copy)]

LEMMA ArrivedFacts ==
    ASSUME NodeType, ServerOK, NEW q \in Pulls, q.pc = "swept", ~q.refile, PullOK(q), UNCHANGED server,
           NEW was \in Copies, CopyOK(was), TabOK("filed", q, was),
           \A n \in Held(was.rows) : node[n].state # "dropped",
           lost \subseteq lost',
           Strays(ArrivedRows(q, was), ArrivedCursor(q, was), ArrivedBelow(q, was)) \subseteq lost',
           NEW cat, cat = Arrived(q, was)
    PROVE  /\ ArrivedRows(q, was) \in Rows /\ ArrivedCursor(q, was) \in Nat
           /\ ArrivedBelow(q, was) \subseteq Nodes /\ cat.rows \in Rows /\ CopyOK(cat)'
<1> DEFINE rows == ArrivedRows(q, was)
           cursor == ArrivedCursor(q, was)
           below == ArrivedBelow(q, was)
<1>0. /\ rows = Put(was.rows, q.arrived) /\ cursor = Greater(was.cursor, q.cursor)
      /\ below = PurgedBelow(rows, q.purged) /\ Strays(rows, cursor, below) \subseteq lost'
      /\ cat = [rows |-> Without(rows, q.purged \cup below), cursor |-> cursor]
  BY DEF ArrivedRows, ArrivedCursor, ArrivedBelow, Arrived
<1> HIDE DEF rows, cursor, below
<1>1. /\ was.rows \in Rows /\ was.cursor \in Nat /\ q.arrived \in Rows /\ q.cursor \in Nat
      /\ q.purged \in SUBSET Nodes /\ Past(was.rows) /\ Past(q.arrived)
      /\ \A n \in Nodes : node[n].seq \in Nat
  BY PullFields, CopyFields DEF CopyOK, PullOK, NodeType
<1>2. /\ rows \in Rows /\ Held(rows) = Held(was.rows) \cup Held(q.arrived) /\ Past(rows)
      /\ \A n \in Nodes : rows[n] = IF n \in Held(q.arrived) THEN q.arrived[n] ELSE was.rows[n]
  <2>1. Past(Put(was.rows, q.arrived))
    BY <1>1, PastPut
  <2> QED
    BY <1>0, <1>1, <2>1, PutFacts
<1>3. /\ cursor \in Nat /\ was.cursor <= cursor /\ q.cursor <= cursor
      /\ cursor = was.cursor \/ cursor = q.cursor
  BY <1>0, <1>1 DEF Greater
<1>4. below \subseteq Held(rows) /\ below \subseteq Nodes
  BY <1>0, <1>1, <1>2, BelowClimbs
<1>5. \A r \in q.purged : node[r].state = "gone"
  BY DEF PullOK
<1> DEFINE gone == q.purged \cup below
<1>6. /\ cat.rows \in Rows /\ Past(cat.rows) /\ Held(cat.rows) = Held(rows) \ gone
      /\ \A n \in Nodes : cat.rows[n] = IF n \in gone THEN NoRow ELSE rows[n]
      /\ cat.cursor = cursor
  BY <1>0, <1>2, WithoutFacts, PastWithout
<1>7. Newer(q.arrived, was.cursor) /\ Brought(q, was.cursor)
  BY DEF TabOK
<1>8. \A n \in Nodes : Reached(n)' <=> Reached(n)
  BY QuietFacts
<1>9. Complete(cat)'
  <2> SUFFICES ASSUME NEW n \in Nodes, Reached(n), node[n].seq <= cursor
               PROVE  cat.rows[n].seq = node[n].seq \/ (n \in lost' /\ n \notin Held(cat.rows))
    BY <1>6, <1>8 DEF Complete, server, Held, NoRow
  <2>1. node[n].state = "live" /\ node[n].seq >= 1
    BY ReachedFacts DEF ServerOK
  <2>2. n \notin q.purged
    BY <1>5, <2>1
  <2>3. CASE n \in below
    <3>1. \E a \in Climb(Up, n) \cap Held(rows) : rows[a].parent # node[a].parent
      <4>1. \A r \in q.purged : node[r].state # "live"
        BY <1>5
      <4> QED
        BY <1>0, <1>1, <1>2, <2>3, <4>1, SweepSpares
    <3>2. n \in Strays(rows, cursor, below)
      BY <2>3, <3>1 DEF Strays
    <3> QED
      BY <1>0, <1>6, <2>3, <3>2
  <2>4. CASE n \notin below
    <3>1. cat.rows[n] = rows[n] /\ (n \in Held(cat.rows) <=> n \in Held(rows))
      BY <1>6, <2>2, <2>4
    <3>2. CASE node[n].seq <= was.cursor /\ n \in Held(q.arrived)
      BY <1>1, <1>2, <1>7, <3>1, <3>2 DEF Newer
    <3>3. CASE node[n].seq <= was.cursor /\ n \notin Held(q.arrived)
      BY <1>2, <3>1, <3>3 DEF CopyOK, Complete
    <3>4. CASE ~(node[n].seq <= was.cursor)
      <4>1. was.cursor < node[n].seq /\ node[n].seq <= q.cursor
        BY <1>1, <1>3, <3>4
      <4>2. q.arrived[n].seq = node[n].seq
        BY <1>7, <2>1, <4>1 DEF Brought
      <4>3. n \in Held(q.arrived)
        BY <1>1, <2>1, <4>2, RowFacts
      <4> QED
        BY <1>2, <3>1, <4>2, <4>3
    <3> QED
      BY <3>2, <3>3, <3>4
  <2> QED
    BY <2>3, <2>4
<1>10. NoGhosts(cat)'
  <2> SUFFICES ASSUME NEW n \in Held(cat.rows)
               PROVE  /\ node[n].state = "gone" => node[n].seq > cursor
                      /\ node[n].state = "dropped" => cursor < dropped
    BY <1>6 DEF NoGhosts, server, Held, NoRow
  <2>1. n \in Nodes /\ n \notin q.purged /\ (n \in Held(was.rows) \/ n \in Held(q.arrived))
    BY <1>2, <1>6 DEF Held
  <2>2. ASSUME node[n].state = "gone" PROVE node[n].seq > cursor
    <3>1. node[n].seq > was.cursor
      <4>1. CASE n \in Held(was.rows)
        BY <2>2, <4>1 DEF CopyOK, NoGhosts
      <4>2. CASE n \in Held(q.arrived)
        BY <1>1, <1>7, <2>2, <4>2 DEF Newer, Past
      <4> QED
        BY <2>1, <4>1, <4>2
    <3>2. ~(node[n].seq <= q.cursor)
      BY <1>7, <2>1, <2>2, <3>1 DEF Brought
    <3> QED
      BY <1>1, <1>3, <2>1, <3>1, <3>2
  <2>3. node[n].state # "dropped"
    BY <2>1 DEF PullOK, Doomed
  <2> QED
    BY <2>2, <2>3
<1>11. cat.cursor = 0 => cat.rows = NoRows
  <2> SUFFICES ASSUME cursor = 0 PROVE cat.rows = NoRows
    BY <1>6
  <2>1. was.cursor = 0 /\ q.cursor = 0
    BY <1>1, <1>3
  <2>2. Held(was.rows) = {} /\ Held(q.arrived) = {}
    BY <2>1, NoRowsFacts DEF CopyOK, PullOK
  <2>3. Held(cat.rows) = {}
    BY <1>2, <1>6, <2>2
  <2> QED
    BY <1>6, <2>3 DEF Held, Rows, NoRows
<1>12. cat.cursor <= seqNo
  BY <1>3, <1>6 DEF CopyOK, PullOK
<1>13. Past(cat.rows)'
  BY <1>6 DEF Past, server, Held, NoRow
<1>14. CopyOK(cat)'
  BY <1>9, <1>10, <1>11, <1>12, <1>13 DEF CopyOK, server, NoRows, NoRow
<1> QED
  BY <1>2, <1>3, <1>4, <1>6, <1>14 DEF rows, cursor, below

LEMMA FileArrivedInv ==
    ASSUME IInv, NEW t \in Tabs, FileArrived(t)
    PROVE  IInv'
<1> SUFFICES ASSUME NEW q, q = tab[t].pull, NEW c, c = catalogue[t],
                    NEW cat, cat = Arrived(q, c)
             PROVE  IInv'
  OBVIOUS
<1> DEFINE rows == ArrivedRows(q, c)
           cursor == ArrivedCursor(q, c)
           below == ArrivedBelow(q, c)
           after == Without(rows, q.purged \cup below)
<1>1. /\ tab[t].phase = "filed" /\ q.pc = "swept" /\ ~q.refile /\ File(t, after, cursor)
      /\ lost' = lost \cup Strays(rows, cursor, below)
      /\ UNCHANGED <<server, mirror, calm>>
  BY DEF FileArrived, ArrivedRows, ArrivedCursor, ArrivedBelow
<1>2. /\ q \in Pulls /\ NodeType /\ ServerOK /\ PullOK(q) /\ c \in Copies /\ CopyOK(c)
      /\ TabOK("filed", q, c) /\ Told("filed", q, c, mirror) /\ lost \subseteq Nodes /\ calm \in BOOLEAN
      /\ calm => lost = {} /\ CalmInv("filed", q, c, mirror)
      /\ q.cursor \in Nat /\ c.cursor \in Nat /\ mirror.cursor \in Nat
      /\ q.purged \in SUBSET Nodes /\ q.arrived \in Rows /\ c.rows \in Rows
  BY <1>1, InvTab, PullFields, CopyFields
<1>3. lost \subseteq lost' /\ Strays(rows, cursor, below) \subseteq lost'
  BY <1>1
<1>4. /\ rows \in Rows /\ cursor \in Nat /\ below \subseteq Nodes /\ after \in Rows /\ CopyOK(cat)'
  <2>2. /\ q \in Pulls /\ NodeType /\ ServerOK /\ PullOK(q) /\ c \in Copies /\ CopyOK(c)
        /\ TabOK("filed", q, c) /\ q.pc = "swept" /\ ~q.refile /\ UNCHANGED server
        /\ \A n \in Held(c.rows) : node[n].state # "dropped"
    BY <1>1, <1>2 DEF Told, Started
  <2>3. /\ rows \in Rows /\ cursor \in Nat /\ below \subseteq Nodes
        /\ cat.rows \in Rows /\ CopyOK(cat)'
    BY <1>3, <2>2, ArrivedFacts
  <2> QED
    BY <2>3 DEF Arrived
<1> HIDE DEF after
<1>0. /\ rows = Put(c.rows, q.arrived) /\ cursor = Greater(c.cursor, q.cursor)
      /\ below = PurgedBelow(rows, q.purged) /\ cat = [rows |-> after, cursor |-> cursor]
  BY DEF ArrivedRows, ArrivedCursor, ArrivedBelow, Arrived, after
<1> HIDE DEF rows, cursor, below
<1>5. lost' \subseteq Nodes
  BY <1>1, <1>2, <1>4 DEF Strays
<1>6. c.cursor <= cursor /\ q.cursor <= cursor
  BY <1>0, <1>2 DEF Greater
<1>7. cursor = 0 => \A n \in Held(mirror.rows) : ~Doomed(n)
  <2>1. cursor = 0 => c.cursor = 0
    BY <1>2, <1>4, <1>6
  <2> QED
    BY <1>2, <2>1 DEF Told
<1>8. ASSUME calm PROVE lost' = {} /\ cursor >= mirror.cursor
  <2>1. q.cursor = mirror.cursor /\ Settled(View(c.rows, q.arrived, q.purged)) /\ lost = {}
    BY <1>1, <1>2, <1>8 DEF CalmInv, CalmPull, CalmTree
  <2>2. ASSUME NEW n \in below, Reached(n) PROVE FALSE
    <3>1. n \in Held(rows) /\ n \in Nodes
      BY <1>0, <1>2, <1>4, <2>2, BelowClimbs
    <3>2. n \notin q.purged
      BY <1>2, <2>2, <3>1, ReachedFacts DEF PullOK
    <3>3. n \in Held(Without(rows, q.purged))
      BY <1>4, <3>1, <3>2, WithoutFacts
    <3>4. n \in Ordered(Without(rows, q.purged))
      BY <1>0, <2>1, <2>2, <3>3 DEF Settled, View
    <3> QED
      BY <1>0, <1>2, <1>4, <2>2, <3>4, OrderedWithout
  <2>3. Strays(rows, cursor, below) = {}
    BY <2>2 DEF Strays
  <2> QED
    BY <1>1, <1>2, <1>4, <1>6, <2>1, <2>3
<1>9. /\ after \in Rows /\ cursor \in Nat /\ File(t, after, cursor)
      /\ UNCHANGED <<server, mirror, calm>> /\ cat = [rows |-> after, cursor |-> cursor]
  BY <1>0, <1>1, <1>4
<1> QED
  BY <1>3, <1>4, <1>5, <1>7, <1>8, <1>9, FileStep

-----------------------------------------------------------------------------
(* The invariant holds at the start, and every step keeps it. *)

LEMMA InitServer ==
    ASSUME Init
    PROVE  /\ NodeType /\ ServerOK /\ seqNo \in Nat /\ seqNo > 0
           /\ \A n \in DOMAIN Tree :
                 /\ n \in Nodes /\ n \in Nat /\ n >= 1 /\ n <= seqNo /\ Tree[n] \in Nodes \cup {Top}
                 /\ node[n].state = "live" /\ node[n].parent = Tree[n] /\ node[n].seq = n
           /\ \A n \in Nodes : n \notin DOMAIN Tree => node[n].state = "none"
<1>1. /\ node = [n \in Nodes |->
            IF n \in DOMAIN Tree THEN [state |-> "live", parent |-> Tree[n], seq |-> n]
            ELSE [state |-> "none", parent |-> Top, seq |-> 0]]
      /\ seqNo \in DOMAIN Tree /\ \A n \in DOMAIN Tree : n <= seqNo
      /\ dropped = 0 /\ old = {}
  BY DEF Init
<1>2. ASSUME NEW n \in DOMAIN Tree
      PROVE  /\ n \in Nodes /\ n \in Nat /\ n >= 1 /\ Tree[n] \in Nodes \cup {Top}
             /\ Tree[n] = Top \/ Tree[n] \in DOMAIN Tree
  <2>1. n \in Nodes /\ n \in Nat \ {Top}
    BY FeedAssumption
  <2>2. Tree[n] \in (DOMAIN Tree \cap Folders) \cup {Top}
    BY FeedAssumption
  <2>3. DOMAIN Tree \subseteq Nodes
    BY FeedAssumption
  <2> QED
    BY <2>1, <2>2, <2>3 DEF Top
<1>3. ASSUME NEW n \in DOMAIN Tree
      PROVE  node[n].state = "live" /\ node[n].parent = Tree[n] /\ node[n].seq = n
  <2>1. n \in Nodes
    BY <1>2
  <2>2. node[n] = [state |-> "live", parent |-> Tree[n], seq |-> n]
    BY <1>1, <2>1
  <2> QED
    BY <2>2
<1>4. ASSUME NEW n \in Nodes, n \notin DOMAIN Tree
      PROVE  node[n].state = "none" /\ node[n].parent = Top /\ node[n].seq = 0
  <2>1. node[n] = [state |-> "none", parent |-> Top, seq |-> 0]
    BY <1>1, <1>4
  <2> QED
    BY <2>1
<1>5. seqNo \in Nat /\ seqNo > 0
  BY <1>1, <1>2
<1>6. NodeType
  <2>1. ASSUME NEW n \in Nodes
        PROVE  node[n] \in [state : {"none", "live", "gone", "dropped"},
                            parent : Nodes \cup {Top}, seq : Nat]
    <3>1. CASE n \in DOMAIN Tree
      <4>1. node[n] = [state |-> "live", parent |-> Tree[n], seq |-> n]
        BY <1>1, <2>1, <3>1
      <4> QED
        BY <1>2, <3>1, <4>1
    <3>2. CASE n \notin DOMAIN Tree
      <4>1. node[n] = [state |-> "none", parent |-> Top, seq |-> 0]
        BY <1>1, <2>1, <3>2
      <4> QED
        BY <4>1
    <3> QED
      BY <3>1, <3>2
  <2> QED
    BY <1>1, <1>5, <2>1 DEF NodeType
<1>7. ServerOK
  <2>1. ASSUME NEW n \in Nodes
        PROVE  /\ node[n].seq <= seqNo
               /\ node[n].state = "none" => node[n].seq = 0 /\ node[n].parent = Top
               /\ node[n].state # "none" =>
                     node[n].seq >= 1 /\ (node[n].parent # Top => node[node[n].parent].state # "none")
               /\ node[n].state # "dropped"
    <3>1. CASE n \in DOMAIN Tree
      <4>1. node[n].parent # Top => node[node[n].parent].state = "live"
        BY <1>2, <1>3, <3>1
      <4> QED
        BY <1>1, <1>2, <1>3, <3>1, <4>1
    <3>2. CASE n \notin DOMAIN Tree
      BY <1>4, <1>5, <2>1, <3>2
    <3> QED
      BY <3>1, <3>2
  <2> QED
    BY <1>1, <1>5, <2>1 DEF ServerOK
<1> QED
  BY <1>1, <1>2, <1>3, <1>4, <1>5, <1>6, <1>7

LEMMA InitInv == Init => IInv
<1> SUFFICES ASSUME Init PROVE IInv
  OBVIOUS
<1> DEFINE empty == [rows |-> NoRows, cursor |-> 0]
           all == [n \in Nodes |-> IF n \in DOMAIN Tree THEN [parent |-> Tree[n], seq |-> n] ELSE NoRow]
           full == [rows |-> all, cursor |-> seqNo]
<1>1. /\ mirror = empty \/ mirror = full
      /\ tab = [t \in Tabs |-> Closed] /\ catalogue = [t \in Tabs |-> empty]
      /\ lost = {} /\ calm = (\E t \in Tabs : Tabs = {t})
  BY DEF Init
<1>2. /\ NodeType /\ ServerOK /\ seqNo \in Nat /\ seqNo > 0
      /\ \A n \in DOMAIN Tree :
            /\ n \in Nodes /\ n \in Nat /\ n >= 1 /\ n <= seqNo /\ Tree[n] \in Nodes \cup {Top}
            /\ node[n].state = "live" /\ node[n].parent = Tree[n] /\ node[n].seq = n
      /\ \A n \in Nodes : n \notin DOMAIN Tree => node[n].state = "none"
  BY InitServer
<1>3. empty \in Copies /\ CopyOK(empty) /\ empty.cursor = 0 /\ empty.rows = NoRows
  BY <1>2, EmptyCopy
<1>4. full \in Copies /\ CopyOK(full)
  <2>1. full.rows = all /\ full.cursor = seqNo
    OBVIOUS
  <2>2. /\ \A n \in DOMAIN Tree : all[n].parent = Tree[n] /\ all[n].seq = n
        /\ \A n \in Nodes : n \notin DOMAIN Tree => all[n] = NoRow
        /\ all \in Rows
    <3>1. ASSUME NEW n \in DOMAIN Tree PROVE all[n] = [parent |-> Tree[n], seq |-> n]
      BY <1>2
    <3>2. ASSUME NEW n \in Nodes, n \notin DOMAIN Tree PROVE all[n] = NoRow
      BY <3>2
    <3>3. ASSUME NEW n \in Nodes PROVE all[n] \in [parent : Nodes \cup {Top}, seq : Nat]
      <4>1. CASE n \in DOMAIN Tree
        BY <1>2, <3>1, <4>1
      <4>2. CASE n \notin DOMAIN Tree
        BY <3>2, <3>3, <4>2 DEF NoRow
      <4> QED
        BY <4>1, <4>2
    <3>4. all \in Rows
      BY <3>3 DEF Rows
    <3> HIDE DEF all
    <3>5. ASSUME NEW n \in DOMAIN Tree PROVE all[n].parent = Tree[n] /\ all[n].seq = n
      <4>1. all[n] = [parent |-> Tree[n], seq |-> n]
        BY <3>1
      <4> QED
        BY <4>1
    <3> QED
      BY <3>2, <3>4, <3>5
  <2>3. full \in Copies
    BY <1>2, <2>2 DEF Copies
  <2> HIDE DEF all, full
  <2>4. \A n \in Held(all) : n \in Nodes /\ n \in DOMAIN Tree
    BY <2>2 DEF Held
  <2>5. \A n \in Nodes : node[n].state = "live" => n \in DOMAIN Tree
    BY <1>2
  <2>6. Past(all)
    BY <1>2, <2>2, <2>4 DEF Past
  <2>7. Complete(full)
    <3> SUFFICES ASSUME NEW n \in Nodes, Reached(n) PROVE all[n].seq = node[n].seq
      BY <2>1 DEF Complete
    <3>1. n \in DOMAIN Tree
      BY <2>5, ReachedFacts
    <3> QED
      BY <1>2, <2>2, <3>1
  <2>8. NoGhosts(full)
    BY <1>2, <2>1, <2>4 DEF NoGhosts
  <2> QED
    BY <1>2, <2>1, <2>3, <2>6, <2>7, <2>8 DEF CopyOK
<1>5. mirror \in Copies /\ CopyOK(mirror)
  BY <1>1, <1>3, <1>4
<1> HIDE DEF full, all
<1>6. /\ Closed \in TabState /\ PullOK(Closed.pull) /\ ListOK(Closed.pull) /\ PageOK(Closed.pull)
      /\ TabOK(Closed.phase, Closed.pull, empty) /\ Told(Closed.phase, Closed.pull, empty, mirror)
      /\ CalmInv(Closed.phase, Closed.pull, empty, mirror)
  <2>1. FALSE \in BOOLEAN
    OBVIOUS
  <2> QED
    BY <1>2, <1>3, <1>5, <2>1, ClosedTab
<1> HIDE DEF empty
<1>7. ClientType
  BY <1>1, <1>3, <1>5, <1>6 DEF ClientType
<1>8. \A t \in Tabs : tab[t] = Closed /\ catalogue[t] = empty
  BY <1>1
<1>9. \A t \in Tabs : TabInv(tab[t].phase, tab[t].pull, catalogue[t], mirror)
  BY <1>3, <1>6, <1>8 DEF TabInv
<1>10. CalmOK
  BY <1>1, <1>6, <1>8 DEF CalmOK
<1> QED
  BY <1>2, <1>5, <1>7, <1>9, <1>10 DEF IInv

LEMMA WriteInv ==
    ASSUME IInv, Attended, Write
    PROVE  IInv'
<1>1. NodeType /\ ServerOK
  BY DEF IInv
<1>2. ASSUME NEW n \in Nodes, Touch(n) PROVE IInv'
  <2>1. node[n].state = "live" /\ Stamp(n, "live", node[n].parent)
    BY <1>2, ReachedFacts DEF Touch
  <2>2. NodeType' /\ ServerOK' /\ Wrote(n)
    BY <1>1, <2>1, InPlace
  <2> QED
    BY <2>2, WroteInv
<1>3. ASSUME NEW n \in Nodes, PurgeNode(n) \/ PurgeDescendant(n) PROVE IInv'
  <2>1. node[n].state = "live" /\ Stamp(n, "gone", node[n].parent)
    BY <1>3, ReachedFacts DEF PurgeNode, PurgeDescendant
  <2>2. NodeType' /\ ServerOK' /\ Wrote(n)
    BY <1>1, <2>1, InPlace
  <2> QED
    BY <2>2, WroteInv
<1>4. ASSUME NEW n \in Nodes, DeleteTombstone(n) PROVE IInv'
  BY <1>4, DeleteTombstoneInv
<1>5. ASSUME NEW n \in Nodes, NEW p, Create(n, p) PROVE IInv'
  BY <1>1, <1>5, CreateWrites, WroteInv
<1>6. ASSUME NEW n \in Nodes, NEW p, MoveNode(n, p) PROVE IInv'
  BY <1>1, <1>6, MoveWrites, WroteInv
<1>7. ASSUME Ninety PROVE IInv'
  BY <1>7, NinetyInv
<1> QED
  BY <1>2, <1>3, <1>4, <1>5, <1>6, <1>7 DEF Write

(* What leaves everything but the apps alone. *)
LEMMA SameInv ==
    ASSUME IInv, UNCHANGED <<server, mirror, tab, catalogue, lost, calm>>
    PROVE  IInv'
<1>1. NodeType' /\ ClientType' /\ ServerOK'
  BY DEF IInv, NodeType, ClientType, ServerOK, server
<1>2. UNCHANGED server /\ lost \subseteq lost'
  BY DEF server
<1>3. CopyOK(mirror)'
  <2>1. \A copy : CopyOK(copy) => CopyOK(copy)'
    BY <1>2, QuietFacts
  <2> QED
    BY <2>1 DEF IInv
<1>4. ASSUME NEW t \in Tabs PROVE TabInv(tab[t].phase, tab[t].pull, catalogue[t], mirror)'
  <2>1. \A phase, p, cat, mir : TabInv(phase, p, cat, mir) => TabInv(phase, p, cat, mir)'
    BY <1>2, QuietFacts DEF TabInv
  <2> QED
    BY <2>1 DEF IInv
<1>5. CalmOK'
  <2>1. \A phase, p, cat, mir : CalmInv(phase, p, cat, mir) => CalmInv(phase, p, cat, mir)'
    BY <1>2, QuietFacts
  <2>2. ASSUME calm, NEW t \in Tabs
        PROVE  CalmInv(tab[t].phase, tab[t].pull, catalogue[t], mirror)'
    BY <2>1, <2>2 DEF IInv, CalmOK
  <2> QED
    BY <2>2 DEF IInv, CalmOK
<1> QED
  BY <1>1, <1>3, <1>4, <1>5 DEF IInv

(* News is taken in turn, by a tab whose catalogue is filed. *)
LEMMA HandOnInv ==
    ASSUME IInv, AppOK, NEW t \in Tabs, NEW since, HandOn(t, since),
           UNCHANGED <<server, mirror, catalogue, lost, calm>>
    PROVE  IInv'
<1>1. CASE UNCHANGED tab
  BY <1>1, SameInv
<1>2. CASE app[t].ready /\ tab[t].pull = NoPull /\ Step(t, PullFrom(t, 0))
  BY <1>2, BeginInv DEF AppOK
<1> QED
  BY <1>1, <1>2 DEF HandOn

LEMMA ProceedInv ==
    ASSUME IInv, AppOK, NEW t \in Tabs, Proceed(t)
    PROVE  IInv'
<1>1. CASE Open(t)
  BY <1>1, OpenInv
<1>2. CASE Opened(t)
  BY <1>2, SameInv DEF Opened, client
<1>3. CASE Hear(t)
  BY <1>3, HandOnInv DEF Hear
<1>4. CASE Ingest(t)
  BY <1>4, BeginInv DEF Ingest, AppOK
<1>5. CASE Pull(t)
  <2>1. CASE ReadMark(t) \/ ReadIds(t) \/ ReadNodes(t)
    BY <2>1, ReadMarkInv, ReadIdsInv, ReadNodesInv
  <2>2. CASE StartOver(t) \/ Apply(t) \/ GoBack(t) \/ Sweep(t)
    BY <2>2, StartOverInv, ApplyInv, GoBackInv, SweepInv
  <2>3. CASE Build(t) \/ FileArrived(t) \/ Refile(t)
    BY <2>3, BuildInv, FileArrivedInv, RefileInv
  <2> QED
    BY <1>5, <2>1, <2>2, <2>3 DEF Pull
<1> QED
  BY <1>1, <1>2, <1>3, <1>4, <1>5 DEF Proceed

LEMMA NextInv ==
    ASSUME IInv, AppOK, Attended, [Next]_vars
    PROVE  IInv'
<1>1. CASE Write
  BY <1>1, WriteInv
<1>2. ASSUME NEW t \in Tabs, Proceed(t) PROVE IInv'
  BY <1>2, ProceedInv
<1>3. ASSUME NEW t \in Tabs, CatchUp(t) PROVE IInv'
  BY <1>3, HandOnInv DEF CatchUp
<1>4. ASSUME NEW t \in Tabs, Fail(t) PROVE IInv'
  BY <1>4, FailInv
<1>5. ASSUME NEW t \in Tabs, NEW reload \in BOOLEAN, Close(t, reload) PROVE IInv'
  BY <1>5, CloseInv
<1>6. CASE UNCHANGED vars
  BY <1>6, SameInv DEF vars, server
<1> QED
  BY <1>1, <1>2, <1>3, <1>4, <1>5, <1>6 DEF Next

-----------------------------------------------------------------------------
(* An app hands news on only to a catalogue that is filed. *)

LEMMA InitApp == Init => AppOK
<1> SUFFICES ASSUME Init PROVE AppOK
  OBVIOUS
<1>1. app = [t \in Tabs |-> Away]
  BY DEF Init
<1>2. Away \in AppState /\ ~Away.ready /\ Away.queued = 0
  BY FeedAssumption DEF Away, AppState
<1> HIDE DEF Away
<1> QED
  BY <1>1, <1>2 DEF AppOK

(* A step of one tab, and of its app. *)
LEMMA AppStep ==
    ASSUME ClientType, AppOK, NEW t \in Tabs, NEW s, NEW a \in AppState,
           tab' = [tab EXCEPT ![t] = s], app' = [app EXCEPT ![t] = a],
           a.ready => s.phase = "filed", a.queued > 0 => a.ready
    PROVE  AppOK'
<1>1. app' \in [Tabs -> AppState]
  BY DEF AppOK
<1>2. ASSUME NEW u \in Tabs
      PROVE  (app'[u].ready => tab'[u].phase = "filed") /\ (app'[u].queued > 0 => app'[u].ready)
  <2>1. CASE u = t
    <3>1. tab'[u] = s /\ app'[u] = a
      BY <2>1 DEF ClientType, AppOK
    <3> QED
      BY <3>1
  <2>2. CASE u # t
    <3>1. tab'[u] = tab[u] /\ app'[u] = app[u]
      BY <2>2 DEF ClientType, AppOK
    <3> QED
      BY <3>1 DEF AppOK
  <2> QED
    BY <2>1, <2>2
<1> QED
  BY <1>1, <1>2 DEF AppOK

(* A step of a pull leaves the phase as it is. *)
LEMMA AppPull ==
    ASSUME ClientType, AppOK, NEW t \in Tabs, NEW p, Step(t, p), NEW a \in AppState,
           app' = [app EXCEPT ![t] = a],
           a.ready => tab[t].phase = "filed", a.queued > 0 => a.ready
    PROVE  AppOK'
<1> DEFINE s == [tab[t] EXCEPT !.pull = p]
<1>1. tab' = [tab EXCEPT ![t] = s] /\ s.phase = tab[t].phase
  BY DEF Step, ClientType, TabState
<1> HIDE DEF s
<1> QED
  BY <1>1, AppStep

LEMMA AppSame ==
    ASSUME ClientType, AppOK, UNCHANGED app,
           \A u \in Tabs : tab[u].phase = "filed" => tab'[u].phase = "filed"
    PROVE  AppOK'
BY DEF AppOK

LEMMA AppPullSame ==
    ASSUME ClientType, AppOK, NEW t \in Tabs, NEW p, Step(t, p), UNCHANGED app
    PROVE  AppOK'
<1>1. ASSUME NEW u \in Tabs PROVE tab'[u].phase = tab[u].phase
  BY DEF Step, ClientType, TabState
<1> QED
  BY <1>1, AppSame

LEMMA AppFacts ==
    ASSUME AppOK, NEW t \in Tabs
    PROVE  /\ app[t] \in AppState /\ app[t].since \in Nat /\ app[t].unmet \in Nat
           /\ app[t].queued \in 0..MaxQueued /\ app[t].ready \in BOOLEAN /\ app[t].on \in BOOLEAN
           /\ app[t].ready => tab[t].phase = "filed"
           /\ app[t].queued > 0 => app[t].ready
BY DEF AppOK, AppState

LEMMA HandOnApp ==
    ASSUME ClientType, AppOK, NEW t \in Tabs, NEW since \in Nat, HandOn(t, since)
    PROVE  AppOK'
<1>0. MaxQueued \in Nat
  BY FeedAssumption
<1>1. CASE ~app[t].ready /\ app' = [app EXCEPT ![t].since = since, ![t].unmet = since] /\ UNCHANGED tab
  <2> DEFINE a == [app[t] EXCEPT !.since = since, !.unmet = since]
  <2>1. /\ app' = [app EXCEPT ![t] = a] /\ a \in AppState /\ a.ready = app[t].ready
        /\ a.queued = app[t].queued
    BY <1>1, AppFacts DEF AppOK, AppState
  <2> HIDE DEF a
  <2>2. tab' = [tab EXCEPT ![t] = tab[t]]
    BY <1>1 DEF ClientType
  <2> QED
    BY <2>1, <2>2, AppFacts, AppStep
<1>2. CASE /\ app[t].ready /\ app[t].queued = 0 /\ app' = [app EXCEPT ![t].since = since]
           /\ Step(t, PullFrom(t, 0))
  <2> DEFINE a == [app[t] EXCEPT !.since = since]
  <2>1. /\ app' = [app EXCEPT ![t] = a] /\ a \in AppState /\ a.ready = app[t].ready
        /\ a.queued = app[t].queued
    BY <1>2, AppFacts DEF AppOK, AppState
  <2> HIDE DEF a
  <2> QED
    BY <1>2, <2>1, AppFacts, AppPull
<1>3. CASE /\ app[t].ready /\ app[t].queued < MaxQueued /\ UNCHANGED tab
           /\ app' = [app EXCEPT ![t].since = since, ![t].queued = @ + 1]
  <2> DEFINE a == [app[t] EXCEPT !.since = since, !.queued = @ + 1]
  <2>1. app[t].queued + 1 \in 0..MaxQueued
    BY <1>0, <1>3, AppFacts
  <2>2. app' = [app EXCEPT ![t] = a] /\ a \in AppState /\ a.ready = app[t].ready
    BY <1>3, <2>1, AppFacts DEF AppOK, AppState
  <2> HIDE DEF a
  <2>3. tab' = [tab EXCEPT ![t] = tab[t]]
    BY <1>3 DEF ClientType
  <2>4. (a.ready => tab[t].phase = "filed") /\ (a.queued > 0 => a.ready)
    BY <1>3, <2>2, AppFacts
  <2> QED
    BY <2>2, <2>3, <2>4, AppStep
<1> QED
  BY <1>1, <1>2, <1>3 DEF HandOn

(* What nothing was done with, with or without what the rows filed hold. *)
LEMMA UnmetApp ==
    ASSUME AppOK, NEW t \in Tabs, NEW unmet \in Nat, NEW a, a = [app[t] EXCEPT !.unmet = unmet]
    PROVE  /\ a \in AppState /\ a.ready = app[t].ready /\ a.queued = app[t].queued
           /\ [app EXCEPT ![t].unmet = unmet] = [app EXCEPT ![t] = a]
<1>1. app[t] \in AppState
  BY DEF AppOK
<1>2. a \in AppState /\ a.ready = app[t].ready /\ a.queued = app[t].queued
  BY <1>1 DEF AppState
<1>3. [app EXCEPT ![t].unmet = unmet] = [app EXCEPT ![t] = a]
  OBVIOUS
<1> QED
  BY <1>2, <1>3

LEMMA NotActedOnFacts ==
    ASSUME AppOK, NEW t \in Tabs
    PROVE  \E a \in AppState : /\ NotActedOn(t) = [app EXCEPT ![t] = a]
                               /\ a.ready = app[t].ready /\ a.queued = app[t].queued
<1> DEFINE unmet == Greater(app[t].unmet, app[t].since)
           a == [app[t] EXCEPT !.unmet = unmet]
<1>1. unmet \in Nat
  BY AppFacts DEF Greater
<1>2. NotActedOn(t) = [app EXCEPT ![t].unmet = unmet]
  BY DEF NotActedOn
<1> HIDE DEF unmet
<1>3. a \in AppState /\ a.ready = app[t].ready /\ a.queued = app[t].queued
      /\ [app EXCEPT ![t].unmet = unmet] = [app EXCEPT ![t] = a]
  BY <1>1, UnmetApp
<1> HIDE DEF a
<1> QED
  BY <1>2, <1>3

(* The apps over a build: it files, or starts over. *)
LEMMA BuildApp ==
    ASSUME IInv, AppOK, NEW t \in Tabs, Build(t)
    PROVE  AppOK'
<1>1. ClientType /\ mirror.cursor \in Nat /\ tab[t].phase = "building" /\ ~app[t].ready /\ ~(app[t].queued > 0)
  BY AppFacts, InvTab, CopyFields DEF Build, IInv
<1>2. CASE UNCHANGED app /\ tab' = [tab EXCEPT ![t] = [Closed EXCEPT !.rebuilt = TRUE]]
  <2>1. \A u \in Tabs : tab[u].phase = "filed" => tab'[u].phase = "filed"
    BY <1>1, <1>2 DEF ClientType
  <2> QED
    BY <1>1, <1>2, <2>1, AppSame
<1>3. CASE /\ FileKept(t)
           /\ app' = Standing(t, IF mirror.cursor < tab[t].pull.cursor THEN app[t].since
                                 ELSE app[t].unmet, mirror.cursor)
  <2> DEFINE was == IF mirror.cursor < tab[t].pull.cursor THEN app[t].since ELSE app[t].unmet
             unmet == IF was > mirror.cursor THEN was ELSE 0
             a == [app[t] EXCEPT !.unmet = unmet]
  <2>1. unmet \in Nat
    BY AppFacts
  <2>2. app' = [app EXCEPT ![t].unmet = unmet]
    BY <1>3 DEF Standing
  <2> HIDE DEF unmet
  <2>3. /\ app' = [app EXCEPT ![t] = a] /\ a \in AppState /\ a.ready = app[t].ready
        /\ a.queued = app[t].queued
    BY <2>1, <2>2, UnmetApp
  <2> HIDE DEF a
  <2>4. tab' = [tab EXCEPT ![t] = [@ EXCEPT !.phase = "filed", !.pull = NoPull]]
    BY <1>3 DEF FileKept, File
  <2> QED
    BY <1>1, <2>3, <2>4, AppStep
<1> QED
  BY <1>2, <1>3 DEF Build

LEMMA FiledApp ==
    ASSUME ClientType, AppOK, NEW t \in Tabs, NEW rows, NEW cursor \in Nat, File(t, rows, cursor),
           app' = Standing(t, app[t].unmet, cursor)
    PROVE  AppOK'
<1> DEFINE unmet == IF app[t].unmet > cursor THEN app[t].unmet ELSE 0
           a == [app[t] EXCEPT !.unmet = unmet]
           s == [tab[t] EXCEPT !.phase = "filed", !.pull = NoPull]
<1>1. unmet \in Nat
  BY AppFacts
<1>2. app' = [app EXCEPT ![t].unmet = unmet]
  BY DEF Standing
<1> HIDE DEF unmet
<1>3. /\ app' = [app EXCEPT ![t] = a] /\ a \in AppState /\ a.ready = app[t].ready
      /\ a.queued = app[t].queued
  BY <1>1, <1>2, UnmetApp
<1>4. tab' = [tab EXCEPT ![t] = s] /\ s.phase = "filed"
  BY DEF File, ClientType, TabState
<1> HIDE DEF a, s
<1> QED
  BY <1>3, <1>4, AppFacts, AppStep

LEMMA RefileApp ==
    ASSUME IInv, AppOK, NEW t \in Tabs, Refile(t)
    PROVE  AppOK'
<1>1. ClientType /\ mirror.cursor \in Nat /\ tab[t].phase = "filed"
  BY InvTab, CopyFields DEF Refile, IInv
<1>2. CASE FileKept(t) /\ app' = Standing(t, app[t].unmet, mirror.cursor)
  BY <1>1, <1>2, FiledApp DEF FileKept
<1>3. CASE Step(t, PullFrom(t, tab[t].pull.attempt + 1)) /\ UNCHANGED app
  BY <1>1, <1>3, AppPullSame
<1>4. CASE Step(t, NoPull) /\ app' = NotActedOn(t)
  BY <1>1, <1>4, NotActedOnFacts, AppFacts, AppPull
<1> QED
  BY <1>2, <1>3, <1>4 DEF Refile

LEMMA PullApp ==
    ASSUME IInv, AppOK, NEW t \in Tabs, Pull(t)
    PROVE  AppOK'
<1>1. ClientType
  BY DEF IInv
<1>2. ASSUME NEW p, Step(t, p), UNCHANGED app PROVE AppOK'
  BY <1>1, <1>2, AppPullSame
<1>3. CASE ReadMark(t) \/ ReadIds(t) \/ ReadNodes(t)
  BY <1>2, <1>3 DEF ReadMark, ReadIds, ReadNodes
<1>4. CASE StartOver(t) \/ GoBack(t) \/ Sweep(t)
  BY <1>2, <1>4 DEF StartOver, GoBack, Sweep
<1>5. CASE Apply(t)
  BY <1>2, <1>5 DEF Apply
<1>6. CASE FileArrived(t)
  <2>1. catalogue[t].cursor \in Nat /\ tab[t].pull.cursor \in Nat
    BY InvTab, PullFields, CopyFields
  <2>2. Greater(catalogue[t].cursor, tab[t].pull.cursor) \in Nat
    BY <2>1 DEF Greater
  <2> QED
    BY <1>1, <1>6, <2>2, FiledApp DEF FileArrived
<1> QED
  BY <1>3, <1>4, <1>5, <1>6, BuildApp, RefileApp DEF Pull

LEMMA ProceedApp ==
    ASSUME IInv, AppOK, NEW t \in Tabs, Proceed(t)
    PROVE  AppOK'
<1>1. ClientType /\ NodeType
  BY DEF IInv
<1>2. CASE Open(t)
  <2> DEFINE since == IF Own \/ app[t].on THEN app[t].since ELSE seqNo
             a == [app[t] EXCEPT !.on = TRUE, !.since = since]
             s == [tab[t] EXCEPT !.phase = "building", !.pull = PullFrom(t, 0)]
  <2>1. since \in Nat
    BY <1>1, AppFacts DEF NodeType
  <2>2. app' = [app EXCEPT ![t].on = TRUE, ![t].since = since]
    BY <1>2 DEF Open
  <2> HIDE DEF since
  <2>3. /\ app' = [app EXCEPT ![t] = a] /\ a \in AppState /\ a.ready = app[t].ready
        /\ a.queued = app[t].queued
    BY <2>1, <2>2, AppFacts DEF AppOK, AppState
  <2>4. tab' = [tab EXCEPT ![t] = s] /\ ~app[t].ready
    BY <1>2, AppFacts DEF Open
  <2> HIDE DEF a, s
  <2> QED
    BY <1>1, <2>3, <2>4, AppFacts, AppStep
<1>3. CASE Opened(t)
  <2> DEFINE a == [app[t] EXCEPT !.ready = TRUE]
  <2>1. app' = [app EXCEPT ![t] = a] /\ a \in AppState /\ a.ready
    BY <1>3, AppFacts DEF Opened, AppOK, AppState
  <2> HIDE DEF a
  <2>2. tab' = [tab EXCEPT ![t] = tab[t]] /\ tab[t].phase = "filed"
    BY <1>1, <1>3 DEF Opened, client, ClientType
  <2> QED
    BY <1>1, <2>1, <2>2, AppStep
<1>4. CASE Hear(t)
  <2>1. PICK since \in News(t) : HandOn(t, since)
    BY <1>4 DEF Hear
  <2>2. since \in Nat
    BY <1>1, <2>1 DEF News, FirstPage, Listed, NodeType
  <2> QED
    BY <1>1, <2>1, <2>2, HandOnApp
<1>5. CASE Ingest(t)
  <2> DEFINE a == [app[t] EXCEPT !.queued = @ - 1]
  <2>1. /\ app[t].queued > 0 /\ app' = [app EXCEPT ![t].queued = @ - 1] /\ Step(t, PullFrom(t, 0))
        /\ app[t].ready /\ tab[t].phase = "filed"
    BY <1>5, AppFacts DEF Ingest
  <2>2. app[t].queued - 1 \in 0..MaxQueued
    BY <2>1, AppFacts, FeedAssumption
  <2>3. app' = [app EXCEPT ![t] = a] /\ a \in AppState /\ a.ready
    BY <2>1, <2>2, AppFacts DEF AppOK, AppState
  <2> HIDE DEF a
  <2> QED
    BY <1>1, <2>1, <2>3, AppPull
<1> QED
  BY <1>2, <1>3, <1>4, <1>5, PullApp DEF Proceed

LEMMA FailApp ==
    ASSUME IInv, AppOK, NEW t \in Tabs, Fail(t)
    PROVE  AppOK'
<1>1. ClientType
  BY DEF IInv
<1> DEFINE s == [tab[t] EXCEPT !.pull = NoPull,
                   !.phase = IF tab[t].phase = "building" THEN "closed" ELSE tab[t].phase]
<1>2. tab' = [tab EXCEPT ![t] = s] /\ (tab[t].phase = "filed" => s.phase = "filed")
  BY <1>1 DEF Fail, ClientType, TabState
<1> HIDE DEF s
<1>3. CASE app[t].ready
  <2>1. app' = NotActedOn(t)
    BY <1>3 DEF Fail
  <2> QED
    BY <1>1, <1>2, <2>1, NotActedOnFacts, AppFacts, AppStep
<1>4. CASE ~app[t].ready
  <2>1. app' = [app EXCEPT ![t] = app[t]]
    BY <1>4 DEF Fail, AppOK
  <2> QED
    BY <1>1, <1>2, <1>4, <2>1, AppFacts, AppStep
<1> QED
  BY <1>3, <1>4

LEMMA CloseApp ==
    ASSUME IInv, AppOK, NEW t \in Tabs, NEW reload, Close(t, reload)
    PROVE  AppOK'
<1> DEFINE a == [Away EXCEPT !.since = IF reload THEN 0 ELSE app[t].since]
<1>1. ClientType /\ app' = [app EXCEPT ![t] = a]
  BY DEF Close, IInv
<1>2. a \in AppState /\ ~a.ready /\ ~(a.queued > 0)
  <2> DEFINE since == IF reload THEN 0 ELSE app[t].since
  <2>1. 0 \in 0..MaxQueued
    BY FeedAssumption
  <2>2. since \in Nat
    BY AppFacts
  <2>3. Away \in AppState /\ ~Away.ready /\ Away.queued = 0
    BY <2>1 DEF Away, AppState
  <2>4. a = [Away EXCEPT !.since = since]
    OBVIOUS
  <2> HIDE DEF since, a
  <2> QED
    BY <2>2, <2>3, <2>4 DEF AppState
<1> HIDE DEF a
<1> QED
  BY <1>1, <1>2, AppStep DEF Close

LEMMA NextApp ==
    ASSUME IInv, AppOK, [Next]_vars
    PROVE  AppOK'
<1>1. ClientType
  BY DEF IInv
<1>2. CASE Write
  <2>1. UNCHANGED <<tab, app>>
    BY <1>2 DEF Write, Touch, PurgeNode, PurgeDescendant, DeleteTombstone, Create, MoveNode, Ninety, Stamp
  <2> QED
    BY <1>1, <2>1, AppSame
<1>3. ASSUME NEW t \in Tabs, CatchUp(t) PROVE AppOK'
  BY <1>1, <1>3, AppFacts, HandOnApp DEF CatchUp
<1>4. CASE UNCHANGED vars
  BY <1>1, <1>4, AppSame DEF vars
<1> QED
  BY <1>2, <1>3, <1>4, ProceedApp, FailApp, CloseApp DEF Next

LEMMA InvCopies ==
    ASSUME IInv, AppOK
    PROVE  CopiesFaithful
<1>1. CopyOK(mirror) /\ \A t \in Tabs : CopyOK(catalogue[t]) /\ catalogue[t] \in Copies
  BY DEF IInv, TabInv, ClientType
<1>2. TypeOK
  <2>1. NodeType /\ ClientType /\ dropped <= seqNo
    BY DEF IInv, ServerOK
  <2>2. \A copy \in Copies : CopyOK(copy) => copy \in [rows : Rows, cursor : 0..seqNo]
    BY <2>1 DEF Copies, CopyOK, NodeType
  <2> QED
    BY <1>1, <2>1, <2>2 DEF TypeOK, NodeType, ClientType, AppOK, AppState
<1>3. MirrorComplete /\ MirrorNoGhosts /\ CatalogueComplete /\ CatalogueNoGhosts
  BY <1>1 DEF CopyOK, MirrorComplete, MirrorNoGhosts, CatalogueComplete, CatalogueNoGhosts
<1>4. NothingLost
  BY DEF IInv, CalmOK, NothingLost
<1> QED
  BY <1>2, <1>3, <1>4 DEF CopiesFaithful

(* Every copy a client keeps is what its cursor says it is: for every tree,*)
(* any number of tabs, every page size, listings read across writes, pulls *)
(* cut off, tabs closed and reloaded, tombstones dropped between pulls.    *)
(* What pullFeed, mirror.apply, startOver and fileArrived are for.         *)
THEOREM FeedKeepsCopies ==
    ASSUME Attended
    PROVE  Spec => []CopiesFaithful
<1> DEFINE Inv == IInv /\ AppOK
<1>1. Init => Inv
  BY InitInv, InitApp
<1>2. Inv /\ [Next]_vars => Inv'
  BY NextInv, NextApp
<1>3. Inv => CopiesFaithful
  BY InvCopies
<1> HIDE DEF Inv
<1> QED
  BY <1>1, <1>2, <1>3, PTL DEF Spec

=============================================================================
