----------------------------- MODULE DriveTree -----------------------------
(***************************************************************************)
(* A workspace's tree: the rows of drive_nodes as every operation that     *)
(* makes, moves, trashes, restores or deletes one leaves them, and the     *)
(* jobs that delete for ever.  Each write is one transaction under the     *)
(* workspace's lock; what runs between them is a job's listing, whose rows *)
(* it then deletes one transaction at a time, and an upload, which makes   *)
(* its node when it begins and shows it when it is complete.               *)
(*                                                                         *)
(* Keys, names, versions and shares are in the other modules.  A person's  *)
(* requests name nodes the feed has shown.                                 *)
(***************************************************************************)
EXTENDS DriveWalks

CONSTANTS
    Folders, Files,     \* the ids nodes take
    Root,               \* the top folder
    NoParent,           \* the root's parent_id
    MaxDepth,           \* MAX_DEPTH
    Batch,              \* bound: nodes one request names
    Events              \* what happens in a run: see Next

Nodes == Folders \cup Files \cup {Root}

ASSUME TreeAssumption ==
    /\ IsFiniteSet(Folders) /\ IsFiniteSet(Files)
    /\ Folders \cap Files = {} /\ Root \notin Folders \cup Files /\ NoParent \notin Nodes
    /\ MaxDepth \in Nat \ {0} /\ Batch \in Nat \ {0}

VARIABLES
    node,       \* drive_nodes
    begun,      \* new files whose upload is open
    listed      \* what each job has listed and not reached

vars == <<node, begun, listed>>

Jobs == {"expired", "empty", "fan"}
Blank == [state |-> "none", parent |-> NoParent, trashed |-> FALSE, removed |-> FALSE,
          aged |-> FALSE, height |-> 0]

(* `aged`: the node has been in the trash, or a tombstone, for its window. *)
Init ==
    /\ node = [n \in Nodes |-> IF n = Root THEN [Blank EXCEPT !.state = "live"] ELSE Blank]
    /\ begun = {}
    /\ listed = [j \in Jobs |-> {}]

-----------------------------------------------------------------------------
(* What a walk from a node finds. *)

UpIn(tree) == [n \in Nodes |-> tree[n].parent]
Walk(tree, n) == Climb(UpIn(tree), n)
ChainOf(n) == Walk(node, n)
DepthOf(n) == Cardinality(ChainOf(n) \ {n})

Present(n) == node[n].state \in {"pending", "live", "gone"}
PurgedIn(tree, n) == \E m \in Walk(tree, n) : tree[m].state = "gone"
TrashedIn(tree, n) == \E m \in Walk(tree, n) : tree[m].trashed
Purged(n) == PurgedIn(node, n)
Trashed(n) == TrashedIn(node, n)
TrashedAncestors(tree, n) == {m \in Walk(tree, n) \ {n} : tree[m].trashed}

(* A folder a node may be put in. *)
Home(p) == p \in Folders \cup {Root} /\ node[p].state = "live" /\ ~Purged(p) /\ ~Trashed(p)

Visible(tree) == {n \in Nodes : \A m \in Walk(tree, n) :
                                    tree[m].state = "live" /\ ~tree[m].trashed}

(* Mutant: only the folder itself. *)
RaisedParent(tree, p, leaf) ==
    [tree EXCEPT ![p].height = IF @ < 1 + leaf THEN 1 + leaf ELSE @]

(* raiseHeightBounds: p and what is above it, for a leaf of this height put*)
(* in p.                                                                   *)
Raised(tree, p, leaf) ==
    LET raised == Walk(tree, p)
        above(m) == Cardinality({x \in raised : m \in Walk(tree, x)}) + leaf
    IN [m \in Nodes |-> IF m \in raised /\ tree[m].height < above(m)
                        THEN [tree[m] EXCEPT !.height = above(m)] ELSE tree[m]]

Placed(tree, n, p, state) == [tree EXCEPT ![n] = [Blank EXCEPT !.state = state, !.parent = p]]

Changed(tree) == node' = tree /\ UNCHANGED listed

-----------------------------------------------------------------------------
(* Creating. *)

(* createFolders: a folder, or a chain of two, in one request. *)
CreateFolders(p, n, m) ==
    /\ node[n].state = "none" /\ Home(p) /\ DepthOf(p) + 1 <= MaxDepth
    /\ LET one == Raised(Placed(node, n, p, "live"), p, 0) IN
       \/ m = n /\ Changed(one)
       \/ /\ m # n /\ node[m].state = "none" /\ DepthOf(p) + 2 <= MaxDepth
          /\ Changed(Raised(Placed(one, m, n, "live"), n, 0))
    /\ UNCHANGED begun

(* copyFile, and attachUpload beside the file. *)
CopyFile(n, p) ==
    /\ node[n].state = "none" /\ Home(p) /\ DepthOf(p) + 1 <= MaxDepth
    /\ Changed(Raised(Placed(node, n, p, "live"), p, 0))
    /\ UNCHANGED begun

(* beginUpload of a new file: the bounds wait for the publish. *)
BeginUpload(n, p) ==
    /\ node[n].state = "none" /\ Home(p) /\ DepthOf(p) + 1 <= MaxDepth
    /\ Changed(Placed(node, n, p, "pending"))
    /\ begun' = begun \cup {n}

ReleaseUpload(n) == Changed([node EXCEPT ![n] = [Blank EXCEPT !.state = "dropped"]])

(* finishCompleting: nothing is shown under a deleted folder. *)
PublishUpload(n) ==
    /\ n \in begun /\ begun' = begun \ {n}
    /\ IF Purged(n) THEN ReleaseUpload(n)
       ELSE Changed(Raised([node EXCEPT ![n].state = "live"], node[n].parent, 0))

AbortUpload(n) == n \in begun /\ begun' = begun \ {n} /\ ReleaseUpload(n)

-----------------------------------------------------------------------------
(* Moving, and the trash. *)

MoveNode(n, p) ==
    /\ n # Root /\ node[n].state = "live" /\ ~Purged(n) /\ ~Trashed(n)
    /\ Home(p) /\ n \notin ChainOf(p)
    /\ DepthOf(p) + 1 + node[n].height <= MaxDepth
    /\ Changed(Raised([node EXCEPT ![n].parent = p], p, node[n].height))
    /\ UNCHANGED begun

Marked(tree, S, trashed) ==
    [n \in Nodes |-> IF n \in S THEN [tree[n] EXCEPT !.trashed = trashed, !.aged = FALSE]
                     ELSE tree[n]]

(* Mutant: what is inside a folder that goes is marked too. *)
OutermostAll(tree, S) == S

(* The nodes of S that are in no other of them. *)
Outermost(tree, S) == {n \in S : Walk(tree, n) \cap S = {n}}

(* trashRefusal *)
MayTrash(tree, n) ==
    n # Root /\ tree[n].state = "live" /\ ~PurgedIn(tree, n) /\ ~TrashedIn(tree, n)

(* trashNode and trashNodes: a node inside another that goes is covered by *)
(* it and is not marked.                                                   *)
Going(tree, S) == Outermost(tree, {n \in S : MayTrash(tree, n)})

TrashNodes(S) ==
    /\ Going(node, S) # {}
    /\ Changed(Marked(node, Going(node, S), TRUE))
    /\ UNCHANGED begun

(* removeNode: an operator's removal, wherever the node is. *)
RemoveNode(n) ==
    /\ n # Root /\ node[n].state = "live" /\ ~Purged(n)
    /\ Changed([node EXCEPT ![n].trashed = TRUE, ![n].removed = TRUE])
    /\ UNCHANGED begun

(* Mutant: a removed node comes back. *)
MayRestoreAny(tree, n) == tree[n].state = "live" /\ ~PurgedIn(tree, n) /\ tree[n].trashed

(* Mutant: only the node itself need not be deleted. *)
MayRestorePurged(tree, n) == tree[n].state = "live" /\ tree[n].trashed /\ ~tree[n].removed

(* restoreRefusal *)
MayRestore(tree, n) ==
    tree[n].state = "live" /\ ~PurgedIn(tree, n) /\ tree[n].trashed /\ ~tree[n].removed

(* restoreNodes, and restoreNode without a new home: a node comes back with*)
(* every trashed folder above it.                                          *)
Returned(tree, S) ==
    LET free == {n \in S : MayRestore(tree, n)} IN
    {n \in free : TrashedAncestors(tree, n) \subseteq free}

RestoreNodes(S) ==
    /\ Returned(node, S) # {}
    /\ Changed(Marked(node, Returned(node, S), FALSE))
    /\ UNCHANGED begun

(* restoreNode with a new home, when a folder above is in the trash. *)
RestoreToRoot(n) ==
    /\ MayRestore(node, n) /\ TrashedAncestors(node, n) # {}
    /\ 1 + node[n].height <= MaxDepth
    /\ Changed(Raised([Marked(node, {n}, FALSE) EXCEPT ![n].parent = Root], Root, node[n].height))
    /\ UNCHANGED begun

-----------------------------------------------------------------------------
(* Deleting for ever. *)

(* purgeOne *)
PurgedTree(S) ==
    [n \in Nodes |-> IF n \in S THEN [node[n] EXCEPT !.state = "gone", !.aged = FALSE]
                     ELSE node[n]]

(* Mutant: whether it is still in the trash is not asked again. *)
MayPurgeAny(n) == n # Root /\ node[n].state = "live" /\ ~Purged(n)

(* purgeRefusal *)
MayPurge(n) == n # Root /\ node[n].state = "live" /\ ~Purged(n) /\ node[n].trashed

(* purgeNode and purgeNodes: past its budget a batch leaves the rest. *)
PurgeNodes(S, left) ==
    LET going == Outermost(node, {n \in S : MayPurge(n)}) IN
    /\ left \subseteq going /\ going \ left # {}
    /\ Changed(PurgedTree(going \ left))
    /\ UNCHANGED begun

(* Mutant: the fan-out passes over what is not published. *)
ListingLive(j) ==
    CASE j = "expired" -> {n \in Nodes : node[n].trashed /\ node[n].aged /\ node[n].state = "live"}
      [] j = "empty" -> {n \in Nodes : node[n].trashed /\ node[n].state = "live" /\ ~Purged(n)}
      [] j = "fan" -> {n \in Nodes \ {Root} : node[n].state = "live"
                                              /\ node[node[n].parent].state = "gone"}

(* What a job lists, outside every lock: trash past its window, the trash  *)
(* roots a person empties, and what is left below a deleted folder.        *)
Listing(j) ==
    CASE j = "expired" -> {n \in Nodes : node[n].trashed /\ node[n].aged /\ node[n].state = "live"}
      [] j = "empty" -> {n \in Nodes : node[n].trashed /\ node[n].state = "live" /\ ~Purged(n)}
      [] j = "fan" -> {n \in Nodes \ {Root} : node[n].state \in {"pending", "live"}
                                              /\ node[node[n].parent].state = "gone"}

List(j) ==
    /\ listed[j] = {} /\ Listing(j) # {}
    /\ listed' = [listed EXCEPT ![j] = Listing(j)]
    /\ UNCHANGED <<node, begun>>

(* purgeExpiredTrash and emptyTrash ask purgeNode, under the lock;         *)
(* purgeDescendants asks only that the row is still there.                 *)
PurgeListed(j, n) ==
    /\ n \in listed[j]
    /\ listed' = [listed EXCEPT ![j] = @ \ {n}]
    /\ IF IF j = "fan" THEN node[n].state \in {"pending", "live"} ELSE MayPurge(n)
       THEN node' = PurgedTree({n}) ELSE UNCHANGED node
    /\ UNCHANGED begun

(* A month in the trash, three as a tombstone. *)
TimePasses ==
    /\ LET aging == {n \in Nodes : node[n].state \in {"live", "gone"} /\ ~node[n].aged
                                   /\ (node[n].trashed \/ node[n].state = "gone")} IN
       /\ aging # {}
       /\ node' = [n \in Nodes |-> IF n \in aging THEN [node[n] EXCEPT !.aged = TRUE] ELSE node[n]]
    /\ UNCHANGED <<begun, listed>>

Childless(n) == \A m \in Nodes : Present(m) => node[m].parent # n

(* Mutant: any tombstone past its window. *)
DeleteExpiredTombstonesAll ==
    LET old == {n \in Nodes : node[n].state = "gone" /\ node[n].aged} IN
    /\ old # {}
    /\ Changed([n \in Nodes |-> IF n \in old THEN [Blank EXCEPT !.state = "dropped"] ELSE node[n]])
    /\ begun' = begun \ old

(* deleteExpiredTombstones: leaves first. *)
DeleteExpiredTombstones ==
    LET old == {n \in Nodes : node[n].state = "gone" /\ node[n].aged /\ Childless(n)} IN
    /\ old # {}
    /\ Changed([n \in Nodes |-> IF n \in old THEN [Blank EXCEPT !.state = "dropped"] ELSE node[n]])
    /\ begun' = begun \ old

-----------------------------------------------------------------------------
Named == {S \in SUBSET (Nodes \ {Root}) : S # {} /\ Cardinality(S) <= Batch}

(* One action per operation, each in the runs whose events name it. *)
Next ==
    \/ "create" \in Events /\ \E p \in Nodes, n, m \in Folders : CreateFolders(p, n, m)
    \/ "copy" \in Events /\ \E n \in Files, p \in Nodes : CopyFile(n, p)
    \/ "upload" \in Events /\ \/ \E n \in Files, p \in Nodes : BeginUpload(n, p)
                              \/ \E n \in Files : PublishUpload(n) \/ AbortUpload(n)
    \/ "move" \in Events /\ \E n, p \in Nodes : MoveNode(n, p)
    \/ "trash" \in Events /\ \E S \in Named : TrashNodes(S)
    \/ "restore" \in Events /\ \E S \in Named : RestoreNodes(S)
    \/ "home" \in Events /\ \E n \in Nodes : RestoreToRoot(n)
    \/ "remove" \in Events /\ \E n \in Nodes : RemoveNode(n)
    \/ "purge" \in Events /\ \E S, left \in Named \cup {{}} : PurgeNodes(S, left)
    \/ "jobs" \in Events /\ (TimePasses \/ DeleteExpiredTombstones)
    \/ "jobs" \in Events /\ \E j \in Jobs : List(j) \/ \E n \in Nodes : PurgeListed(j, n)

Spec == Init /\ [][Next]_vars

-----------------------------------------------------------------------------
(* Every variable has the shape its table or listing gives it. *)
TypeOK ==
    /\ node \in [Nodes -> [state : {"none", "pending", "live", "gone", "dropped"},
                           parent : Nodes \cup {NoParent}, trashed : BOOLEAN,
                           removed : BOOLEAN, aged : BOOLEAN, height : 0..(MaxDepth + 1)]]
    /\ begun \subseteq Files
    /\ listed \in [Jobs -> SUBSET (Nodes \ {Root})]

(* Every row hangs from the top folder through rows that are there: no move*)
(* makes a circle, and no tombstone is dropped under something.            *)
Rooted ==
    /\ Acyclic(UpIn(node))
    /\ \A n \in Nodes : Present(n) => Root \in ChainOf(n) /\ \A m \in ChainOf(n) : Present(m)

(* The rows are a tree, whatever is moved, restored, dropped or published. *)
WellFormed == TypeOK /\ Rooted

(* drive-design.md 365: a height bound is an upper bound on the levels     *)
(* below a node, whatever was created, published, moved or brought back in *)
(* between; a move relies on it instead of reading the subtree.            *)
HeightBounded ==
    \A n \in Nodes : node[n].state \in {"live", "gone"} =>
        \A m \in ChainOf(n) : DepthOf(n) - DepthOf(m) <= node[m].height \/ n \in begun

(* The depth a move allows by that bound: no folder sits deeper than       *)
(* MAX_DEPTH, and so no file more than one below it.                       *)
FoldersWithinDepth == \A n \in Folders : Present(n) => DepthOf(n) <= MaxDepth

(* A tree within its ceiling, and the bound the ceiling rests on: a move   *)
(* decides by numbers that earlier creates, publishes, moves and restores  *)
(* left along its way.                                                     *)
DepthBounded == WellFormed /\ HeightBounded /\ FoldersWithinDepth

(* What is deleted for ever, or under something that is, never shows again *)
(* and is never without the tombstone above it: not by a move, a restore,  *)
(* an upload that completes or a tombstone that goes.                      *)
PurgedForGood ==
    [][\A n \in Nodes : Present(n) /\ Purged(n) => Purged(n)' \/ ~Present(n)']_vars

(* A job deletes what it listed: never a node that shows by then, because  *)
(* it was restored, or moved out, after the listing.                       *)
NothingShownPurged ==
    [][\A n \in Visible(node) : node'[n].state # "gone"]_vars

(* What an operator removed does not show again, whoever restores what     *)
(* around it.                                                              *)
RemovedHidden == \A n \in Nodes : node[n].removed => n \notin Visible(node)

(* Undo: from any tree, restoring what a request moved to the trash brings *)
(* back exactly what showed before it, and restoring one folder of it all  *)
(* that showed in that folder, whatever else the request named inside.     *)
UndoBringsBack ==
    \A S \in Named :
        LET going == Going(node, S)
            after == Marked(node, going, TRUE)
            undone(R) == Visible(Marked(after, Returned(after, R), FALSE))
        IN /\ undone(going) = Visible(node)
           /\ \A r \in going : TrashedAncestors(after, r) = {} =>
                 {n \in Visible(node) : r \in ChainOf(n)} \subseteq undone({r})

-----------------------------------------------------------------------------
(* The purge job runs every day and its fan-out until nothing is left; a   *)
(* listing is worked through.                                              *)
LiveSpec ==
    /\ Spec
    /\ WF_vars("jobs" \in Events /\ TimePasses)
    /\ WF_vars("jobs" \in Events /\ DeleteExpiredTombstones)
    /\ \A j \in Jobs :
          /\ j # "empty" => WF_vars("jobs" \in Events /\ List(j))
          /\ WF_vars("jobs" \in Events /\ \E n \in Nodes : PurgeListed(j, n))

(* What is deleted for ever goes, with all below it, tombstones too; so    *)
(* does what nobody takes out of the trash.                                *)
DeletedGoes ==
    /\ \A n \in Nodes : Present(n) /\ Purged(n) ~> ~Present(n)
    /\ \A n \in Nodes : node[n].state = "live" /\ node[n].trashed
                            ~> node[n].state # "live" \/ ~node[n].trashed
=============================================================================
