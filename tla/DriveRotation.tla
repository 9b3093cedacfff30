--------------------------- MODULE DriveRotation ---------------------------
(***************************************************************************)
(* Subtree key rotation.  After a revocation the owner's devices give the  *)
(* node and everything beneath it fresh keys, parents first, through a work*)
(* query, batches and a finish, while people go on creating, moving,       *)
(* trashing, restoring, deleting and sharing.  In a group's area the area's*)
(* root is re-keyed by the roster that removes a member, and the rest is   *)
(* walked like any other rotation.                                         *)
(*                                                                         *)
(* Every write of the database is one transaction under the workspace's    *)
(* lock, and one action.  What is read before a transaction is kept by the *)
(* walker that read it.  A node's own column of epochs is kept apart from  *)
(* the keys themselves: `epoch` and `under` are what the server stores and *)
(* compares, `key` and `wrap` say which key the stored envelope holds and  *)
(* which one it is wrapped under: whose key it is, the epoch it was sealed *)
(* for and the device that made it, since two devices on one rotation make *)
(* different keys for one node at one epoch.                               *)
(***************************************************************************)
EXTENDS DriveWalks

CONSTANTS
    Nodes,      \* node ids
    Folders,    \* the ids folders take
    Tree,       \* the parents of the nodes there at the start
    Walkers,    \* devices that walk a rotation
    NoWalker,   \* what made a key no walk made
    Edits,      \* what people do besides: see Edit
    Group,      \* is this a group's area?
    MaxEpoch,   \* bound: node key epochs drawn
    MaxRev      \* bound: the revision past which people leave a node alone

Root == 1       \* the workspace's top folder
NoNode == 0     \* what is above it

ASSUME NodesAssumption ==
    IsFiniteSet(Nodes) /\ Nodes \subseteq Nat \ {NoNode} /\ Folders \subseteq Nodes
(* The first nodes' ids are the order they were created in. *)
ASSUME TreeAssumption ==
    /\ DOMAIN Tree \subseteq Nodes /\ Root \in DOMAIN Tree \cap Folders /\ Tree[Root] = NoNode
    /\ \A n \in DOMAIN Tree \ {Root} : Tree[n] < n /\ Tree[n] \in DOMAIN Tree \cap Folders
ASSUME RotationAssumption ==
    /\ NoWalker \notin Walkers /\ Group \in BOOLEAN
    /\ MaxEpoch \in Nat /\ MaxRev \in Nat /\ \A n \in DOMAIN Tree : n <= MaxEpoch

VARIABLES
    node,       \* drive_nodes
    grant,      \* the node's share or link: none, live or revoked, and its epoch
    epochSeq,   \* workspaces.key_epoch_seq
    drawn,      \* epochs clients drew and have not used
    rotation,   \* the active row of drive_rotations
    walker,     \* what each device has read and not yet acted on
    cut,        \* nodes whose earlier key a rotation's rules should have kept
    early,      \* has a rotation been closed while it had work left?
    known       \* keys a removed member can open

vars == <<node, grant, epochSeq, drawn, rotation, walker, cut, early, known>>

Key == [of : Nodes \cup {NoNode}, epoch : Nat, by : Walkers \cup {NoWalker}]
KeyAt(n, e, w) == [of |-> n, epoch |-> e, by |-> w]
FirstKey(n, e) == KeyAt(n, e, NoWalker)
NoKey == FirstKey(NoNode, 0)
NoPrev == [epoch |-> 0, key |-> NoKey, wrap |-> NoKey, parent |-> NoNode]
NoRow == [state |-> "none", parent |-> NoNode, epoch |-> 0, under |-> 0, key |-> NoKey,
          wrap |-> NoKey, prev |-> NoPrev, rev |-> 0, trashed |-> FALSE]
NoGrant == [state |-> "none", epoch |-> 0]
NoRotation == [root |-> NoNode, target |-> 0]
Idle == [pc |-> "idle", root |-> NoNode, target |-> 0, batch |-> {}]

(* The first rows took their epochs in the order they were created. *)
Init ==
    /\ node = [n \in Nodes |->
          IF n \notin DOMAIN Tree THEN NoRow
          ELSE [NoRow EXCEPT !.state = "live", !.parent = Tree[n], !.epoch = n,
                             !.under = Tree[n], !.key = FirstKey(n, n),
                             !.wrap = FirstKey(Tree[n], Tree[n]), !.rev = 1]]
    /\ grant = [n \in Nodes |-> NoGrant]
    /\ epochSeq \in DOMAIN Tree /\ \A n \in DOMAIN Tree : n <= epochSeq
    /\ drawn = {}
    /\ rotation = NoRotation
    /\ walker = [w \in Walkers |-> Idle]
    /\ cut = {}
    /\ early = FALSE
    /\ known = {}

-----------------------------------------------------------------------------
(* Walks. *)

Up == [n \in Nodes |-> node[n].parent]
Kept == {n \in Nodes : node[n].state \in {"pending", "live"}}
Above(n) == Climb(Up, n)
Purged(n) == \E m \in Above(n) : node[m].state = "gone"
Trashed(n) == \E m \in Above(n) : node[m].trashed
Active == rotation # NoRotation
Inside(n) == rotation.root \in Above(n)

(* A folder a write may land in: walked, not purged, not trashed. *)
OpenFolder(p) == p \in Folders /\ node[p].state = "live" /\ ~Purged(p) /\ ~Trashed(p)

(* Mutant: a group's area keeps the rules of a personal one. *)
UnderUnrotatedParentPersonal(p) == FALSE

(* underUnrotatedParent *)
UnderUnrotatedParent(p) ==
    /\ Group /\ Active /\ Inside(p)
    /\ \/ node[p].epoch < rotation.target
       \/ p # Root /\ node[p].under < rotation.target

-----------------------------------------------------------------------------
(* Edits: the other writes of the tree, as far as keys see them. *)

ForWalks == <<epochSeq, drawn, rotation, walker, early>>

AllocateKeyEpochs ==
    /\ epochSeq < MaxEpoch
    /\ epochSeq' = epochSeq + 1
    /\ drawn' = drawn \cup {epochSeq'}
    /\ UNCHANGED <<node, grant, rotation, walker, cut, early, known>>

(* What a removed member learns when n's key is wrapped under p's. *)
Learn(p, n, key) ==
    known' = IF <<p, node[p].key>> \in known THEN known \cup {<<n, key>>} ELSE known

(* A row inserted under p: the client read p's current epoch and key. *)
Insert(p, n, e, state) ==
    /\ OpenFolder(p) /\ ~UnderUnrotatedParent(p)
    /\ e \in drawn
    /\ node' = [node EXCEPT ![n] =
          [NoRow EXCEPT !.state = state, !.parent = p, !.epoch = e, !.under = node[p].epoch,
                        !.key = FirstKey(n, e), !.wrap = node[p].key,
                        !.rev = IF state = "live" THEN 1 ELSE 0]]
    /\ drawn' = drawn \ {e}
    /\ Learn(p, n, FirstKey(n, e))
    /\ UNCHANGED <<grant, epochSeq, rotation, walker, cut, early>>

(* createFolders and copyFile. *)
Create(p, n, e) == node[n].state = "none" /\ Insert(p, n, e, "live")

(* beginUpload of a new file: its row has no change sequence. *)
BeginUpload(p, n, e) ==
    /\ n \notin Folders /\ node[n].state = "none"
    /\ Insert(p, n, e, "pending")

(* finishCompleting publishes if the parent's epoch is still the one the   *)
(* row is wrapped under; otherwise the upload is conflicted.               *)
Complete(n) ==
    /\ node[n].state = "pending" /\ ~Purged(n)
    /\ node[node[n].parent].epoch = node[n].under
    /\ node' = [node EXCEPT ![n].state = "live", ![n].rev = 1]
    /\ UNCHANGED <<grant, cut, known, ForWalks>>

(* attachUpload of a conflicted one, as a sibling: a fresh row in place of *)
(* the one begin made, which goes.                                         *)
AttachSibling(p, n, e) ==
    /\ node[n].state = "pending" /\ node[node[n].parent].epoch # node[n].under
    /\ Insert(p, n, e, "live")

(* releaseUpload: the file nobody has seen goes. *)
AbortUpload(n) ==
    /\ node[n].state = "pending"
    /\ node' = [node EXCEPT ![n] = NoRow]
    /\ UNCHANGED <<grant, cut, known, ForWalks>>

(* n under d, its key rewrapped.  A previous envelope it still carries     *)
(* stays bound to the old parent and is of no more use.                    *)
Rehang(n, d) ==
    /\ node' = [node EXCEPT ![n].parent = d, ![n].under = node[d].epoch,
                            ![n].wrap = node[d].key, ![n].rev = @ + 1, ![n].trashed = FALSE]
    /\ cut' = IF node[n].prev = NoPrev THEN cut ELSE cut \cup {n}
    /\ Learn(d, n, node[n].key)
    /\ UNCHANGED <<grant, ForWalks>>

Changeable(n) == node[n].state = "live" /\ n # Root /\ ~Purged(n) /\ node[n].rev <= MaxRev

MoveNode(n, d) ==
    /\ Changeable(n) /\ ~Trashed(n)
    /\ OpenFolder(d) /\ n \notin Above(d)
    /\ Active => /\ node[n].prev = NoPrev
                 /\ Inside(n) => Inside(d)
                 /\ ~UnderUnrotatedParent(d)
    /\ Rehang(n, d)

(* restoreNode to the top folder, when a folder above is in the trash too. *)
RestoreToRoot(n) ==
    /\ Changeable(n) /\ node[n].trashed
    /\ \E m \in Above(n) \ {n} : node[m].trashed
    /\ ~UnderUnrotatedParent(Root)
    /\ Rehang(n, Root)

SetTrashed(n, trashed) ==
    /\ node' = [node EXCEPT ![n].trashed = trashed, ![n].rev = @ + 1]
    /\ UNCHANGED <<grant, cut, known, ForWalks>>

TrashNode(n) == Changeable(n) /\ ~Trashed(n) /\ SetTrashed(n, TRUE)

(* restoreNode in place. *)
RestoreNode(n) ==
    /\ Changeable(n) /\ node[n].trashed
    /\ \A m \in Above(n) \ {n} : ~node[m].trashed
    /\ SetTrashed(n, FALSE)

(* purgeOne: the envelopes go, the row stays, its grant is revoked. *)
PurgeOne(n) ==
    /\ node' = [node EXCEPT ![n].state = "gone", ![n].rev = @ + 1]
    /\ grant' = [grant EXCEPT ![n].state = IF @ = "live" THEN "revoked" ELSE @]
    /\ UNCHANGED <<cut, known, ForWalks>>

PurgeNode(n) == Changeable(n) /\ node[n].trashed /\ PurgeOne(n)

(* The fan-out of a purge. *)
PurgeDescendant(n) ==
    /\ n \in Kept \ {Root} /\ node[node[n].parent].state = "gone"
    /\ PurgeOne(n)

(* Mutant: a grant does not move the node's change sequence. *)
CreateShareUnseen(n) ==
    /\ ~Group
    /\ node[n].state = "live" /\ ~Purged(n) /\ ~Trashed(n) /\ node[n].rev <= MaxRev
    /\ grant' = [grant EXCEPT ![n] = [state |-> "live", epoch |-> node[n].epoch]]
    /\ UNCHANGED <<node, cut, known, ForWalks>>

(* createShare, resealShare and createLink: sealed under the current key,  *)
(* and the node's change sequence moves (sealedOnNode).                    *)
CreateShare(n) ==
    /\ ~Group
    /\ node[n].state = "live" /\ ~Purged(n) /\ ~Trashed(n) /\ node[n].rev <= MaxRev
    /\ node' = [node EXCEPT ![n].rev = @ + 1]
    /\ grant' = [grant EXCEPT ![n] = [state |-> "live", epoch |-> node[n].epoch]]
    /\ UNCHANGED <<cut, known, ForWalks>>

(* revokeShare and revokeLink: the node's row is not touched. *)
RevokeShare(n) ==
    /\ grant[n].state = "live"
    /\ grant' = [grant EXCEPT ![n].state = "revoked"]
    /\ UNCHANGED <<node, cut, known, ForWalks>>

-----------------------------------------------------------------------------
(* The rotation and its walkers. *)

Carried == {node[n].epoch : n \in Nodes} \cup {node[n].prev.epoch : n \in Nodes}

(* startRotationIn, for an owner or, below the root of a group's area, for *)
(* a manager: one at a time, its target drawn here.  The device that       *)
(* started it walks it.                                                    *)
StartRotation(w, r) ==
    /\ walker[w] = Idle /\ epochSeq < MaxEpoch
    /\ node[r].state = "live" /\ ~Purged(r) /\ ~Active
    /\ Group => r # Root
    /\ epochSeq' = epochSeq + 1
    /\ rotation' = [root |-> r, target |-> epochSeq']
    /\ walker' = [walker EXCEPT ![w] = [Idle EXCEPT !.pc = "walking", !.root = r,
                                                   !.target = epochSeq']]
    /\ UNCHANGED <<node, grant, drawn, cut, early, known>>

(* Mutant: the roster's re-key drops the root's previous envelope. *)
RosterRotationForgetting(w, t) ==
    /\ Group /\ walker[w] = Idle
    /\ t \in drawn /\ \A e \in Carried : e < t
    /\ Active => \A n \in Nodes : node[n].epoch # rotation.target
    /\ rotation' = [root |-> Root, target |-> t]
    /\ drawn' = drawn \ {t}
    /\ node' = [node EXCEPT ![Root].epoch = t, ![Root].key = KeyAt(Root, t, w),
                            ![Root].rev = @ + 1]
    /\ known' = {<<n, node[n].key>> : n \in Kept}
    /\ walker' = [walker EXCEPT ![w] = [Idle EXCEPT !.pc = "walking", !.root = Root, !.target = t]]
    /\ UNCHANGED <<grant, epochSeq, cut, early>>

(* applyRotation: a roster removes a member and, in its own transaction,   *)
(* starts the area's rotation at a target drawn before and re-keys the     *)
(* root.  A running rotation that re-keyed nothing gives way.              *)
RosterRotation(w, t) ==
    /\ Group /\ walker[w] = Idle
    /\ t \in drawn /\ \A e \in Carried : e < t
    /\ Active => \A n \in Nodes : node[n].epoch # rotation.target
    /\ node[Root].prev = NoPrev
    /\ rotation' = [root |-> Root, target |-> t]
    /\ drawn' = drawn \ {t}
    /\ node' = [node EXCEPT ![Root].epoch = t, ![Root].key = KeyAt(Root, t, w),
                            ![Root].prev = [epoch |-> node[Root].epoch, key |-> node[Root].key,
                                            wrap |-> NoKey, parent |-> NoNode],
                            ![Root].rev = @ + 1]
    /\ known' = {<<n, node[n].key>> : n \in Kept}
    /\ walker' = [walker EXCEPT ![w] = [Idle EXCEPT !.pc = "walking", !.root = Root, !.target = t]]
    /\ UNCHANGED <<grant, epochSeq, cut, early>>

(* walkRotation: a device takes up the rotation the server names. *)
Resume(w) ==
    /\ walker[w] = Idle /\ Active
    /\ walker' = [walker EXCEPT ![w] = [Idle EXCEPT !.pc = "walking", !.root = rotation.root,
                                                   !.target = rotation.target]]
    /\ UNCHANGED <<node, grant, epochSeq, drawn, rotation, cut, early, known>>

(* Mutant: a purged root is listed. *)
WorkPurged == {n \in Subtree(Up, Kept, rotation.root) :
                  \/ node[n].epoch < rotation.target
                  \/ n # rotation.root /\ node[n].under < rotation.target}

(* listRotationWork *)
Work == {n \in Subtree(Up, Kept, rotation.root) \cap Kept :
            \/ node[n].epoch < rotation.target
            \/ n # rotation.root /\ node[n].under < rotation.target}

(* Mutant: children go with their parents. *)
ReadyAtOnce == Work

(* deferChildren *)
Ready == LET work == Work IN {n \in work : node[n].parent \notin work}

(* What w sends for n: it re-keys a node below its own target and rewraps  *)
(* the others, under the key it holds for the parent at that target (for   *)
(* the rotation's root, at the epoch the row names).  It seals the grants  *)
(* it saw again, except those its owner's ledger does not hold.            *)
Sealed(w, n, reseal) ==
    [id |-> n, rev |-> node[n].rev, rotated |-> node[n].epoch < walker[w].target,
     key |-> IF node[n].epoch < walker[w].target THEN KeyAt(n, walker[w].target, w)
                                                  ELSE node[n].key,
     under |-> IF n = walker[w].root THEN node[n].under ELSE walker[w].target,
     wrap |-> IF node[n].parent \in Ready THEN KeyAt(node[n].parent, walker[w].target, w)
              ELSE IF n = Root THEN NoKey ELSE node[node[n].parent].key,
     saw |-> grant[n].state = "live", reseal |-> reseal /\ grant[n].state = "live"]

(* rotationWork: a batch, or nothing left and finishRotation's own listing *)
(* empty too.                                                              *)
ListWork(w, reseal) ==
    /\ walker[w].pc = "walking" /\ walker[w].batch = {}
    /\ rotation.root = walker[w].root
    /\ walker' = [walker EXCEPT ![w] =
          IF Work = {} THEN [@ EXCEPT !.pc = "closing"]
          ELSE [@ EXCEPT !.batch = {Sealed(w, n, reseal) : n \in Ready}]]
    /\ UNCHANGED <<node, grant, epochSeq, drawn, rotation, cut, early, known>>

(* rotateNodeIn takes the row, under the lock.  A pending row has no change*)
(* sequence, and what the client sends for it is 0.                        *)
Taken(w, i) ==
    LET n == i.id  p == node[n].parent  t == rotation.target IN
    /\ rotation.root = walker[w].root
    /\ node[n].state = "live" /\ node[n].rev = i.rev
    /\ IF n # rotation.root THEN node[p].epoch >= t /\ node[p].epoch = i.under
       ELSE IF n = Root THEN ~Group
       ELSE node[p].epoch = i.under
    /\ i.rotated = (node[n].epoch < t)
    /\ ~i.rotated => node[n].under < t

Rotated(i) ==
    LET n == i.id IN
    /\ node' = [node EXCEPT ![n].epoch = rotation.target, ![n].key = i.key,
                            ![n].under = i.under, ![n].wrap = i.wrap, ![n].rev = @ + 1,
                            ![n].prev = IF @ # NoPrev THEN @
                                        ELSE [epoch |-> node[n].epoch, key |-> node[n].key,
                                              wrap |-> node[n].wrap, parent |-> node[n].parent]]
    /\ grant' = [grant EXCEPT ![n] =
          IF @.state # "live" THEN @
          ELSE IF i.reseal THEN [@ EXCEPT !.epoch = rotation.target]
          ELSE [@ EXCEPT !.state = "revoked"]]
    /\ cut' = IF node[n].prev = NoPrev /\ i.key.epoch = rotation.target THEN cut
              ELSE cut \cup {n}

Rewrapped(i) ==
    /\ node' = [node EXCEPT ![i.id].under = i.under, ![i.id].wrap = i.wrap, ![i.id].rev = @ + 1]
    /\ UNCHANGED <<grant, cut>>

Send(w, i) ==
    /\ walker[w].pc = "walking" /\ i \in walker[w].batch
    /\ walker' = [walker EXCEPT ![w].batch = @ \ {i}]
    /\ IF Taken(w, i) THEN IF i.rotated THEN Rotated(i) ELSE Rewrapped(i)
       ELSE UNCHANGED <<node, grant, cut>>
    /\ UNCHANGED <<epochSeq, drawn, rotation, early, known>>

(* Mutant: the previous envelopes stay. *)
FinishRotationKeeping(w) ==
    /\ walker[w].pc = "closing"
    /\ IF rotation.root = walker[w].root
       THEN rotation' = NoRotation /\ walker' = [walker EXCEPT ![w] = Idle]
       ELSE walker' = [walker EXCEPT ![w].pc = "walking"] /\ UNCHANGED rotation
    /\ UNCHANGED <<node, grant, epochSeq, drawn, cut, early, known>>

(* finishRotation's transaction: the row it finds active for that root is  *)
(* closed and every previous envelope in the subtree goes.                 *)
FinishRotation(w) ==
    /\ walker[w].pc = "closing"
    /\ IF rotation.root = walker[w].root
       THEN LET all == Subtree(Up, Kept, rotation.root) IN
            /\ node' = [n \in Nodes |-> IF n \in all THEN [node[n] EXCEPT !.prev = NoPrev]
                                                      ELSE node[n]]
            /\ rotation' = NoRotation
            /\ early' = (early \/ Work # {})
            /\ cut' = IF Work = {} THEN cut ELSE cut \cup {n \in all : node[n].prev # NoPrev}
            /\ walker' = [walker EXCEPT ![w] = Idle]
       ELSE /\ walker' = [walker EXCEPT ![w].pc = "walking"]
            /\ UNCHANGED <<node, rotation, early, cut>>
    /\ UNCHANGED <<grant, epochSeq, drawn, known>>

(* The device stops: closed, offline, refused four times over, or told     *)
(* that no rotation is running there.                                      *)
Stop(w) ==
    /\ walker[w] # Idle
    /\ walker' = [walker EXCEPT ![w] = Idle]
    /\ UNCHANGED <<node, grant, epochSeq, drawn, rotation, cut, early, known>>

-----------------------------------------------------------------------------
Edit ==
    \/ "create" \in Edits /\ AllocateKeyEpochs
    \/ \E p, n \in Nodes, e \in drawn :
          \/ "create" \in Edits /\ Create(p, n, e)
          \/ "upload" \in Edits /\ (BeginUpload(p, n, e) \/ AttachSibling(p, n, e))
    \/ \E n \in Nodes :
          \/ "upload" \in Edits /\ (Complete(n) \/ AbortUpload(n))
          \/ "trash" \in Edits /\ (TrashNode(n) \/ RestoreNode(n))
          \/ "purge" \in Edits /\ (PurgeNode(n) \/ PurgeDescendant(n))
          \/ "restore" \in Edits /\ RestoreToRoot(n)
          \/ "share" \in Edits /\ (CreateShare(n) \/ RevokeShare(n))
    \/ "move" \in Edits /\ \E n, d \in Nodes : MoveNode(n, d)

Walk(w) ==
    \/ \E r \in Nodes : StartRotation(w, r)
    \/ \E t \in drawn : RosterRotation(w, t)
    \/ Resume(w) \/ FinishRotation(w) \/ Stop(w)
    \/ \E reseal \in BOOLEAN : ListWork(w, reseal)
    \/ \E i \in walker[w].batch : Send(w, i)

Next == Edit \/ \E w \in Walkers : Walk(w)

Spec == Init /\ [][Next]_vars

-----------------------------------------------------------------------------
Row == [state : {"none", "pending", "live", "gone"}, parent : Nodes \cup {NoNode},
        epoch : Nat, under : Nat, key : Key, wrap : Key, rev : Nat, trashed : BOOLEAN,
        prev : [epoch : Nat, key : Key, wrap : Key, parent : Nodes \cup {NoNode}]]
Item == [id : Nodes, rev : Nat, rotated : BOOLEAN, key : Key, under : Nat, wrap : Key,
         saw : BOOLEAN, reseal : BOOLEAN]

(* Every variable has the shape its table or its client gives it. *)
TypeOK ==
    /\ node \in [Nodes -> Row]
    /\ grant \in [Nodes -> [state : {"none", "live", "revoked"}, epoch : Nat]]
    /\ epochSeq \in Nat /\ drawn \subseteq 1..epochSeq
    /\ rotation \in [root : Nodes \cup {NoNode}, target : Nat]
    /\ walker \in [Walkers -> [pc : {"idle", "walking", "closing"}, root : Nodes \cup {NoNode},
                               target : Nat, batch : SUBSET Item]]
    /\ cut \subseteq Nodes /\ early \in BOOLEAN
    /\ known \subseteq Nodes \X Key

-----------------------------------------------------------------------------
(* p's stored key, or the previous one its row still carries. *)
OpenedBy(p, key) ==
    \/ key = node[p].key
    \/ node[p].prev # NoPrev /\ key = node[p].prev.key

(* n's envelope, and the previous one it may still carry, open from its    *)
(* parent.                                                                 *)
Opens(n) ==
    LET p == node[n].parent IN
    /\ OpenedBy(p, node[n].wrap)
    /\ node[n].prev # NoPrev => node[n].prev.parent = p /\ OpenedBy(p, node[n].prev.wrap)

(* Every stored envelope can be opened from the parent's current key, or   *)
(* from the one beside it while a rotation runs, and so can the previous   *)
(* envelope: whatever people move, create, trash or purge between a        *)
(* device's listing and its batch, and whichever of two devices wins a     *)
(* node.  Nodes in `cut` lost an earlier key by one of the paths the       *)
(* findings name.                                                          *)
EnvelopesOpen ==
    \A n \in Kept \ {Root} :
        node[node[n].parent].state # "gone" /\ {n, node[n].parent} \cap cut = {} => Opens(n)

(* A share or link that is live is sealed under the node's current key:    *)
(* none outlives a re-key that did not seal it again.                      *)
GrantsOpen ==
    \A n \in Kept : grant[n].state = "live" => grant[n].epoch = node[n].epoch

(* What the server stores can be opened: every envelope and every grant ... *)
KeysOpen == EnvelopesOpen /\ GrantsOpen
(* ... of rows that keep their shape, in an area, where nothing is shared. *)
AreaKeysOpen == TypeOK /\ EnvelopesOpen

(* A batch closes only grants its device saw and left out: one made after  *)
(* the device's listing moves the node's change sequence (sealedOnNode),   *)
(* which refuses the batch.                                                *)
GrantsSeen ==
    [][\A w \in Walkers : \A i \in walker[w].batch \ walker'[w].batch :
          grant[i.id].state = "live" /\ grant'[i.id].state = "revoked" => i.saw]_vars

(* Once a group's rotation is over, the member its roster removed can open *)
(* no key of the area, of what was there and of what came since: nothing   *)
(* was created or moved under a folder the walk had yet to reach.          *)
LockedOut ==
    Group /\ ~Active /\ ~early =>
        \A n \in Subtree(Up, Kept, Root) \cap Kept : <<n, node[n].key>> \notin known

(* rotateNodeIn: a re-rotation of a node that still carries its previous   *)
(* envelope is "never expected": it would leave children under the key in  *)
(* between.                                                                *)
KeyedOncePerRotation ==
    [][\A n \in Nodes : node[n].prev # NoPrev /\ node'[n].epoch > node[n].epoch => n \in cut]_vars

-----------------------------------------------------------------------------
(* A device that can reach the server walks on: the app takes a rotation up*)
(* again whenever Drive opens, and a device that stops at any point does   *)
(* not always stop at the same one.  The purge job fans out and expires    *)
(* uploads.                                                                *)
WalkersFair ==
    \A w \in Walkers :
        /\ WF_vars(Resume(w))
        /\ SF_vars(\E reseal \in BOOLEAN : ListWork(w, reseal))
        /\ SF_vars(\E i \in walker[w].batch : Send(w, i))
        /\ SF_vars(FinishRotation(w))

LiveSpec ==
    /\ Spec /\ WalkersFair
    /\ WF_vars("purge" \in Edits /\ \E n \in Nodes : PurgeDescendant(n))
    /\ WF_vars("upload" \in Edits /\ \E n \in Nodes : AbortUpload(n))

(* Work no walk can do: a node the walk has not reached, moved into a      *)
(* folder made since with a newer epoch than the target it is sealed for.  *)
Stranded ==
    \E n \in Work \ {rotation.root} : node[node[n].parent].epoch > rotation.target

(* A rotation that is started is finished, whatever is created, uploaded,  *)
(* moved, trashed or purged under it and however often its device stops,   *)
(* unless something is left stranded.                                      *)
RotationFinishes == Active ~> ~Active \/ Stranded
=============================================================================
