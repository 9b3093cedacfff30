---------------------------- MODULE DriveUploads ----------------------------
(***************************************************************************)
(* The upload protocol of one personal workspace: begin, the three steps   *)
(* of complete, attach, abort and expiry, with everything that races them: *)
(* other uploads to the same file, copies, version swaps and discards,     *)
(* trash and purge, a key rotation, and the worker draining the outbox.    *)
(*                                                                         *)
(* One action is one database transaction or one call to the object store. *)
(* A transaction takes the workspace row's lock first (nextChangeSeq), so  *)
(* transactions are atomic; the store is not under that lock, and a server *)
(* process may die between a transaction and a store call.                 *)
(*                                                                         *)
(* All files live in one folder, Dir, directly under the root.  Sizes are  *)
(* small numbers, an object's key and its id are the id of the upload that *)
(* made it, and so is the id of that upload's version.  Cryptography is    *)
(* reduced to the key epochs the server compares.                          *)
(***************************************************************************)
EXTENDS Sums

CONSTANTS
    Files,      \* ids a client may give a file node
    Uploads,    \* upload ids; each names one object and one version as well
    Copies,     \* version ids that copyFile may use
    Requests,   \* server processes handling a complete or abort request
    None,       \* SQL null
    SizeOf,     \* ciphertext size of each upload's object
    Allowance,  \* the workspace's allowance, in the same unit
    MaxEpoch    \* bound: key epochs a rotation may reach

Versions == Uploads \cup Copies

ASSUME SizeAssumption == SizeOf \in [Uploads -> Nat \ {0}]
ASSUME AllowanceAssumption == Allowance \in Nat
ASSUME EpochAssumption == MaxEpoch \in Nat
ASSUME NoneAssumption == None \notin Files /\ None \notin Versions
ASSUME FiniteAssumption == IsFiniteSet(Uploads) /\ IsFiniteSet(Copies)
ASSUME DisjointAssumption == Uploads \cap Copies = {}

VARIABLES
    dir,        \* the folder: its key epoch, trashed_at and purged_at
    node,       \* drive_nodes rows of the files
    version,    \* file_versions rows
    object,     \* drive_objects rows: status, or "none"
    outbox,     \* drive_object_deletions rows: "none", "pending" or "done"
    upload,     \* drive_uploads rows
    used,       \* workspace_storage.used_bytes
    reserved,   \* workspace_storage.reserved_bytes
    expired,    \* uploads a sweep found past expires_at
    multipart,  \* the store's multipart upload of each key
    stored,     \* the store's object at each key: absent, full or short
    req,        \* requests in flight
    sweep,      \* the expiry job's current row
    drain       \* the outbox job's current row

rows == <<dir, node, version, object, outbox, upload, used, reserved>>
store == <<multipart, stored>>
vars == <<rows, expired, store, req, sweep, drain>>

Live == {"open", "completing", "conflicted"}     \* an upload that holds a reservation
Kept == {"pending", "ready"}                     \* a version that is not purged

NoUpload == [status |-> "new", node |-> None, newNode |-> FALSE,
             expected |-> None, epoch |-> 0, bytes |-> 0]
NoNode == [row |-> "none", current |-> None, epoch |-> 0,
           parentEpoch |-> 0, trashed |-> FALSE]
NoVersion == [status |-> "none", node |-> None, object |-> None, superseded |-> FALSE]
Idle == [pc |-> "idle", upload |-> None, seen |-> "none"]

Init ==
    /\ dir = [epoch |-> 0, trashed |-> FALSE, purged |-> FALSE]
    /\ node = [f \in Files |-> NoNode]
    /\ version = [v \in Versions |-> NoVersion]
    /\ object = [u \in Uploads |-> "none"]
    /\ outbox = [u \in Uploads |-> "none"]
    /\ upload = [u \in Uploads |-> NoUpload]
    /\ used = 0
    /\ reserved = 0
    /\ expired = {}
    /\ multipart = [u \in Uploads |-> "none"]
    /\ stored = [u \in Uploads |-> "none"]
    /\ req = [r \in Requests |-> Idle]
    /\ sweep = Idle
    /\ drain = Idle

-----------------------------------------------------------------------------
(* What a transaction reads: the walk from a file to the root, and sums.   *)

HasRow(f) == node[f].row # "none"
ChainPurged(f) == dir.purged \/ node[f].row = "tombstone"
ChainTrashed(f) == dir.trashed \/ node[f].trashed
(* Mutant: bytes other uploads have reserved are counted as free. *)
FreeBytesUnreserved == Allowance - used

FreeBytes == Allowance - used - reserved

VersionsOf(f) == {v \in Versions : version[v].node = f /\ version[v].status \in Kept}
ReadyOf(f) == {v \in VersionsOf(f) : version[v].status = "ready"}

(* The bytes a set of versions is charged, each for its own object. *)
Bytes(vs) == SumOf([v \in vs |-> SizeOf[version[v].object]], vs)
ReservedBytes(us) == SumOf([u \in us |-> upload[u].bytes], us)

-----------------------------------------------------------------------------
(* Parts of transactions. *)

Purged(vs) ==
    [v \in Versions |-> IF v \in vs THEN [version[v] EXCEPT !.status = "purged"]
                                    ELSE version[v]]

(* An upload ends: its row keeps no reservation. *)
Settled(u, status) == [upload EXCEPT ![u] = [@ EXCEPT !.status = status, !.bytes = 0]]

(* Mutant: the versions that go are all that is asked: a copy's is not.    *)
UnreferencedUnasked(vs) ==
    {o \in Uploads : object[o] # "none" /\ \E v \in vs : version[v].object = o}

(***************************************************************************)
(* retireObjectIfUnreferenced, for the objects of versions vs once these   *)
(* are purged: an object that no kept version names loses its row and gets *)
(* an outbox row in the same transaction.                                  *)
(***************************************************************************)
Unreferenced(vs) ==
    {o \in Uploads : /\ object[o] # "none"
                     /\ \E v \in vs : version[v].object = o
                     /\ \A v \in Versions \ vs :
                            version[v].status \in Kept => version[v].object # o}

(* Mutant: the object row goes and no outbox row is written. *)
RetireForgetting(os) ==
    /\ object' = [o \in Uploads |-> IF o \in os THEN "none" ELSE object[o]]
    /\ UNCHANGED outbox

Retire(os) ==
    /\ object' = [o \in Uploads |-> IF o \in os THEN "none" ELSE object[o]]
    /\ outbox' = [o \in Uploads |-> IF o \in os THEN "pending" ELSE outbox[o]]

(* Mutant: a node begin created takes its reservation with it. *)
ReleaseUploadLeaking(u, dropNode) ==
    /\ reserved' = IF dropNode THEN reserved ELSE reserved - upload[u].bytes
    /\ version' = IF dropNode
                  THEN [v \in Versions |-> IF version[v].node = upload[u].node
                                           THEN NoVersion ELSE version[v]]
                  ELSE Purged({u})
    /\ upload' = Settled(u, IF dropNode THEN "gone" ELSE "aborted")
    /\ Retire(Unreferenced({u}))
    /\ node' = IF dropNode THEN [node EXCEPT ![upload[u].node] = NoNode] ELSE node
    /\ UNCHANGED <<dir, used>>

(***************************************************************************)
(* releaseUpload: the reservation goes back, the version is purged and its *)
(* object retired.  With dropNode (a node begin created, which nobody has  *)
(* seen) the version and node rows go too, and with the node the upload's  *)
(* own row, by its foreign key.                                            *)
(***************************************************************************)
ReleaseUpload(u, dropNode) ==
    /\ reserved' = reserved - upload[u].bytes
    /\ version' = IF dropNode
                  THEN [v \in Versions |-> IF version[v].node = upload[u].node
                                           THEN NoVersion ELSE version[v]]
                  ELSE Purged({u})
    /\ upload' = Settled(u, IF dropNode THEN "gone" ELSE "aborted")
    /\ Retire(Unreferenced({u}))
    /\ node' = IF dropNode THEN [node EXCEPT ![upload[u].node] = NoNode] ELSE node
    /\ UNCHANGED <<dir, used>>

(***************************************************************************)
(* publishUpload onto file f, whose current version is `displaced`: bytes  *)
(* move from reserved to used, the version becomes current, the displaced  *)
(* one is superseded and every older ready version is purged.              *)
(***************************************************************************)
PublishUpload(u, f, displaced) ==
    LET older == IF displaced = None THEN {} ELSE ReadyOf(f) \ {displaced, u}
        freed == Unreferenced(older)
    IN  /\ used' = used + SizeOf[u] - Bytes(older)
        /\ reserved' = reserved - upload[u].bytes
        /\ version' = [v \in Versions |->
              CASE v = u -> [version[u] EXCEPT !.status = "ready", !.node = f]
                [] v # u /\ v = displaced -> [version[v] EXCEPT !.superseded = TRUE]
                [] OTHER -> Purged(older)[v]]
        /\ object' = [o \in Uploads |-> CASE o = u -> "ready"
                                          [] o # u /\ o \in freed -> "none"
                                          [] OTHER -> object[o]]
        /\ outbox' = [o \in Uploads |-> IF o \in freed THEN "pending" ELSE outbox[o]]

-----------------------------------------------------------------------------
(* Begin. *)

(* The rows begin writes: the upload, its pending version and object. *)
BeginRows(u, f, newNode) ==
    /\ upload' = [upload EXCEPT ![u] =
          [status |-> "open", node |-> f, newNode |-> newNode,
           expected |-> IF newNode THEN None ELSE node[f].current,
           epoch |-> IF newNode THEN dir.epoch ELSE node[f].epoch,
           bytes |-> SizeOf[u]]]
    /\ version' = [version EXCEPT ![u] =
          [status |-> "pending", node |-> f, object |-> u, superseded |-> FALSE]]
    /\ object' = [object EXCEPT ![u] = "pending"]
    /\ reserved' = reserved + SizeOf[u]
    /\ multipart' = [multipart EXCEPT ![u] = "open"]

(* beginUpload for a new file: the node is made now, without a change      *)
(* sequence, and stays invisible until its first version is published.     *)
BeginNewFile(u, f) ==
    /\ upload[u].status = "new"
    /\ ~HasRow(f)
    /\ ~dir.purged /\ ~dir.trashed
    /\ FreeBytes >= SizeOf[u]
    /\ BeginRows(u, f, TRUE)
    /\ node' = [node EXCEPT ![f] = [NoNode EXCEPT !.row = "pending", !.epoch = dir.epoch,
                                                  !.parentEpoch = dir.epoch]]
    /\ UNCHANGED <<dir, outbox, used, expired, stored, req, sweep, drain>>

(* beginUpload for a new version: the writer names the epoch and version   *)
(* it saw, which begin compares with the row; both are recorded.           *)
BeginVersion(u, f) ==
    /\ upload[u].status = "new"
    /\ node[f].row = "live"
    /\ ~ChainPurged(f) /\ ~ChainTrashed(f)
    /\ FreeBytes >= SizeOf[u]
    /\ BeginRows(u, f, FALSE)
    /\ UNCHANGED <<dir, node, outbox, used, expired, stored, req, sweep, drain>>

-----------------------------------------------------------------------------
(* Complete: two transactions with the store's work between them. *)

(* startCompleting, repeatable while completing; an expired open upload is *)
(* refused.                                                                *)
StartCompleting(r, u) ==
    /\ req[r].pc = "idle"
    /\ \/ upload[u].status = "open" /\ u \notin expired
       \/ upload[u].status = "completing"
    /\ upload' = [upload EXCEPT ![u].status = "completing"]
    /\ req' = [req EXCEPT ![r] = [pc |-> "store", upload |-> u, seen |-> "none"]]
    /\ UNCHANGED <<dir, node, version, object, outbox, used, reserved, expired, store,
                   sweep, drain>>

(***************************************************************************)
(* completeMultipart and the head that follows it.  A multipart upload     *)
(* that is gone is no error: head decides.  The store may end up with an   *)
(* object of another size, which the next step refuses.                    *)
(***************************************************************************)
CompleteMultipart(r) ==
    LET u == req[r].upload
    IN  /\ req[r].pc = "store"
        /\ \/ /\ multipart[u] = "open"
              /\ multipart' = [multipart EXCEPT ![u] = "closed"]
              /\ \E size \in {"full", "short"} : stored' = [stored EXCEPT ![u] = size]
           \/ multipart[u] # "open" /\ UNCHANGED store
        /\ req' = [req EXCEPT ![r].pc = "finish", ![r].seen = stored'[u]]
        /\ UNCHANGED <<rows, expired, sweep, drain>>

(* Mutant: a late finish is let through for an upload already aborted. *)
FinishableLate(u) == upload[u].status \in {"completing", "conflicted", "aborted"}

Finishable(u) == upload[u].status \in {"completing", "conflicted"}

(* The row, the chain and the size let the upload reach its precondition. *)
Reaches(u, seen) ==
    seen = "full" /\ HasRow(upload[u].node) /\ ~ChainPurged(upload[u].node)

(* Mutant: completion compares the keys and forgets the version. *)
MovedKeys(u) ==
    \/ node[upload[u].node].epoch # upload[u].epoch
    \/ upload[u].newNode /\ node[upload[u].node].parentEpoch # dir.epoch

(* The precondition begin recorded has moved: the file's key, the folder's *)
(* key a new file is wrapped under, or the current version.                *)
Moved(u) ==
    LET n == node[upload[u].node]
    IN  \/ n.epoch # upload[u].epoch
        \/ upload[u].newNode /\ n.parentEpoch # dir.epoch
        \/ ~upload[u].newNode /\ n.current # upload[u].expected

Publishes(u, seen) == Finishable(u) /\ Reaches(u, seen) /\ ~Moved(u)

(***************************************************************************)
(* finishCompleting, by the request or by the expiry job: released when    *)
(* the size is wrong or the node purged, conflicted with its bytes still   *)
(* reserved when the precondition moved, else published.                   *)
(***************************************************************************)
FinishCompleting(u, seen) ==
    \/ ~Finishable(u) /\ UNCHANGED rows
    \/ Finishable(u) /\ ~Reaches(u, seen) /\ ReleaseUpload(u, upload[u].newNode)
    \/ /\ Finishable(u) /\ Reaches(u, seen) /\ Moved(u)
       /\ upload' = [upload EXCEPT ![u].status = "conflicted"]
       /\ UNCHANGED <<dir, node, version, object, outbox, used, reserved>>
    \/ LET f == upload[u].node
       IN  /\ Publishes(u, seen)
           /\ PublishUpload(u, f, node[f].current)
           /\ node' = [node EXCEPT ![f].row = "live", ![f].current = u]
           /\ upload' = Settled(u, "completed")
           /\ UNCHANGED dir

FinishRequest(r) ==
    /\ req[r].pc = "finish"
    /\ FinishCompleting(req[r].upload, req[r].seen)
    /\ req' = [req EXCEPT ![r] = Idle]
    /\ UNCHANGED <<expired, store, sweep, drain>>

-----------------------------------------------------------------------------
(* Attach and abort. *)

(* attachUpload on the same node, with the envelope's epoch the node's     *)
(* current one: still under the version precondition begin recorded.       *)
AttachSameNode(u) ==
    LET f == upload[u].node
    IN  /\ upload[u].status = "conflicted"
        /\ \/ ChainPurged(f) /\ ReleaseUpload(u, upload[u].newNode)
           \/ /\ HasRow(f) /\ ~ChainPurged(f)
              /\ ~upload[u].newNode
              /\ node[f].current = upload[u].expected
              /\ PublishUpload(u, f, node[f].current)
              /\ node' = [node EXCEPT ![f].row = "live", ![f].current = u]
              /\ upload' = [Settled(u, "completed") EXCEPT ![u].epoch = node[f].epoch]
              /\ UNCHANGED dir
        /\ UNCHANGED <<expired, store, req, sweep, drain>>

(* attachUpload as a sibling: a new file is made and published at once; a  *)
(* node begin made for this upload goes with the old plan.                 *)
AttachSibling(u, g) ==
    LET f == upload[u].node
        fresh == [NoNode EXCEPT !.row = "live", !.current = u, !.epoch = dir.epoch,
                                !.parentEpoch = dir.epoch]
    IN  /\ upload[u].status = "conflicted"
        /\ ~HasRow(g)
        /\ ~dir.purged /\ ~dir.trashed
        /\ PublishUpload(u, g, None)
        /\ node' = [h \in Files |-> CASE h = g -> fresh
                                      [] h = f /\ upload[u].newNode -> NoNode
                                      [] OTHER -> node[h]]
        /\ upload' = [upload EXCEPT ![u] = [status |-> "completed", node |-> g,
                          newNode |-> TRUE, expected |-> None, epoch |-> dir.epoch,
                          bytes |-> 0]]
        /\ UNCHANGED <<dir, expired, store, req, sweep, drain>>

(* abortUpload from a client: refused while completing; the store's abort  *)
(* is a call of its own after the commit.                                  *)
AbortUpload(r, u) ==
    /\ req[r].pc = "idle"
    /\ upload[u].status \in {"open", "conflicted"}
    /\ ReleaseUpload(u, upload[u].newNode)
    /\ req' = [req EXCEPT ![r] = [pc |-> "abort", upload |-> u, seen |-> "none"]]
    /\ UNCHANGED <<expired, store, sweep, drain>>

AbortMultipart(u) ==
    multipart' = [multipart EXCEPT ![u] = IF @ = "open" THEN "closed" ELSE @]

AbortRequest(r) ==
    /\ req[r].pc = "abort"
    /\ AbortMultipart(req[r].upload)
    /\ req' = [req EXCEPT ![r] = Idle]
    /\ UNCHANGED <<rows, expired, stored, sweep, drain>>

(* The server process dies, or its call to the store fails. *)
LoseRequest(r) ==
    /\ req[r].pc # "idle"
    /\ req' = [req EXCEPT ![r] = Idle]
    /\ UNCHANGED <<rows, expired, store, sweep, drain>>

-----------------------------------------------------------------------------
(* The expiry job, one listed row at a time; `seen` holds first the status *)
(* the listing read and then what the store answered.                      *)

(* listExpiredUploads: open and conflicted rows past expires_at, and rows  *)
(* completing for an hour.  The clock is free: time may pass at any step.  *)
ListExpired(u) ==
    /\ sweep.pc = "idle"
    /\ upload[u].status \in Live
    /\ sweep' = [pc |-> IF upload[u].status = "completing" THEN "head" ELSE "abort",
                 upload |-> u, seen |-> "none"]
    /\ expired' = IF upload[u].status = "completing" THEN expired ELSE expired \cup {u}
    /\ UNCHANGED <<rows, store, req, drain>>

(* head at the store; an error is taken for an absent object. *)
HeadExpired ==
    /\ sweep.pc = "head"
    /\ \E answer \in {stored[sweep.upload], "none"} :
          sweep' = [sweep EXCEPT !.pc = IF answer = "full" THEN "finish" ELSE "abort",
                                 !.seen = answer]
    /\ UNCHANGED <<rows, expired, store, req, drain>>

FinishExpired ==
    /\ sweep.pc = "finish"
    /\ FinishCompleting(sweep.upload, sweep.seen)
    /\ sweep' = IF Publishes(sweep.upload, sweep.seen) THEN Idle
                ELSE [sweep EXCEPT !.pc = "abort"]
    /\ UNCHANGED <<expired, store, req, drain>>

(* Mutant: the forced abort trusts the status the listing read. *)
AbortExpiredStale ==
    /\ sweep.pc = "abort"
    /\ ReleaseUpload(sweep.upload, upload[sweep.upload].newNode)
    /\ sweep' = [sweep EXCEPT !.pc = "abortMultipart"]
    /\ UNCHANGED <<expired, store, req, drain>>

(* Mutant: expiry aborts without force, so a completing upload is left. *)
AbortExpiredUnforced ==
    LET u == sweep.upload
    IN  /\ sweep.pc = "abort"
        /\ \/ /\ upload[u].status \in {"open", "conflicted"}
              /\ ReleaseUpload(u, upload[u].newNode)
              /\ sweep' = [sweep EXCEPT !.pc = "abortMultipart"]
           \/ /\ upload[u].status \notin {"open", "conflicted"}
              /\ UNCHANGED rows
              /\ sweep' = Idle
        /\ UNCHANGED <<expired, store, req, drain>>

(* abortUpload with force: a completing upload too; a resolved one is left. *)
AbortExpired ==
    LET u == sweep.upload
    IN  /\ sweep.pc = "abort"
        /\ \/ /\ upload[u].status \in Live
              /\ ReleaseUpload(u, upload[u].newNode)
              /\ sweep' = [sweep EXCEPT !.pc = "abortMultipart"]
           \/ /\ upload[u].status \notin Live
              /\ UNCHANGED rows
              /\ sweep' = Idle
        /\ UNCHANGED <<expired, store, req, drain>>

AbortExpiredMultipart ==
    /\ sweep.pc = "abortMultipart"
    /\ AbortMultipart(sweep.upload)
    /\ sweep' = Idle
    /\ UNCHANGED <<rows, expired, stored, req, drain>>

SweepStep == HeadExpired \/ FinishExpired \/ AbortExpired \/ AbortExpiredMultipart

-----------------------------------------------------------------------------
(* The outbox job, without a replica: list, delete at the store, mark. *)

ListDeletion(o) ==
    /\ drain.pc = "idle"
    /\ outbox[o] = "pending"
    /\ drain' = [pc |-> "delete", upload |-> o, seen |-> "none"]
    /\ UNCHANGED <<rows, expired, store, req, sweep>>

DeletePrimary ==
    /\ drain.pc = "delete"
    /\ stored' = [stored EXCEPT ![drain.upload] = "none"]
    /\ drain' = [drain EXCEPT !.pc = "mark"]
    /\ UNCHANGED <<rows, expired, multipart, req, sweep>>

(* Mutant: the row is not marked, and every run deletes it again. *)
MarkPrimaryDeletedLost ==
    /\ drain.pc = "mark"
    /\ drain' = Idle
    /\ UNCHANGED <<rows, expired, store, req, sweep>>

MarkPrimaryDeleted ==
    /\ drain.pc = "mark"
    /\ outbox' = [outbox EXCEPT ![drain.upload] = "done"]
    /\ drain' = Idle
    /\ UNCHANGED <<dir, node, version, object, upload, used, reserved, expired, store,
                   req, sweep>>

DrainStep == DeletePrimary \/ MarkPrimaryDeleted

(* The worker dies in the middle of either job; the next run lists again. *)
LoseWorker ==
    /\ sweep.pc # "idle" \/ drain.pc # "idle"
    /\ sweep' = Idle /\ drain' = Idle
    /\ UNCHANGED <<rows, expired, store, req>>

-----------------------------------------------------------------------------
(* Copies and versions. *)

(* copyFile: a new file whose first version names the source's object and  *)
(* pays for it again.                                                      *)
CopyFile(f, c, g) ==
    LET source == version[node[f].current]
    IN  /\ version[c].status = "none"
        /\ node[f].row = "live" /\ node[f].current # None
        /\ ~ChainPurged(f) /\ ~ChainTrashed(f)
        /\ source.status = "ready" /\ object[source.object] = "ready"
        /\ ~HasRow(g)
        /\ FreeBytes >= SizeOf[source.object]
        /\ node' = [node EXCEPT ![g] = [row |-> "live", current |-> c, epoch |-> dir.epoch,
                                        parentEpoch |-> dir.epoch, trashed |-> FALSE]]
        /\ version' = [version EXCEPT ![c] = [status |-> "ready", node |-> g,
                          object |-> source.object, superseded |-> FALSE]]
        /\ used' = used + SizeOf[source.object]
        /\ UNCHANGED <<dir, object, outbox, upload, reserved, expired, store, req, sweep,
                       drain>>

(* Mutant: the displaced version is not marked superseded. *)
RestoreVersionOneSided(v) ==
    /\ version[v].status = "ready" /\ version[v].superseded
    /\ ~ChainPurged(version[v].node) /\ ~ChainTrashed(version[v].node)
    /\ node[version[v].node].current \notin {None, v}
    /\ version' = [version EXCEPT ![v].superseded = FALSE]
    /\ node' = [node EXCEPT ![version[v].node].current = v]
    /\ UNCHANGED <<dir, object, outbox, upload, used, reserved, expired, store, req,
                   sweep, drain>>

(* restoreVersion: the superseded version and the current one swap. *)
RestoreVersion(v) ==
    LET f == version[v].node
    IN  /\ version[v].status = "ready" /\ version[v].superseded
        /\ ~ChainPurged(f) /\ ~ChainTrashed(f)
        /\ node[f].current \notin {None, v}
        /\ version' = [version EXCEPT ![node[f].current].superseded = TRUE,
                                      ![v].superseded = FALSE]
        /\ node' = [node EXCEPT ![f].current = v]
        /\ UNCHANGED <<dir, object, outbox, upload, used, reserved, expired, store, req,
                       sweep, drain>>

(* purgeVersion on a ready version. *)
PurgeReady(v) ==
    /\ version' = Purged({v})
    /\ used' = used - SizeOf[version[v].object]
    /\ Retire(Unreferenced({v}))
    /\ UNCHANGED <<dir, node, upload, reserved, expired, store, req, sweep, drain>>

(* discardVersion, by a person. *)
DiscardVersion(v) ==
    /\ version[v].status = "ready" /\ version[v].superseded
    /\ ~ChainPurged(version[v].node)
    /\ node[version[v].node].current # v
    /\ PurgeReady(v)

(* Mutant: the sweep trusts its listing and not the row under the lock. *)
SweepSupersededStale(v) ==
    /\ version[v].status \in {"ready", "purged"} /\ version[v].superseded
    /\ node[version[v].node].current # v
    /\ PurgeReady(v)

(* purgeExpiredSupersededVersions: the sweep asks the node's pointer only. *)
SweepSuperseded(v) ==
    /\ version[v].status = "ready" /\ version[v].superseded
    /\ node[version[v].node].current # v
    /\ PurgeReady(v)

-----------------------------------------------------------------------------
(* Trash, purge and rotation, as far as uploads meet them. *)

(***************************************************************************)
(* purgeOne: ready versions give their bytes back; an open or conflicted   *)
(* upload is released and a completing one left to find the node purged;   *)
(* the row stays as a tombstone.                                           *)
(***************************************************************************)
PurgeOne(f) ==
    LET completing == {u \in VersionsOf(f) \cap Uploads :
                          version[u].status = "pending" /\ upload[u].status = "completing"}
        released == {u \in VersionsOf(f) \cap Uploads :
                          version[u].status = "pending"
                          /\ upload[u].status \in {"open", "conflicted"}}
        going == VersionsOf(f) \ completing
    IN  /\ version' = Purged(going)
        /\ used' = used - Bytes(ReadyOf(f))
        /\ reserved' = reserved - ReservedBytes(released)
        /\ upload' = [u \in Uploads |->
              IF u \in released THEN [upload[u] EXCEPT !.status = "aborted", !.bytes = 0]
                                ELSE upload[u]]
        /\ Retire(Unreferenced(going))
        /\ node' = [node EXCEPT ![f].row = "tombstone"]
        /\ UNCHANGED <<dir, expired, store, req, sweep, drain>>

(* purgeNode: a person, or the retention sweep, on a trashed file. *)
PurgeFile(f) ==
    /\ node[f].row = "live" /\ node[f].trashed /\ ~dir.purged
    /\ PurgeOne(f)

(* purgeDescendants: the fan-out under the purged folder, pending files too. *)
PurgeDescendant(f) ==
    /\ dir.purged /\ node[f].row \in {"pending", "live"}
    /\ PurgeOne(f)

(* trashNode and restoreNode on a file a client was served. *)
TrashFile(f) ==
    /\ node[f].row = "live" /\ ~ChainPurged(f) /\ ~ChainTrashed(f)
    /\ node' = [node EXCEPT ![f].trashed = TRUE]
    /\ UNCHANGED <<dir, version, object, outbox, upload, used, reserved, expired, store,
                   req, sweep, drain>>

RestoreFile(f) ==
    /\ node[f].row = "live" /\ ~ChainPurged(f) /\ node[f].trashed /\ ~dir.trashed
    /\ node' = [node EXCEPT ![f].trashed = FALSE]
    /\ UNCHANGED <<dir, version, object, outbox, upload, used, reserved, expired, store,
                   req, sweep, drain>>

(* The same on the folder; purging it leaves its files to the fan-out.     *)
TrashDir ==
    /\ ~dir.purged /\ ~dir.trashed
    /\ dir' = [dir EXCEPT !.trashed = TRUE]
RestoreDir ==
    /\ ~dir.purged /\ dir.trashed
    /\ dir' = [dir EXCEPT !.trashed = FALSE]
PurgeDir ==
    /\ ~dir.purged /\ dir.trashed
    /\ dir' = [dir EXCEPT !.purged = TRUE]

(* rotateNodeIn on the folder, the root of a rotation. *)
RotateDir ==
    /\ ~dir.purged /\ dir.epoch < MaxEpoch
    /\ dir' = [dir EXCEPT !.epoch = @ + 1]

ChangeDir ==
    /\ TrashDir \/ RestoreDir \/ PurgeDir \/ RotateDir
    /\ UNCHANGED <<node, version, object, outbox, upload, used, reserved, expired, store,
                   req, sweep, drain>>

(* rotateNodeIn on a file: its change sequence must be the one the client  *)
(* read, which a pending file does not have.                               *)
RotateFile(f) ==
    /\ node[f].row = "live" /\ node[f].parentEpoch < dir.epoch
    /\ node' = [node EXCEPT ![f].epoch = dir.epoch, ![f].parentEpoch = dir.epoch]
    /\ UNCHANGED <<dir, version, object, outbox, upload, used, reserved, expired, store,
                   req, sweep, drain>>

-----------------------------------------------------------------------------
Next ==
    \/ \E u \in Uploads, f \in Files :
          BeginNewFile(u, f) \/ BeginVersion(u, f) \/ AttachSibling(u, f)
    \/ \E r \in Requests, u \in Uploads : StartCompleting(r, u) \/ AbortUpload(r, u)
    \/ \E r \in Requests :
          CompleteMultipart(r) \/ FinishRequest(r) \/ AbortRequest(r) \/ LoseRequest(r)
    \/ \E u \in Uploads : AttachSameNode(u) \/ ListExpired(u) \/ ListDeletion(u)
    \/ SweepStep \/ DrainStep \/ LoseWorker
    \/ \E f, g \in Files, c \in Copies : CopyFile(f, c, g)
    \/ \E v \in Versions : RestoreVersion(v) \/ DiscardVersion(v) \/ SweepSuperseded(v)
    \/ \E f \in Files : PurgeFile(f) \/ PurgeDescendant(f) \/ TrashFile(f)
                        \/ RestoreFile(f) \/ RotateFile(f)
    \/ ChangeDir

Spec == Init /\ [][Next]_vars

(***************************************************************************)
(* The worker's two jobs are scheduled forever: a run starts whenever rows *)
(* are due, and although the worker may die at any step of a run, it does  *)
(* not die at the same step of every run.  Nothing is assumed of clients   *)
(* or of requests in flight.                                               *)
(***************************************************************************)
Fairness ==
    /\ WF_vars(\E u \in Uploads : ListExpired(u))
    /\ SF_vars(HeadExpired)
    /\ SF_vars(FinishExpired)
    /\ SF_vars(AbortExpired)
    /\ WF_vars(AbortExpiredMultipart)
    /\ WF_vars(\E o \in Uploads : ListDeletion(o))
    /\ SF_vars(DeletePrimary)
    /\ SF_vars(MarkPrimaryDeleted)

FairSpec == Spec /\ Fairness

-----------------------------------------------------------------------------
(* Type invariant. *)

Node == [row : {"none", "pending", "live", "tombstone"}, current : Versions \cup {None},
         epoch : 0..MaxEpoch, parentEpoch : 0..MaxEpoch, trashed : BOOLEAN]
Version == [status : {"none", "pending", "ready", "purged"}, node : Files \cup {None},
            object : Uploads \cup {None}, superseded : BOOLEAN]
Upload == [status : Live \cup {"new", "completed", "aborted", "gone"},
           node : Files \cup {None}, newNode : BOOLEAN, expected : Versions \cup {None},
           epoch : 0..MaxEpoch, bytes : Nat]

RowsOK ==
    /\ dir \in [epoch : 0..MaxEpoch, trashed : BOOLEAN, purged : BOOLEAN]
    /\ node \in [Files -> Node]
    /\ version \in [Versions -> Version]
    /\ object \in [Uploads -> {"none", "pending", "ready"}]
    /\ outbox \in [Uploads -> {"none", "pending", "done"}]
    /\ upload \in [Uploads -> Upload]

Call(pcs) == [pc : pcs, upload : Uploads \cup {None}, seen : {"none", "full", "short"}]
CallsOK ==
    /\ expired \subseteq Uploads
    /\ multipart \in [Uploads -> {"none", "open", "closed"}]
    /\ stored \in [Uploads -> {"none", "full", "short"}]
    /\ req \in [Requests -> Call({"idle", "store", "finish", "abort"})]
    /\ sweep \in Call({"idle", "head", "finish", "abort", "abortMultipart"})
    /\ drain \in Call({"idle", "delete", "mark"})

(* Every row and every call in flight has its type, and the counters never *)
(* go below zero (workspace_storage's columns).                            *)
TypeOK == RowsOK /\ CallsOK /\ used \in Nat /\ reserved \in Nat

-----------------------------------------------------------------------------
(* Safety. *)

(* auditUsage's rule, for both counters: used_bytes is the sum of every    *)
(* ready version's object, a copy's included, and reserved_bytes that of   *)
(* the uploads still under way, whichever of complete, attach, abort,      *)
(* expiry and purge got there first.                                       *)
AccountingExact ==
    /\ used = Bytes({v \in Versions : version[v].status = "ready"})
    /\ reserved = SumOf(SizeOf, {u \in Uploads : upload[u].status \in Live})

(* No sequence of begins, copies and publishes spends more than the        *)
(* allowance: bytes are checked when they are reserved, and publishing     *)
(* moves them without checking again.                                      *)
WithinAllowance == used + reserved <= Allowance

(* A version a reader may be served has its whole object in the store,     *)
(* whatever the outbox job, the expiry job and other requests are doing;   *)
(* and its object row says so.                                             *)
ReadyIsStored ==
    \A v \in Versions : version[v].status = "ready" =>
        object[version[v].object] = "ready" /\ stored[version[v].object] = "full"

(* Every object in the store, and every multipart upload that could still  *)
(* become one, is named by an object row or an outbox row, never by both:  *)
(* the rule for who may delete what (drive-design, Limits and invariants). *)
KeysNamed ==
    \A o \in Uploads :
        /\ stored[o] # "none" \/ multipart[o] = "open"
              => object[o] # "none" \/ outbox[o] # "none"
        /\ object[o] = "none" \/ outbox[o] = "none"

(* A visible file has a current version, which is ready and its own; it    *)
(* keeps at most the one it displaced beside it, and no file shows another *)
(* one's version.                                                          *)
CurrentAndOneEarlier ==
    \A f \in Files : node[f].row = "live" =>
        /\ node[f].current \in ReadyOf(f)
        /\ \A v, w \in ReadyOf(f) \ {node[f].current} : v = w /\ version[v].superseded

(* No silent overwrite: when a publish displaces a file's current version, *)
(* the displaced version is the one the writer began from, and it stays    *)
(* ready as the file's earlier version.  Complete, a retried complete, the *)
(* expiry job and attach can all be the one that publishes.                *)
NoSilentOverwrite ==
    [][\A f \in Files, u \in Uploads :
          /\ node[f].row = "live" /\ node'[f].row = "live"
          /\ node'[f].current = u /\ version[u].status = "pending"
          => /\ node[f].current = upload[u].expected
             /\ version'[node[f].current].status = "ready"]_vars

(* An upload is completed or aborted, never both, and its row never comes  *)
(* back to life: a late finish, a second request or the expiry job's stale *)
(* listing must not touch a resolved upload.                               *)
ResolvedForGood ==
    [][\A u \in Uploads : upload[u].status \in {"completed", "aborted", "gone"} =>
          upload'[u] = upload[u]]_vars

(* An object leaves the store only for an outbox row, with no object row   *)
(* left that names it.                                                     *)
OnlyRetiredDeleted ==
    [][\A o \in Uploads : stored[o] # "none" /\ stored'[o] = "none" =>
          outbox[o] # "none" /\ object[o] = "none"]_vars

-----------------------------------------------------------------------------
(* Liveness. *)

(* Every upload is resolved in the end, with whatever crashes: its         *)
(* reservation never stays taken because a client went away.               *)
UploadsResolve ==
    \A u \in Uploads : upload[u].status \in Live ~> upload[u].status \notin Live

(* Every outbox row is eventually done. *)
OutboxDrains == \A o \in Uploads : outbox[o] = "pending" ~> outbox[o] = "done"
=============================================================================
