# HushOS drive: TLA+ models, checks and proofs

HushOS is an end-to-end encrypted drive. Clients encrypt names, keys and contents; the server
keeps ciphertext and enforces who may change what, in which order, and how many bytes it may take.
This directory models the server's protocols: what happens when requests, other requests, the
worker's jobs, crashes and the object store meet in an order nobody wrote a test for.

## 1. Inventory

The state is in PostgreSQL and in one or two S3-compatible stores. A write to a drive takes a
lock on its workspace row first (`nextChangeSeq`, `packages/db/src/drive.ts`), so transactions on
one workspace are serial. The store is outside that lock, jobs read their listings outside it, and
a process may die between any two calls: those are the interleavings that matter.

| Part | Source | State | Operations | What is hard | Modelled in |
| --- | --- | --- | --- | --- | --- |
| Uploads | `db/src/drive.ts` 1600-2690, `drive/src/server.ts` 1464-1790 | `drive_uploads`, `drive_objects`, `file_versions`, `workspace_storage` | begin, complete in three steps, attach, abort, expiry | crash between the steps, two completers, an object asked for before the transaction that acts on the answer | DriveUploads |
| Versions and copies | `db/src/drive.ts` 2794-3089 | `file_versions`, `drive_nodes.current_version_id` | copy, swap, discard, retention sweep | an object shared by versions of several files | DriveUploads |
| Trash and purge | `db/src/drive.ts` 1182-1516, 3098-3449 | `trashed_at`, `purged_at`, tombstones | trash, restore, purge, fan-out, retention | a purge under an upload, a fan-out that races a move | DriveTree, DriveUploads |
| Object lifecycle | `drive/src/jobs.ts`, `db/src/drive.ts` 3505-3758 | `drive_object_deletions`, replica and audit columns, the stores | outbox, replication, audit, orphan sweep, tiering | a store call and the row that records it are two steps | DriveObjects |
| Tree | `db/src/drive.ts` 878-1124 | parents, height bounds, change sequence | create, rename, move | depth ceiling, cycles, stale writers | DriveTree |
| Key rotation | `db/src/rotations.ts` | `drive_rotations`, key epochs | start, visit a node, finish | work listed before the transaction that finishes | DriveRotation |
| Change feed | `db/src/drive.ts` 4486-4700, `db/src/share-cursor.ts`, `drive/src/mirror.ts` | change sequences, dropped-tombstone mark, client mirror | list changes, drop tombstones, resync | statements of one listing see different states | DriveFeed |
| Shares and links | `db/src/drive.ts` 3771-4480 | `drive_shares`, `drive_links`, share events | grant, reseal, revoke, open | a grant that races a rotation or a trash | DriveRotation (as far as keys go) |
| Moves between workspaces | `db/src/drive.ts` 1708-1814, 2115-2252 | the upload's move record | a copy published in one transaction with the source's removal | two workspace locks, pooled storage | StoragePool |
| Groups | `db/src/groups.ts`, `groups/src/server.ts` | rosters, holds, key statements | invite, join, leave, dissolve | signed rosters racing departures | StoragePool, DriveRotation (membership and re-keys only) |
| Storage pool | `db/src/pool.ts`, `pool-count.ts` | pool figures | reserve against a shared pool | concurrent reservations of several members | StoragePool, PoolLedger |
| Accounts | `db/src/auth.ts`, `auth/src/server.ts` | credentials, sessions, devices | sign-in, recovery, rotation of keys | attempts and limits under retries | StoragePool (deletion only) |
| Billing | `db/src/billing.ts`, `billing/src/*` | subscriptions, group plans | webhooks, reconciliation, endings | events out of order, lost or repeated | StoragePool (the plan it writes only) |
| Reports | `db/src/reports.ts`, `drive/src/jobs.ts` 302-415 | reports, evidence copies | file, review, copy evidence | evidence against a purge | DriveObjects (the hold only) |
| Web client | `drive/src/client.ts`, `mirror.ts`, `transfers.ts`, `journal.ts`, `downloads.ts` | transfer queue, journal, mirror | upload, resume, download, offline queue | resume after a crash, conflicts | DriveFeed (the mirror only) |
| Jobs | `jobs/src/*` | pg-boss queues | scheduling | retries, overlap | the job actions of DriveUploads, DriveObjects and DriveTree |
| Mobile apps, web UI | `apps/*` | views | | presentation | - |
| Core cryptography | `crates/hushos-core`, `packages/crypto` | none | sealing, opening, signing | outside TLC's reach: the models keep epochs and identities only | - |

Properties that make the parts correct, each of which takes several actors to break:

- **Uploads and versions.** Used and reserved bytes are exactly what the rows account for; a version
  that is served has its whole object; no writer displaces a version it had not seen; an upload is
  resolved once, and always in the end.
- **Trash and purge.** A purge under an upload leaves no bytes reserved and no object unnamed; an
  expired listing never purges what was restored since.
- **Object lifecycle.** Nothing deletes an object a row names, or a published copy before its turn;
  `replicated` and `missing` are true when they are relied on; every outbox row is done in the end;
  a lost copy the replica holds comes back.
- **Tree.** No cycle, no folder deeper than the ceiling, and what is deleted or removed stays so.
- **Rotation.** Whatever is stored still opens, grants included; a removed member opens nothing once it is over.
- **Change feed.** A client that follows the feed converges to the tree, across dropped tombstones,
  several tabs and a cleared mirror.
- **Shares, links, groups.** Nothing granted before a departure or a revocation can be used after it.
- **Moves.** A file is in one of the two workspaces, never in neither.
- **Pool.** Members' reservations together stay within the pool.
- **Billing.** An older reading never overwrites a newer one; an order is refunded once.
- **Web client.** A resumed upload never mixes parts of two encryptions; every queued file ends.

## 2. Modules

| Module | What it is |
| --- | --- |
| `DriveUploads` | uploads, versions, copies, trash and purge of one workspace, and the two jobs that finish what requests leave |
| `Sums` | the `sum(...)` of the database code over a finite set of rows |
| `Sums_proofs` | induction over finite sets, and what a sum becomes when rows come, go or change |
| `DriveUploads_proofs` | its inductive invariant and theorems |
| `DriveObjects` | an object's life in both stores: replication, outbox, audits, orphan sweep, holds |
| `DriveObjects_proofs` | its inductive invariant and theorems |
| `DriveWalks` | the tree walks of the database code (ancestors, subtree, depth), shared by the next three |
| `DriveWalks_proofs` | what a walk is, how it changes when a row is added, moved or dropped, and depths |
| `DriveTree` | the tree itself: create, copy, upload, move, trash, restore, delete for ever, and the three purge jobs with their listings |
| `DriveTree_proofs` | its inductive invariant and theorems |
| `DriveRotation` | subtree key rotation by several devices, and a group area's re-key by its rosters, under every other write of the tree |
| `DriveRotation_proofs` | its inductive invariant and theorems |
| `DriveFeed` | the change feed in its three statements, the mirror several tabs share, and each tab's catalogue |
| `DriveFeed_proofs` | its inductive invariant and theorem |
| `PoolCount` | what a family's pool counts: parts, whole GiB, what is free for whom |
| `PoolLedger` | abstract: what the pool promises, each change at one instant |
| `StoragePool` | the transactions that spend the pool, lock by lock, and moves between workspaces; implements `PoolLedger` |
| `StoragePool_proofs` | what the pool's figures become when a row or a member changes; its inductive invariant and theorems, the refinement among them |
| `MC...` | the instances TLC checks |

The specifications cut the system where its state is cut. `DriveUploads` says exactly when an
object's last reference goes and has one store; `DriveObjects` lets an object be published, aborted
and retired at any moment and follows its copies afterwards. `DriveTree` keeps parents, trash marks
and height bounds, `DriveRotation` the keys along those parents, `DriveFeed` the change sequences
and what clients make of them; each has the others' writes as far as they change what it keeps.
`StoragePool` composes uploads, copies and moves with membership, account deletion and the plan.
Mutants (definitions headed "Mutant:") are plausible bugs of one definition, kept beside it; no
specification uses them.

### DriveUploads

One action is one transaction or one call to the store. Transactions of one workspace are serial
because each starts by updating the workspace row. State and its tables:

| Variable | Code |
| --- | --- |
| `dir`, `node` | `drive_nodes`: one folder and its files. A row is `none`, `pending` (a new file before its first publish), `live` or `tombstone` |
| `version` | `file_versions`: status, node, object, `superseded_at` |
| `object`, `outbox` | `drive_objects` status and `drive_object_deletions` |
| `upload` | `drive_uploads`: status, target, `expected_version_id`, epoch, reserved bytes |
| `used`, `reserved` | `workspace_storage` |
| `expired` | uploads past `expires_at` (time is a choice of the sweep's listing) |
| `multipart`, `stored` | the store (external) |
| `req`, `sweep`, `drain` | where a request, `expireUploads` and `deleteObjects` stand between two calls |

`BeginNewFile`/`BeginVersion` are `beginUpload`; `StartCompleting`, `CompleteMultipart` and
`FinishRequest` are the three steps of `completeUpload`, and `LoseRequest` a server that dies between
them; `FinishExpired` runs the same `FinishCompleting` from the expiry job, on what `HeadExpired` saw.
`AttachSameNode` and `AttachSibling` resolve a conflicted upload. `CopyFile`, `RestoreVersion` (the swap),
`DiscardVersion` and `SweepSuperseded` change versions; `TrashFile` to `PurgeDescendant` and the
`...Dir` actions change the tree; `RotateDir` and `RotateFile` move key epochs under an upload, which
then conflicts. An upload, its object and its version share one id, as a begin creates all three.

### DriveObjects

A job's listing, each store call and each update are separate actions, since no lock spans them.
`copy`, `del`, `audit` and `orphan` say where the one run of each job stands; `StopRun` ends a run
anywhere. `replicated` and `published` are the columns of the outbox row; `stage` folds
`primary_deleted_at`, `replica_delete_after` and `done_at`. `markObjectReplicated` is the two actions
`MarkObjectRow` and `MarkOutboxRow`; `knownObjectKeys` the two reads `ReadKnownFirst` and
`ReadKnownSecond`. The copy job's listing is a set of live objects and a set of outbox rows, each worked
oldest first (`NextRow`): an object's age is its number, an outbox row's the place it was retired at. `Damage` is the store losing a copy or leaving one of the wrong size (external).
Reports read the tree and file their items in two steps, because `createReport` takes no workspace
lock.

### DriveTree

`node` is `drive_nodes` (parent, state, trash mark, operator's removal, height bound); `begun` the
new files whose upload is open; `listed` what each of the purge job's three listings still holds.
Every request is one action under the workspace's lock, a selection of several nodes included, and
`Batch` bounds the selection. The jobs are not: `List` reads outside every lock, `PurgeListed` asks
again under the lock what the code asks again, and no more (`purgeDescendants` asks only that the row
is there). Time is `aged`, which `TimePasses` sets. The walks of `DriveWalks` are what the
recursive queries return.

### DriveRotation

The server stores epochs and compares them; what an envelope really holds is something it never
sees. The model keeps both: `epoch`/`under` are the columns, `key`/`wrap` say which key is in the
envelope and which one seals it (whose, of which epoch, made by which device, since two devices on
one rotation make different keys for one node at one epoch). `prev` is the previous envelope, `rev`
the node's change sequence, `grant` its share or link. A device's `ListWork` keeps what it read and
sealed; `Send` puts one item to `rotateNodeIn`, which takes or refuses it; `FinishRotation` lists in
one transaction and closes in the next. `RosterRotation` is a group's roster that removes a member
and re-keys the area's root; `known` are the keys that member can open. `cut` and `early` are history:
nodes that lost an earlier key, and a rotation closed with work left, each by a path that section 5 names.

### DriveFeed

`listChanges` is `ReadMark`, `ReadIds`, `ReadNodes`, and a write may fall between them. A tab's
`pull` is `pullFeed`'s local variables between two awaits; `Apply`, `Sweep` and `StartOver` are its
transactions on the mirror (`mirror.ts`); `Build`, `FileArrived` and `Refile` bring the tab's
catalogue up to date. `Fail` and `Close` end a pull anywhere. A row is a parent and a change sequence.

A tab pulls because a Drive page opens it (`Open`, `buildCatalogue`) or because `ingest` is called, and
nothing else calls `ingest` than the app's poll, when it heard of a change (`Hear`), and a change made on
the device (`CatchUp`). `app` keeps what belongs to that: `since`, the poll's own cursor, which starts at
nothing for the own drive and at the server's newest change for an area (`Own`); `ready`, whether the catalogue's
rows, filed as `filed` in `tab`, are opened (`Opened`); and `queued`, ingests that wait for the one that runs. `HandOn`
is the call: a catalogue that is not ready lets the news go by, and the poll's cursor is past it all the
same. `unmet` is a history: where the poll stood when something it had handed on was last not acted on (a
catalogue not ready, an ingest that failed, a refile that gave up, a build filed from a mirror another tab had cleared);
0 once the rows filed hold it.

`lost` and `calm` are histories too. `lost` names the nodes a copy dropped though they could be reached: swept
below a deleted folder whose child had moved out unheard (`Strays`), or left out of a catalogue because
a folder above was missing (`Orphans`). `calm` says that there is one tab, that no write fell between
the statements of a listing and that no pull was cut off between two pages.

### StoragePool, PoolCount, PoolLedger

A transaction (`tx`) takes the locks the code takes, in the code's order, one step at a time: the
group's row, workspace rows (several in one order, `InOrder`), the pool's advisory lock, a person's row, storage
rows. It reads what it
reads under them and commits in a step of its own; only then do others see it (read committed).
`BeginUpload`..`CommitBegin` are `beginUpload`, `copyFile` and a move's begin, `FinishCompleting`..`CommitPublish`
/`CommitRelease` the completion by its writer or by the expiry job; `AdmitMember`, `LeaveFamily`,
`DeleteAccount` and `ApplyPlan` are the writers of `groups.ts`, `auth.ts` and `billing.ts`. A
transaction the pool moved under starts over (`settlingPool`). `PoolCount` adds up with `Sums`, so
what is proved of a sum holds of a pool. `missed` names the members whose account was deleted by a
transaction that had read them in no family (section 5, item 20).

`PoolLedger` has no locks, transactions, files or uploads: a reservation, a landing, a move, an
admission or a plan is one step, judged by the ledger as it stands in that step. `KeepsLedger` says
that `StoragePool` implements it under the identity mapping on the four variables of `PoolCount`
(`AtOnce == INSTANCE PoolLedger`): lock acquisitions and reads stutter, each commit is one ledger
step. What it rules out is a commit that was right by what the transaction read and wrong by the
time it landed. The ledger has no clock: it lets a plan's quota be used after its period has run out,
because a reservation may have read the clock before. That only such a one does is the last part of
`SpendsWithin`: `tx[t].live` records whether a transaction read its figures while a plan ran, and once it
has ended a step of any other raises neither what the folders take nor a member past their own
allowance. `MayAct` leaves holds out: `placeHold` locks the group's row and no workspace, so a hold placed
between a transaction's check (`MayStillRemove`, which refuses a held member) and its commit is not waited
for, and the write lands. No property would notice if that check were dropped.

## 3. Runs

| Run | Shows |
| --- | --- |
| `uploads_requests` | two uploads to one file, two concurrent requests, both jobs, trash, purge and a rotation: whole objects, named keys, resolved for good |
| `uploads_versions` | from a file with two versions: a third upload, a copy sharing an object, swaps, discards, purges: exact accounting, the allowance, one current and one earlier version, no silent overwrite, and a shared object stays while any version that is served names it |
| `uploads_live` | every upload is resolved and every outbox row done, whatever dies |
| `objects_jobs` | an object and a stray key under all jobs, a loss, failing heads and a report: what the rows say is so, copies go only in their turn, and a lost copy the replica holds comes back |
| `objects_outbox` | copying and deleting complete with runs that stop anywhere |
| `rotation_devices` | two devices on one owner's rotations, each with a listing of its own, while nodes are moved and shared: every stored envelope and grant opens, no batch closes a grant its device did not see, no node is re-keyed twice in a rotation |
| `rotation_area` | a group's area re-keyed by rosters under every edit but shares, its device stopping and starting: envelopes open, a removed member is locked out once it is over, and it is over in the end |
| `feed_tabs` | two tabs of an area, one mirror left by an earlier visit, dropped tombstones, news while a catalogue opens or another ingest runs: each copy is what its cursor says, and every tab catches up with what it was handed |
| `feed_moves` | one tab of the own drive that fails, closes and reloads while nodes are created, moved and deleted, between the statements of a listing too: the same of the copies, and nothing that can be reached is dropped until a pull is cut off between two pages |
| `tree_edits` | three folders and a file under every request: the height bounds and the depth ceiling, an operator's removal holds, undo brings back exactly what was trashed |
| `tree_jobs` | a folder and a file uploaded into it under the three jobs: still a tree, nothing deleted shows again, nothing that shows is deleted, all of it goes in the end |
| `pool_races` | a family of two and its folder, two transactions open at once: exact counters, no overspending, one ledger step per commit, no move in a circle of waits, a move deletes only what its mover read, nothing lands after its author left |

In `DriveRotation`, `DriveFeed`, `DriveTree` and `StoragePool` the module's `TypeOK` is the first part
of a conjunction: `AreaKeysOpen`, `CopiesFaithful`, `WellFormed` (itself part of `DepthBounded`) and
`Accounted`. `MCDriveTree` also has TLC compare the walk the modules use with its definition as a
least set, for every way four rows may name their parents.

### Bounds

Every counter is bounded by a finite set or a named constant.

- *Uploads.* Two uploads and two requests are enough for every pair of callers to meet on one upload
  and for two uploads to race on one file; three uploads, from a start state of two versions, give a
  publish that displaces a version which displaced another; one copy gives an object two references.
  Sizes 1, 2 and 4 make every sum of objects different, so a wrong sum cannot cancel. The allowance of
  `uploads_versions` is one more than the three uploads together: a copy fits beside them only when its
  object is the smallest, so refusals happen. `MaxEpoch` caps the rotations.
- *Objects.* Objects meet only in the copy job's order, so one object and one stray key exercise every
  other job.
- *Rotation.* A root, a folder and one more node give parents-first order its two levels. `MaxEpoch` 5
  lets one rotation follow another; past revision `MaxRev` people leave a node alone, which keeps them
  from editing for ever and leaves one edit (`rotation_devices`) or two (`rotation_area`) per node
  for every place in the walk.
- *Feed.* `Page` 1 puts every change on a page of its own, so everything happens between pages;
  `MaxSeq` leaves two writes past the first rows in `feed_tabs` and three in `feed_moves`, enough to move
  out, purge and create or fan out. The app's page (`Polled`) holds all that is new; one ingest may wait for another (`MaxQueued`),
  so news also comes while one runs and one waits. Writes fall between the statements of a listing
  (`"amid"`) in `feed_moves` only, to keep the liveness of `feed_tabs` in reach; the theorem has them for any
  number of tabs. A tombstone ages only while no pull is in flight, and not under a filed tab
  whose catalogue stands at nothing: the events `"midpull"` and `"asleep"` are in no run (section 5, items
  13 and 18).
- *Tree.* `MaxDepth` 2 with three folders reaches the ceiling from both ends of a move; selections of two
  are the smallest that nest. `tree_jobs` is smaller because liveness is checked over all of it.
- *Pool.* A GiB is 2 bytes, a plan 6, an own allowance 4, and files are 2 or 3: rounding up matters,
  the pool fills, and a move's copy can be larger or smaller than its source. Two attempts stand for
  the code's three. One departure, hold, deletion or plan change per behaviour (`MaxChanges`) and two
  open transactions: every pair of transactions overlaps at every lock, with that change between.

`CHECK_DEADLOCK FALSE` is said everywhere because the system may stop: all ids are used and all
work is done. Deadlock between transactions is a property of its own, `MovesNeverDeadlock`.
Symmetry is used only in runs without liveness.

### Fairness

- *Jobs.* The worker schedules each job forever (`jobs/src/worker.ts`), and a listing takes the oldest
  rows first, so a due row is listed. A run may die at any step but not at the same step of every
  run: in `DriveUploads` and `DriveObjects` each of its steps has strong fairness; in `DriveTree` a
  listing is worked through and taken again. The undo window and the retention windows end.
- *A device that walks a rotation.* The app takes a rotation up whenever Drive opens
  (`lib/rotation.ts`): weak fairness of resuming, strong fairness of listing, sending and finishing,
  because stopping and resuming disables them in between.
- *Tabs.* Weak fairness of one action, that some tab goes on (`Proceed`): a Drive page that is open asks
  for its catalogue, a pull takes its next statement, an ingest that waits is taken in turn, and the poll's
  timer comes round (`lib/feed.ts`), which does something only while there is news past the poll's cursor. Nothing is handed on twice and
  nothing is retried: a failed ingest, a refile that gave up and news let go by stay so until the next
  change. `TabsCatchUp` therefore says that a tab comes to hold the tree or stands before something it did not act on
  (section 5, item 19). And the purge job fans out.

Nothing is assumed of people, requests in flight, reports, membership, billing or damage.
`LostIsRecovered` needs only that the replica's head does not fail every time it is asked.

## 4. Proofs

What is proved holds for every value of the constants that satisfies their assumptions: any finite
number of rows, uploads, requests, devices and areas, any sizes and bounds. The assumptions say that a
table is finite, that ids are distinct from each other and from `null`, and that what a workspace starts
from is a tree. No property is inductive alone; each module's `IInv` is the strengthening, in named parts,
and was checked by TLC on the module's runs before it was proved.

### Induction

The prover cannot instantiate the library's induction rules, which take an operator. `Sums_proofs` states
them for sets instead: a set of numbers that is not empty has a least one (`LeastNat`), a set that holds 0
and with n also n + 1 holds every number (`NatSetInduction`), and a family of sets that holds {} and with
a set also the set with one more element holds every finite set (`FiniteInduction`). The sums, the walks
and the depths below rest on these three.

### DriveUploads_proofs

`ReadyAlwaysStored`, `KeysAlwaysNamed`, `CurrentAlwaysReady`, `DeletedOnlyRetired`, `NeverOverwrites`,
`ResolvedStays`, `CountersAlwaysExact`, `NeverOverspends`, `TypesHold`.
`DeletedOnlyRetired` (an object leaves the store only for an outbox row, with no object row left) is proved
and in no run: `ReadyIsStored`, which is in two, is what it serves.
`ReadyIsStored` needs that what a caller saw whole is
still there or has been retired (`SeenStored`), that a live upload has its pending version and object
(`LiveRows`), and that an id nobody began with names nothing (`NewIsClean`), since a late
`completeMultipart` may land at any time. `CurrentAndOneEarlier` needs that a node a live upload made
has no other version (`NewNodeAlone`). `IInv` is their conjunction; one lemma per transaction part
(`ReleaseKeeps`, `PublishKeeps`, `BeginKeeps`, ...) shows that the part keeps it, and `StepIInv`
assembles them, one step per action. The counters are a second invariant on top: used and reserved
bytes are sums over the ready versions and the live uploads, each action changes the rows and the
counters by the same amount (`Sums_proofs` says what a sum becomes), and a publish turns reserved
bytes into used ones, so what was checked at the reservation is enough.

### DriveObjects_proofs

With and without a replica: `ReplicatedAlwaysHeld`,
`MissingAlwaysReal`, `AlwaysDeletedInTurn`, assuming `"short" \notin Faults`: the primary may lose
copies but keeps none of the wrong size. (`copyFrom` copies what it finds without asking the
expected size, so a short primary copy would be replicated as it is and the row marked; the replica
audit is what notices.) The invariant records what each job knows between two of its steps: the delete job's row
is at the stage it was listed at (`DeleteTurn`), the sweep's key had no object row when the outbox is
read (`SweepSeen`, where the order of the two reads is what matters), a copy that was made is in the
replica until the undo window ends (`CopyHeld`), and an audit that did not find a copy is right or
its object was retired (`AuditSeen`). 
`TypesAlwaysHold` needs no such assumption: it needs only that the next row of a listing is one that was
listed (`FirstIn`), and that an audit with a copy to look at has an object (`AuditAt`).

### DriveWalks_proofs

`Chain` is the least set that holds a node and with a row its parent: good to reason about, costly to
evaluate. `Climb` follows parents a step at a time, as often as there are rows, and is what the modules
use. `ClimbIsChain` says they are the same in every finite table, cycles included. `Hangs` (every row
is there, has its parent there, and is in no cycle) is shown to survive a new row, a move that
is not into the moved row's own subtree, and the removal of childless rows; the depth lemmas say how far
each of these changes a row's depth.

### DriveTree_proofs

`AlwaysATree`, `NeverTooDeep`, `RemovedStaysHidden`, `PurgedStaysPurged`, `OnlyHiddenPurged`,
`UndoIsExact`. The invariant's core is that a height bound is never less than the distance to any
counted row below (`HeightsOK`), that bounds reach the ceiling and no further (`CeilingOK`), and that what
the fan-out has listed lies under a deleted folder or is gone (`FanPurged`), which is why
`purgeDescendants` may ask so little. Each operation is shown to leave an `Outcome`: the tree is good, no
tombstone above a row disappeared, no id came back, and only the rows it names were deleted; the theorems
follow from `Outcome` and not from the operations.

### DriveRotation_proofs

`EnvelopesAlwaysOpen`, `AreaEnvelopesOpen`, `RemovedLockedOut`, `OnlySeenGrantsClosed`, `KeyedOnce`, for a person's
workspace and a group's area, any number of devices on one rotation, and rosters that replace it. The
argument is about epochs and who drew them (`EpochsOK`): no row is sealed for an epoch its folder has yet to
reach, and what a re-key puts aside is older than the target. A batch whose revision still fits is
sealed under what its parent's key is or will be (`Fits`), because a parent at the epoch the batch
names has the key the device saw; so an accepted item leaves its node's envelope open from the
parent's key or the one beside it (`EnvelopeOK`). What a removed member can open was stored before
the roster's re-key, and while the area is walked it is only what the walk has not reached
(`LockInv`).

`KeyedOnce` assumes that nothing is restored to the top (`"restore" \notin Edits`): with restores it is
false (section 5, item 10). Its invariant says where a node that carries a previous envelope can be (`AsideOnce`): at
the target of the open rotation, which is inside its root (`RekeyedInside`), or below what is gone, where no
walk comes (`OutOfReach`). `finishRotation` clears the first, and no edit but a restore brings back the second
(`EditsKeepAside`); TLC checked it on an area and on a chain of four nodes before it was proved.

### DriveFeed_proofs

`FeedKeepsCopies`, for every tree, any number of tabs and any page size, assuming that no tombstone is
dropped in the middle of a pull and that no filed tab whose catalogue stands at nothing sleeps for ninety
days (`Attended`; items 13 and 18 show both are needed). The invariant is about what a pull holds between
its statements. A listing leaves out nothing before its last id (`ListOK`), a page holds every node whose
last change lies between its cursors (`PageOK`), and every row anywhere is the server's, then or now
(`Past`). What a pull has brought is all of what changed between the catalogue's cursor and its own,
though other tabs move the mirror on meanwhile (`Brought`, `Newer`), and while a copy holds what no tombstone
names any more, whoever pulls is about to start over (`Told`). That nothing reachable is lost while it is calm
needs more: one tab's pull and the mirror stand at one cursor, and the rows its last page leaves are
a tree (`CalmPull`, `CalmTree`), so a folder is swept only with what was deleted with it.

### StoragePool_proofs

`CountersStayExact`, `MoveTakesWhatWasReadHolds`, `NothingAfterLeavingHolds`, `KeepsLedgerHolds`,
`SpendsWithinHolds`, `MovesDoNotDeadlock`, for any family, folders, files and number of transactions
open at once. `IInv` says of every transaction, by the locks it has and still wants, what it has
established so far (`BeginOK`, `FinishOK`, `FamilyOK`): a begin about to reserve affords what it
reserves, a completion about to publish a move has the source as it was read when the move began, an
admission about to land fits. It stays established because no lock has two holders and a step
leaves alone what another's locks cover (`Respects`, `Settles`); each step keeps its own
transaction's row and, by these two, everyone else's. A begin whose author joins a family before it
has its storage row starts over; once it has the row, the admission, which takes it too, has to wait
(`Figures`).

*Refinement.* `KeepsLedgerHolds` is one lemma per commit: the reservation, the landing, the release,
the move, the admission, the plan, each the ledger's own action by what `IInv` says of the
transaction that commits; every other step leaves the ledger's four variables alone. `SpendsWithin`
is then proved of the ledger while a plan runs, where one step is one change and nothing is read early, and holds of
`StoragePool` because it is a property of the same variables. Its last part, about a plan that has ended, is
proved of `StoragePool` itself: what a transaction that read its figures since has established is
that it takes nothing in a folder and no more than the person's own allowance (`Bare`, a part of
`BeginOK`), and that a lean move of its own is between two folders.

*Deadlock.* A move's completion in a circle holds a folder's row, since a move has a folder at one end
and folders come first in the order; so whoever takes all the folders' rows is not past them. Nobody
in the circle waits for a storage row, as whoever holds or wants one has its workspace's row, nor for
the pool, as whoever holds that can only want a storage row. All wait for workspace rows, which
everyone takes in one order, and whoever holds the last of those waited for would have to want a
later one (`Awaits`, `NoCircle`).

### What stays with TLC

- Liveness (`UploadsResolve`, `OutboxDrains`, `LostIsRecovered`, `OutboxCompletes`, `LiveReplicates`,
  `RotationFinishes`, `TabsCatchUp`, `DeletedGoes`): the prover has no rule for fairness or ENABLED.
- `KeyedOncePerRotation` and `CopiesFaithful` outside the hypotheses of their theorems are not claimed: there
  the code does otherwise (section 5, items 10, 13 and 18). With two tabs, or after a pull that was cut off,
  which reachable nodes a copy may lack is what `lost` records; no bound on them is stated.

## 5. Findings

Where the code does something else than one of its own comments or documents says, met while
modelling. Each was seen as a counterexample of TLC or read in the code; the properties above are
stated so that they hold, and this section says what they leave out for it.

*Uploads and objects.*

1. `drive/src/jobs.ts:34`: `expireUploads` takes a failed head for an absent object, so a completing
   upload whose object is whole is aborted; line 24 says such an object is published. (No property
   says that a stored object is published.)
2. `jobs.ts:180`: the audit asks the replica only when the primary has nothing; line 146 says "when the
   primary is wrong". A primary copy of the wrong size stays reported missing. (`Faults` has no `"short"`.)
3. `jobs.ts:94`: `replicateObjects` does not catch a copy that throws and lists in a fixed order, so a
   row that can never be copied holds up those behind it; line 9 says the next run picks them up.
   (`LiveReplicates` is checked with one object and nothing lost.)
4. `db/src/drive.ts:3698`: `knownObjectKeys` counts outbox rows that are done; its comment says "still in
   the outbox". A key that lands after its row is done is never swept.
5. `drive.ts:1665`: an object retired while `missing` is taken for never published and its replica copy is
   left; `docs/drive-design.md:955` gives a published object's replica copy thirty days.
6. `jobs.ts:73`: a report filed between the outbox's listing and its deletion does not hold the object;
   `drive.ts:3513` says it stays.

*Tree.*

7. `drive.ts:2421`: `beginUpload` raises no height bound, the folder may move to the ceiling before the
   publish, and the file then sits one level past it; `drive-design.md:361` says no node sits deeper
   than 64. (`FoldersWithinDepth` is about folders.)
8. `drive.ts:3345`: `purgeExpiredTrash` deletes a node that was restored and trashed again since the
   listing, on the day it was trashed; `drive-design.md:971` says thirty days. (`NothingShownPurged` is
   about what shows.)
9. `drive.ts:1395`: a file inside a removed folder that was trashed on its own before can be restored to
   the top; `drive/src/server.ts:2607` says a removal takes the content down with it.
   (`RemovedHidden` is about the removed node.)

*Rotation.*

10. `drive.ts:1420`: `restoreNode` to the top does not ask whether the node carries a previous envelope; a
    half-rotated folder leaves the subtree, and its unvisited children stay under a key no envelope
    leads to. `drive-design.md:962` says nothing leaves the subtree. (`cut` names such nodes.) And a re-keyed folder
    restored to the top takes its re-keyed children along, with the envelopes put aside for them:
    `finishRotation` clears those of the subtree only, and a later rotation then re-keys a node that
    already carries one, which `rotations.ts:793` says is never expected. (A chain of four nodes
    shows it; `KeyedOncePerRotation` is checked and proved without
    restores.)
11. `db/src/rotations.ts:974`: `finishRotation` lists in one transaction and closes in the next; what is
    moved in between is never visited. `drive-design.md:962` says a rotation is finished only when every
    node is at the target. (`early` records it.)
12. `drive/src/client.ts:1879`: the client seals every node under its parent at the rotation's target, so one
    moved into a folder made since, whose epoch is above the target, is refused on every pass and the
    rotation never finishes. (`Stranded`.)

*Feed.*

13. `client.ts:685`: `resync` is acted on only on a pull's first page; a tombstone dropped between two
    pages leaves its node in the mirror. `drive-design.md:163` says the device starts over. (The event
    `"midpull"` is in no run.)
14. `drive.ts:4507`: a folder listed as it was is served as the tombstone it has become, while a move out of
    it is not on the page; the sweep then drops the moved folder's contents, and only the folder comes
    back. (`lost` names what it drops; `calm` ends at a listing read across a write.)
15. `drive.ts:4493`: in a workspace whose newest change is a deletion whose tombstone was dropped, no
    cursor comes past the mark. Every opening of Drive is told `resync` and pulls the whole tree;
    `drive-design.md:838` says it is never walked after the first sync. And a poll is told it on an empty
    page, which `changesSince` (`client.ts:1960`) passes by: an open tab that has not heard of
    the deletion keeps the node until something else changes, where `drive-design.md:163` says the device starts over.
    (`TabsCatchUp` assumes a newer change.)
16. `client.ts:722`: a pull that is cut off between two pages sweeps below what its pages so far deleted,
    before the page that tells of a folder moved out. The moved folder's contents leave the mirror, and
    only the folder comes back; `mirror.ts:39` says nothing can reach them meanwhile. One tab is
    enough. (`lost` names them; `calm` ends at such a failure.)
17. `client.ts:819`: a tab that takes its catalogue from a mirror another tab has cleared and is filling again
    leaves out rows whose folder is not there yet, at a cursor past their change, so none of its later
    pulls brings them; `client.ts:818` says what is missing from a part is not gone. (`Orphans`.)
18. `client.ts:663`: a tab filed with a catalogue at cursor 0, built while the workspace was empty, that sleeps
    for ninety days pulls from 0. `drive.ts:4494` asks for a resync only since more than 0, so the mirror,
    which other tabs had filled, keeps the rows whose tombstones were dropped and moves on past them;
    `drive-design.md:163` says a device from below starts over. (The event `"asleep"` is in no run.)

19. `client.ts:803`: `ingest` does nothing while the catalogue is not ready, its errors are swallowed
    (`client.ts:1960`), and a refile that meets a cleared mirror three times gives up; the app's poll has moved
    its cursor past the change by then (`lib/feed.ts`). A change that comes between a build's last page
    and the opening of its rows, or whose pull failed, is missing from that tab's catalogue until the next change, which
    `client.ts:810` says may be long; so is what a build leaves out that files a mirror another tab has
    just cleared. `client.ts:750` says that once it is built the feed keeps it current. (`unmet` records it.)

*Pool.*

20. `db/src/groups.ts:2262`: `departAllForDeletion` lists the memberships, active and accepted, before it
    takes any lock. Someone who accepts an invitation and is admitted after that reading is deleted without departing, so the
    folder's rows are not waited for and what they had under way in a folder may land afterwards;
    `db/src/auth.ts:1096` says every group is departed first. (`missed` names such members, and `MayAct`
    lets only their writes through.)

Read in the code and outside the pool's model: in a group made before there was billing (no
`group_storage` row) `admissionFits` returns before it locks the newcomer's storage row, so a begin in
flight may overlap the admission and the first plan's write.

## 6. Not modelled

- Cryptography: sealing and signatures. Epochs, identities and who made a key stand for them; the
  re-signing of rotated records and versions' content keys are left out.
- Presigned URLs and part uploads: they change no row, and the store's multipart upload stands for
  them; rate limits and request validation, which refuse before any state is read.
- Two live runs of one job: the queue is a singleton, but a run past its thirty minutes is started
  again (`jobs/src/client.ts:206`). Limits on rows per run.
- Storage-class tiering and the usage audit; evidence copies and the review desk.
- A share's own feed, search and tags; a link's password and expiry; who sees what through a share.
- Pool: families from before billing, billing turned off, editors who are not members, seats, roles
  and signatures of rosters, company policy, attach of a conflicted move, and the locks PostgreSQL takes
  by itself for foreign keys. Circles of waits without a move (an account's deletion against an
  admission) are outside `MovesNeverDeadlock`; the code answers them as unavailable.
- Billing's mirror of its provider (`db/src/billing.ts:216`, readings that overlap), refunds, endings;
  sign-in, recovery, sessions and devices; invitations, statements, succession and dissolution of
  groups; workspace documents; pinned keys.
- Web client transfers, their journal and downloads; the mobile apps; views, routes, mails,
  logging, configuration.

## 7. Plan

1. An abstract store of named objects that both `DriveUploads` and `DriveObjects` implement, and two
   overlapping runs of a job.
2. The billing mirror: readings, orders and endings, with the plan `StoragePool` takes as given.
3. Web client transfers and their journal; a share's feed.
4. Groups: statements, invitations and departures, with the rosters `DriveRotation` takes as given.
