---------------------------- MODULE DriveObjects ----------------------------
(***************************************************************************)
(* The life of an object once the database names it: replication to the    *)
(* second store, the deletion outbox with its undo window, the audits of   *)
(* both stores, the orphan sweep of the primary bucket, and the hold an    *)
(* abuse report puts on what it names.  How versions come and go, and so   *)
(* when an object's last reference goes, is DriveUploads' subject: here an *)
(* object is begun, published or aborted, and retired, at any time.        *)
(*                                                                         *)
(* Each job is a loop of one read of the database followed by calls that   *)
(* take no lock, so each read, each store call and each update is a step   *)
(* of its own.  One run of each job is active at a time (the queues' policy*)
(* is singleton), and a run may stop at any step: the worker dies, or a    *)
(* call throws.  A job handles its rows one by one; of those, only the     *)
(* copy job's order is kept, since only it can be stopped by a row again   *)
(* and again.  The limits on rows per run are not modelled.                *)
(***************************************************************************)
EXTENDS Integers, FiniteSets

CONSTANTS
    Objects,    \* object ids, in the order their rows are created
    Strays,     \* keys already in the bucket that no row names
    Reported,   \* objects a report may name
    Losable,    \* objects a store may lose or damage on its own
    Faults,     \* the damage considered: "lost" or "short" copies in the primary
    HasReplica  \* is a replica configured?

ASSUME ObjectsAssumption ==
    Objects \subseteq Nat /\ IsFiniteSet(Objects) /\ Strays \subseteq Objects
ASSUME ReportedAssumption == Reported \subseteq Objects /\ Losable \subseteq Objects
ASSUME FaultsAssumption == Faults \subseteq {"lost", "short"} /\ HasReplica \in BOOLEAN

VARIABLES
    row,        \* drive_objects: status, or "none", and replicated_at set or not
    outbox,     \* drive_object_deletions: stage, published, replicated
    retired,    \* when each outbox row was created: its place among them
    multipart,  \* multipart uploads that can still be completed
    primary,    \* the primary store's copy of each key: none, full or short
    replica,    \* the replica's
    lost,       \* objects whose primary copy the store damaged
    report,     \* the report naming each object: none, reading, open or closed
    copy,       \* replicateObjects: the row it is at, and those it listed and has yet to take
    del,        \* deleteObjects: the row it is at
    audit,      \* auditObjects, one run for each store
    orphan      \* sweepOrphans: the key it is at

rows == <<row, outbox, retired>>
stores == <<primary, replica, lost>>
jobs == <<copy, del, audit, orphan>>
vars == <<rows, multipart, stores, report, jobs>>

Copy == {"none", "full", "short"}
Targets == {"primary", "replica"}

NoRow == [status |-> "none", replicated |-> FALSE]
NoDeletion == [stage |-> "none", published |-> FALSE, replicated |-> FALSE]
CopyIdle == [pc |-> "idle", object |-> 0, live |-> {}, dead |-> {}]
DelIdle == [pc |-> "idle", object |-> 0, keep |-> FALSE]
AuditIdle == [pc |-> "idle", object |-> 0, primary |-> "none", replica |-> "none"]
OrphanIdle == [pc |-> "idle", object |-> 0]

Init ==
    /\ row = [o \in Objects |-> NoRow]
    /\ outbox = [o \in Objects |-> NoDeletion]
    /\ retired = [o \in Objects |-> 0]
    /\ multipart = {}
    /\ primary = [o \in Objects |-> IF o \in Strays THEN "full" ELSE "none"]
    /\ replica = [o \in Objects |-> "none"]
    /\ lost = {}
    /\ report = [o \in Objects |-> "none"]
    /\ copy = CopyIdle
    /\ del = DelIdle
    /\ audit = [t \in Targets |-> AuditIdle]
    /\ orphan = OrphanIdle

-----------------------------------------------------------------------------
(* Uploads, as far as the object sees them. *)

Begun(o) == row[o].status # "none" \/ outbox[o].stage # "none"
Held(o) == report[o] = "open"

(* The object row, in createdAt order. *)
Begin(o) ==
    /\ ~Begun(o) /\ o \notin Strays
    /\ \A p \in Objects \ Strays : p < o => Begun(p)
    /\ row' = [row EXCEPT ![o].status = "pending"]
    /\ multipart' = multipart \cup {o}
    /\ UNCHANGED <<outbox, retired, stores, report, jobs>>

(* A request's completeMultipart lands, whatever the rows say by now. *)
CompleteMultipart(o) ==
    /\ o \in multipart
    /\ multipart' = multipart \ {o}
    /\ primary' = [primary EXCEPT ![o] = "full"]
    /\ UNCHANGED <<rows, replica, lost, report, jobs>>

(* publishUpload, for an upload whose object the store confirmed. *)
Publish(o) ==
    /\ row[o].status = "pending" /\ primary[o] = "full"
    /\ row' = [row EXCEPT ![o].status = "ready"]
    /\ UNCHANGED <<outbox, retired, multipart, stores, report, jobs>>

(***************************************************************************)
(* retireObjectIfUnreferenced, when the last reference goes: by purge, a   *)
(* discarded version, or an aborted upload.  The outbox row remembers      *)
(* whether the object was published and whether the replica holds it.      *)
(***************************************************************************)
Retire(o) ==
    /\ row[o].status # "none"
    /\ row' = [row EXCEPT ![o] = NoRow]
    /\ outbox' = [outbox EXCEPT ![o] = [stage |-> "pending",
                                        published |-> row[o].status = "ready",
                                        replicated |-> row[o].replicated]]
    /\ retired' = [retired EXCEPT ![o] = 1 + Cardinality({p \in Objects : outbox[p].stage # "none"})]
    /\ UNCHANGED <<multipart, stores, report, jobs>>

(* abortMultipart, after the transaction that aborted the upload. *)
AbortMultipart(o) ==
    /\ o \in multipart /\ row[o].status = "none"
    /\ multipart' = multipart \ {o}
    /\ UNCHANGED <<rows, stores, report, jobs>>

(* A store loses a copy, or is left with one of the wrong size. *)
Damage(o, fault) ==
    /\ o \in Losable \ lost /\ fault \in Faults
    /\ primary[o] = "full" /\ row[o].status = "ready"
    /\ primary' = [primary EXCEPT ![o] = IF fault = "lost" THEN "none" ELSE "short"]
    /\ lost' = lost \cup {o}
    /\ UNCHANGED <<rows, multipart, replica, report, jobs>>

-----------------------------------------------------------------------------
(* Reports: createReport reads the tree without the workspace's lock and   *)
(* writes its items later in the same transaction.                         *)

ReadForReport(o) ==
    /\ o \in Reported /\ report[o] = "none"
    /\ row[o].status \in {"ready", "missing"}
    /\ report' = [report EXCEPT ![o] = "reading"]
    /\ UNCHANGED <<rows, multipart, stores, jobs>>

FileReport(o) ==
    /\ report[o] = "reading"
    /\ report' = [report EXCEPT ![o] = "open"]
    /\ UNCHANGED <<rows, multipart, stores, jobs>>

(* resolveReport without a hold, or setReportHold letting a closed one go. *)
ReleaseReport(o) ==
    /\ report[o] = "open"
    /\ report' = [report EXCEPT ![o] = "closed"]
    /\ UNCHANGED <<rows, multipart, stores, jobs>>

-----------------------------------------------------------------------------
(* replicateObjects. *)

(* Mutant: the test of replicated_at is inverted. *)
ListLiveInverted ==
    LET live == {o \in Objects : row[o].status = "ready" /\ row[o].replicated}
    IN  /\ HasReplica /\ copy.pc = "idle"
        /\ copy' = [CopyIdle EXCEPT !.pc = "listed", !.live = live]
        /\ UNCHANGED <<rows, multipart, stores, report, del, audit, orphan>>

(* listUnreplicatedObjects, first query: live ready objects. *)
ListLive ==
    LET live == {o \in Objects : row[o].status = "ready" /\ ~row[o].replicated}
    IN  /\ HasReplica /\ copy.pc = "idle"
        /\ copy' = [CopyIdle EXCEPT !.pc = "listed", !.live = live]
        /\ UNCHANGED <<rows, multipart, stores, report, del, audit, orphan>>

(* Its second query: published objects retired before they were copied. *)
Uncopied(o) ==
    outbox[o].stage = "pending" /\ outbox[o].published /\ ~outbox[o].replicated

(* The rows in turn: live objects in the order their rows were created,    *)
(* then retired ones in the order theirs were.                             *)
First(S, created) == CHOOSE o \in S : \A p \in S : created[o] <= created[p]

NextRow(live, dead) ==
    IF live \cup dead = {} THEN CopyIdle
    ELSE LET o == IF live # {} THEN First(live, [p \in Objects |-> p]) ELSE First(dead, retired)
         IN  [pc |-> "copy", object |-> o, live |-> live \ {o},
              dead |-> IF live # {} THEN dead ELSE dead \ {o}]

(* Mutant: only live objects are copied. *)
ListRetiredForgotten ==
    /\ copy.pc = "listed"
    /\ copy' = NextRow(copy.live, {})
    /\ UNCHANGED <<rows, multipart, stores, report, del, audit, orphan>>

ListRetired ==
    /\ copy.pc = "listed"
    /\ copy' = NextRow(copy.live, {o \in Objects : Uncopied(o)})
    /\ UNCHANGED <<rows, multipart, stores, report, del, audit, orphan>>

(* Mutant: a source that is not there counts as copied. *)
CopyToReplicaLenient ==
    LET o == copy.object
    IN  /\ copy.pc = "copy"
        /\ replica' = [replica EXCEPT ![o] = primary[o]]
        /\ copy' = [copy EXCEPT !.pc = "markObject"]
        /\ UNCHANGED <<rows, multipart, primary, lost, report, del, audit, orphan>>

(* replica.copyFrom: a source that is not there throws and ends the run,   *)
(* and with it the rows after it.                                          *)
CopyToReplica ==
    LET o == copy.object
    IN  /\ copy.pc = "copy"
        /\ \/ /\ primary[o] # "none"
              /\ replica' = [replica EXCEPT ![o] = primary[o]]
              /\ copy' = [copy EXCEPT !.pc = "markObject"]
           \/ primary[o] = "none" /\ copy' = CopyIdle /\ UNCHANGED replica
        /\ UNCHANGED <<rows, multipart, primary, lost, report, del, audit, orphan>>

(* markObjectReplicated: the object row, then the outbox row, in two       *)
(* statements; the row that is not there is not updated.                   *)
MarkObjectRow ==
    LET o == copy.object
    IN  /\ copy.pc = "markObject"
        /\ row' = [row EXCEPT ![o].replicated = row[o].status # "none"]
        /\ copy' = [copy EXCEPT !.pc = "markOutbox"]
        /\ UNCHANGED <<outbox, retired, multipart, stores, report, del, audit, orphan>>

MarkOutboxRow ==
    LET o == copy.object
    IN  /\ copy.pc = "markOutbox"
        /\ outbox' = [outbox EXCEPT ![o].replicated = outbox[o].stage # "none"]
        /\ copy' = NextRow(copy.live, copy.dead)
        /\ UNCHANGED <<row, retired, multipart, stores, report, del, audit, orphan>>

-----------------------------------------------------------------------------
(* deleteObjects. *)

KeepsReplicaCopy(o) == HasReplica /\ outbox[o].published

(* listPendingObjectDeletions, and the wait for the replica's copy. *)
ListDeletion(o) ==
    /\ del.pc = "idle"
    /\ outbox[o].stage = "pending" /\ ~Held(o)
    /\ KeepsReplicaCopy(o) => outbox[o].replicated
    /\ del' = [pc |-> "delete", object |-> o, keep |-> KeepsReplicaCopy(o)]
    /\ UNCHANGED <<rows, multipart, stores, report, copy, audit, orphan>>

DeletePrimary ==
    /\ del.pc = "delete"
    /\ primary' = [primary EXCEPT ![del.object] = "none"]
    /\ del' = [del EXCEPT !.pc = "mark"]
    /\ UNCHANGED <<rows, multipart, replica, lost, report, copy, audit, orphan>>

(* markPrimaryDeleted: the row is done, unless a replica copy is kept for  *)
(* the undo window.                                                        *)
MarkPrimaryDeleted ==
    /\ del.pc = "mark"
    /\ outbox' = [outbox EXCEPT ![del.object].stage = IF del.keep THEN "window" ELSE "done"]
    /\ del' = DelIdle
    /\ UNCHANGED <<row, retired, multipart, stores, report, copy, audit, orphan>>

(* deleteReplicaAfter passes. *)
UndoWindowEnds(o) ==
    /\ outbox[o].stage = "window"
    /\ outbox' = [outbox EXCEPT ![o].stage = "due"]
    /\ UNCHANGED <<row, retired, multipart, stores, report, jobs>>

(* listReplicaDeletionsDue *)
ListReplicaDeletion(o) ==
    /\ HasReplica /\ del.pc = "idle"
    /\ outbox[o].stage = "due"
    /\ del' = [pc |-> "deleteReplica", object |-> o, keep |-> FALSE]
    /\ UNCHANGED <<rows, multipart, stores, report, copy, audit, orphan>>

DeleteReplica ==
    /\ del.pc = "deleteReplica"
    /\ replica' = [replica EXCEPT ![del.object] = "none"]
    /\ del' = [del EXCEPT !.pc = "done"]
    /\ UNCHANGED <<rows, multipart, primary, lost, report, copy, audit, orphan>>

(* markObjectDeletionDone *)
MarkObjectDeletionDone ==
    /\ del.pc = "done"
    /\ outbox' = [outbox EXCEPT ![del.object].stage = "done"]
    /\ del' = DelIdle
    /\ UNCHANGED <<row, retired, multipart, stores, report, copy, audit, orphan>>

-----------------------------------------------------------------------------
(* auditObjects, for target t. *)

(* judgeObject *)
Verdict(t, heads) ==
    CASE t = "replica" -> IF heads.replica = "full" THEN "present" ELSE "replica-missing"
      [] t = "primary" -> CASE heads.primary = "full" -> "present"
                            [] heads.primary # "full" /\ heads.replica = "full" -> "recoverable"
                            [] OTHER -> "missing"

AuditStep(t, pc) == audit[t].pc = pc
SetAudit(t, run) == audit' = [audit EXCEPT ![t] = run]

(* Mutant: an object already missing is not audited again. *)
ListAuditReadyOnly(t, o) ==
    /\ AuditStep(t, "idle") /\ (t = "replica" => HasReplica)
    /\ row[o].status = "ready"
    /\ t = "replica" => row[o].replicated
    /\ SetAudit(t, [AuditIdle EXCEPT !.pc = IF t = "primary" THEN "head" ELSE "headReplica",
                                     !.object = o])
    /\ UNCHANGED <<rows, multipart, stores, report, copy, del, orphan>>

(* listObjectsForAudit: ready and missing objects, in turn. *)
ListAudit(t, o) ==
    /\ AuditStep(t, "idle") /\ (t = "replica" => HasReplica)
    /\ row[o].status \in {"ready", "missing"}
    /\ t = "replica" => row[o].replicated
    /\ SetAudit(t, [AuditIdle EXCEPT !.pc = IF t = "primary" THEN "head" ELSE "headReplica",
                                     !.object = o])
    /\ UNCHANGED <<rows, multipart, stores, report, copy, del, orphan>>

(* Mutant: a head of the primary that fails counts as no copy. *)
HeadPrimaryCaught(t) ==
    /\ AuditStep(t, "head")
    /\ SetAudit(t, [audit[t] EXCEPT !.pc = IF HasReplica THEN "headReplica" ELSE "judge"])
    /\ UNCHANGED <<rows, multipart, stores, report, copy, del, orphan>>

(* primary.head; the replica is asked only when this found nothing. *)
HeadPrimary(t) ==
    LET found == primary[audit[t].object]
    IN  /\ AuditStep(t, "head")
        /\ SetAudit(t, [audit[t] EXCEPT !.primary = found,
              !.pc = IF HasReplica /\ found = "none" THEN "headReplica" ELSE "judge"])
        /\ UNCHANGED <<rows, multipart, stores, report, copy, del, orphan>>

(* replica.head; one that fails counts as a copy that is not there. *)
HeadReplica(t) ==
    /\ AuditStep(t, "headReplica")
    /\ SetAudit(t, [audit[t] EXCEPT !.replica = replica[audit[t].object], !.pc = "judge"])
    /\ UNCHANGED <<rows, multipart, stores, report, copy, del, orphan>>

HeadReplicaFails(t) ==
    /\ AuditStep(t, "headReplica")
    /\ SetAudit(t, [audit[t] EXCEPT !.pc = "judge"])
    /\ UNCHANGED <<rows, multipart, stores, report, copy, del, orphan>>

(* primary.copyFrom(replica), before the outcome is recorded. *)
CopyBack(t) ==
    LET o == audit[t].object
    IN  /\ AuditStep(t, "judge") /\ Verdict(t, audit[t]) = "recoverable"
        /\ \/ /\ replica[o] # "none"
              /\ primary' = [primary EXCEPT ![o] = replica[o]]
              /\ SetAudit(t, [audit[t] EXCEPT !.primary = "full"])
           \/ replica[o] = "none" /\ SetAudit(t, AuditIdle) /\ UNCHANGED primary
        /\ UNCHANGED <<rows, multipart, replica, lost, report, copy, del, orphan>>

(* Mutant: the outcome itself is written as the status. *)
RecordObjectAuditVerbatim(t) ==
    LET o == audit[t].object
        verdict == Verdict(t, audit[t])
    IN  /\ AuditStep(t, "judge") /\ verdict # "recoverable"
        /\ row' = [row EXCEPT ![o].status = verdict]
        /\ SetAudit(t, AuditIdle)
        /\ UNCHANGED <<outbox, retired, multipart, stores, report, copy, del, orphan>>

(* recordObjectAudit; "recovered" is written like "present". *)
RecordObjectAudit(t) ==
    LET o == audit[t].object
        verdict == Verdict(t, audit[t])
    IN  /\ AuditStep(t, "judge") /\ verdict # "recoverable"
        /\ row' = CASE verdict = "replica-missing" -> [row EXCEPT ![o].replicated = FALSE]
                    [] verdict # "replica-missing" /\ row[o].status \in {"ready", "missing"} ->
                          [row EXCEPT ![o].status = IF verdict = "missing" THEN "missing"
                                                                          ELSE "ready"]
                    [] OTHER -> row
        /\ SetAudit(t, AuditIdle)
        /\ UNCHANGED <<outbox, retired, multipart, stores, report, copy, del, orphan>>

-----------------------------------------------------------------------------
(* sweepOrphans: a key of the listing, which is old enough or not, is      *)
(* looked up among the object rows, then among the outbox rows.            *)

ListOrphan(o) ==
    /\ orphan.pc = "idle" /\ primary[o] # "none"
    /\ orphan' = [pc |-> "first", object |-> o]
    /\ UNCHANGED <<rows, multipart, stores, report, copy, del, audit>>

(* Mutant: the outbox is read before the object rows. *)
KnownSwapped(read, o) ==
    IF read = "first" THEN outbox[o].stage # "none" ELSE row[o].status # "none"

(* knownObjectKeys, its two reads; an outbox row that is done counts. *)
Known(read, o) ==
    IF read = "first" THEN row[o].status # "none" ELSE outbox[o].stage # "none"

ReadKnown(read, next) ==
    /\ orphan.pc = read
    /\ orphan' = IF Known(read, orphan.object) THEN OrphanIdle
                                               ELSE [orphan EXCEPT !.pc = next]
    /\ UNCHANGED <<rows, multipart, stores, report, copy, del, audit>>

ReadKnownFirst == ReadKnown("first", "second")
ReadKnownSecond == ReadKnown("second", "delete")

DeleteOrphan ==
    /\ orphan.pc = "delete"
    /\ primary' = [primary EXCEPT ![orphan.object] = "none"]
    /\ orphan' = OrphanIdle
    /\ UNCHANGED <<rows, multipart, replica, lost, report, copy, del, audit>>

-----------------------------------------------------------------------------
(* A run stops where it is; the next one lists again. *)
StopCopy == copy.pc # "idle" /\ copy' = CopyIdle /\ UNCHANGED <<del, audit, orphan>>
StopDelete == del.pc # "idle" /\ del' = DelIdle /\ UNCHANGED <<copy, audit, orphan>>
StopAudit(t) ==
    audit[t].pc # "idle" /\ SetAudit(t, AuditIdle) /\ UNCHANGED <<copy, del, orphan>>
StopOrphans == orphan.pc # "idle" /\ orphan' = OrphanIdle /\ UNCHANGED <<copy, del, audit>>

StopRun ==
    /\ StopCopy \/ StopDelete \/ StopOrphans \/ \E t \in Targets : StopAudit(t)
    /\ UNCHANGED <<rows, multipart, stores, report>>

Next ==
    \/ \E o \in Objects :
          \/ Begin(o) \/ CompleteMultipart(o) \/ Publish(o) \/ Retire(o)
          \/ AbortMultipart(o) \/ \E fault \in Faults : Damage(o, fault)
          \/ ReadForReport(o) \/ FileReport(o) \/ ReleaseReport(o)
          \/ ListDeletion(o) \/ UndoWindowEnds(o) \/ ListReplicaDeletion(o)
          \/ ListOrphan(o) \/ \E t \in Targets : ListAudit(t, o)
    \/ ListLive \/ ListRetired \/ CopyToReplica \/ MarkObjectRow \/ MarkOutboxRow
    \/ DeletePrimary \/ MarkPrimaryDeleted \/ DeleteReplica \/ MarkObjectDeletionDone
    \/ \E t \in Targets : HeadPrimary(t) \/ HeadReplica(t) \/ HeadReplicaFails(t)
                          \/ CopyBack(t) \/ RecordObjectAudit(t)
    \/ ReadKnownFirst \/ ReadKnownSecond \/ DeleteOrphan
    \/ StopRun

Spec == Init /\ [][Next]_vars

(***************************************************************************)
(* Every job is scheduled forever and lists its rows oldest first, so each *)
(* row comes around; a run may stop at any step, but not at the same step  *)
(* of every run; and the undo window ends.  Nothing is assumed of uploads, *)
(* reports, the stores' damage or a head that fails.                       *)
(***************************************************************************)
CopyFairness ==
    /\ WF_vars(ListLive)
    /\ SF_vars(ListRetired)
    /\ SF_vars(CopyToReplica)
    /\ SF_vars(MarkObjectRow)
    /\ SF_vars(MarkOutboxRow)

DeleteFairness ==
    /\ \A o \in Objects : /\ SF_vars(ListDeletion(o))
                          /\ WF_vars(UndoWindowEnds(o))
                          /\ SF_vars(ListReplicaDeletion(o))
    /\ SF_vars(DeletePrimary)
    /\ SF_vars(MarkPrimaryDeleted)
    /\ SF_vars(DeleteReplica)
    /\ SF_vars(MarkObjectDeletionDone)

AuditFairness ==
    /\ \A o \in Objects : SF_vars(ListAudit("primary", o))
    /\ SF_vars(HeadPrimary("primary"))
    /\ SF_vars(HeadReplica("primary"))
    /\ SF_vars(CopyBack("primary"))
    /\ SF_vars(RecordObjectAudit("primary"))

OutboxSpec == Spec /\ CopyFairness /\ DeleteFairness
AuditSpec == Spec /\ AuditFairness

-----------------------------------------------------------------------------
(* Type invariant. *)

Row == [status : {"none", "pending", "ready", "missing"}, replicated : BOOLEAN]
Deletion == [stage : {"none", "pending", "window", "due", "done"},
             published : BOOLEAN, replicated : BOOLEAN]
RowsOK ==
    /\ row \in [Objects -> Row]
    /\ outbox \in [Objects -> Deletion]
    /\ multipart \subseteq Objects
    /\ primary \in [Objects -> Copy]
    /\ replica \in [Objects -> Copy]
    /\ lost \subseteq Objects
    /\ report \in [Objects -> {"none", "reading", "open", "closed"}]

Audit == [pc : {"idle", "head", "headReplica", "judge"}, object : Objects \cup {0},
          primary : Copy, replica : Copy]
RunsOK ==
    /\ del \in [pc : {"idle", "delete", "mark", "deleteReplica", "done"},
                object : Objects \cup {0}, keep : BOOLEAN]
    /\ audit \in [Targets -> Audit]
    /\ orphan \in [pc : {"idle", "first", "second", "delete"}, object : Objects \cup {0}]

CopyRun == [pc : {"idle", "listed", "copy", "markObject", "markOutbox"},
            object : Objects \cup {0}, live : SUBSET Objects, dead : SUBSET Objects]

(* Every row, copy and run has its type; the lists name objects only. *)
TypeOK ==
    /\ RowsOK /\ RunsOK
    /\ retired \in [Objects -> Nat]
    /\ copy \in CopyRun

-----------------------------------------------------------------------------
(* Safety, with no damage other than lost primary copies. *)

(* Whatever the jobs read and did in between, they never take the primary  *)
(* copy of an object a row still names, nor a copy that must wait: a       *)
(* published object's primary goes only after the replica holds it, and    *)
(* its replica only when the undo window ended (drive-design, Limits and   *)
(* invariants: the whole rule for who may delete what).                    *)
DeletedInTurn ==
    [][\A o \in Objects :
          /\ primary[o] = "full" /\ primary'[o] = "none" /\ lost' = lost =>
                /\ row[o].status = "none"
                /\ KeepsReplicaCopy(o) /\ outbox[o].stage # "none" => replica[o] = "full"
          /\ replica[o] = "full" /\ replica'[o] # "full" => outbox[o].stage = "due"]_vars

(* What a row says of the replica is so, for as long as anything relies on *)
(* it: replicated_at on a live object, and the flag on an outbox row whose *)
(* primary copy may go or has gone.                                        *)
ReplicatedIsHeld ==
    \A o \in Objects :
        /\ row[o].replicated => replica[o] = "full"
        /\ outbox[o].stage \in {"pending", "window"} /\ outbox[o].replicated
              => replica[o] = "full"

(* An object marked missing has really lost its primary copy at some time, *)
(* and a live object whose copy no store lost is in the primary.           *)
MissingIsReal ==
    \A o \in Objects :
        /\ row[o].status = "missing" => o \in lost
        /\ row[o].status = "ready" /\ o \notin lost => primary[o] = "full"

-----------------------------------------------------------------------------
(* Liveness. *)

(* Every outbox row is done in the end: a published object waits for the   *)
(* copy job, whose run may stop anywhere, then for the undo window.        *)
OutboxCompletes == \A o \in Objects : outbox[o].stage = "pending" ~> outbox[o].stage = "done"

(* Every ready object reaches the replica, or is retired. *)
LiveReplicates ==
    \A o \in Objects : row[o].status = "ready" /\ primary[o] = "full"
                          ~> replica[o] = "full" \/ row[o].status = "none"

(* "A primary copy the replica still holds is copied back": under the      *)
(* primary audit, with a head of the replica that may fail for a while, a  *)
(* live object the replica holds whole is served whole again, and no       *)
(* `missing` it was given on the way outlives that.                        *)
LostIsRecovered ==
    \A o \in Objects :
        row[o].status \in {"ready", "missing"} /\ replica[o] = "full"
        ~> \/ row[o].status = "ready" /\ primary[o] = "full"
           \/ row[o].status = "none" \/ replica[o] # "full"
=============================================================================
