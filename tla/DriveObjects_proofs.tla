------------------------- MODULE DriveObjects_proofs ------------------------
(***************************************************************************)
(* Proofs about DriveObjects, for every set of objects and strays, with or *)
(* without a replica, when the primary store may lose copies but does not  *)
(* leave one of the wrong size.                                            *)
(***************************************************************************)
EXTENDS DriveObjects, TLAPS, WellFoundedInduction, FiniteSetTheorems

-----------------------------------------------------------------------------
(* The inductive invariant, in named parts. *)

(* The copy job's state is a record. *)
CopyIsRecord == copy = [pc |-> copy.pc, object |-> copy.object, live |-> copy.live, dead |-> copy.dead]

(* An object has an object row or an outbox row, not both; a replicated    *)
(* object has its row; and nothing in either store is short.               *)
OneRow ==
    \A o \in Objects :
        /\ row[o].status = "none" \/ outbox[o].stage = "none"
        /\ row[o].replicated => row[o].status # "none"
        /\ primary[o] # "short" /\ replica[o] # "short"

(* A key in the primary, or an upload that may still put it there, was     *)
(* begun, unless it is a stray.                                            *)
StoredBegun ==
    \A o \in Objects :
        /\ primary[o] # "none" => Begun(o) \/ o \in Strays
        /\ o \in multipart => Begun(o)

(* Between its copy and its marks the copy job has its object in the       *)
(* replica, unless the undo window ended meanwhile.                        *)
CopyHeld ==
    \A o \in Objects :
        copy.pc \in {"markObject", "markOutbox"} /\ copy.object = o =>
            replica[o] = "full" \/ outbox[o].stage \in {"due", "done"}

(* The delete job works on a row of the right stage, and one whose replica *)
(* copy is kept is in the replica.                                         *)
DeleteTurn ==
    /\ del.pc \in {"delete", "mark"} =>
          /\ del.object \in Objects
          /\ outbox[del.object].stage = "pending"
          /\ del.keep = KeepsReplicaCopy(del.object)
          /\ KeepsReplicaCopy(del.object) => outbox[del.object].replicated
    /\ del.pc \in {"deleteReplica", "done"} =>
          del.object \in Objects /\ outbox[del.object].stage = "due"

(* A key the sweep is at was begun, or is a stray; one it has not found    *)
(* among the object rows has none, and what it is to delete has no row.    *)
SweepSeen ==
    orphan.pc # "idle" =>
        /\ orphan.object \in Objects
        /\ Begun(orphan.object) \/ orphan.object \in Strays
        /\ orphan.pc \in {"second", "delete"} => row[orphan.object].status = "none"
        /\ orphan.pc = "delete" => outbox[orphan.object].stage = "none"

(* An audit is at an object that was published; a primary copy it did not  *)
(* find is lost, unless the object was retired meanwhile.                  *)
AuditSeen ==
    \A t \in Targets : audit[t].pc # "idle" =>
        /\ audit[t].object \in Objects
        /\ Begun(audit[t].object) /\ row[audit[t].object].status # "pending"
        /\ t = "primary" /\ audit[t].pc \in {"headReplica", "judge"}
              /\ audit[t].primary # "full" =>
                 row[audit[t].object].status = "none" \/ audit[t].object \in lost

RowsInv == RowsOK /\ OneRow /\ StoredBegun /\ ReplicatedIsHeld /\ MissingIsReal
RunsInv == RunsOK /\ CopyIsRecord /\ CopyHeld /\ DeleteTurn /\ SweepSeen /\ AuditSeen
IInv == RowsInv /\ RunsInv

-----------------------------------------------------------------------------
(* The initial rows and idle jobs satisfy the invariant. *)
LEMMA InitIInv == Init => IInv
<1> SUFFICES ASSUME Init PROVE IInv
  OBVIOUS
<1> USE ObjectsAssumption DEF Init, NoRow, NoDeletion, CopyIdle, DelIdle, AuditIdle, OrphanIdle
<1>1. RowsOK /\ RunsOK /\ CopyIsRecord
  BY DEF RowsOK, RunsOK, CopyIsRecord, Row, Deletion, Copy, Audit
<1>2. RowsInv
  BY <1>1 DEF RowsInv, OneRow, StoredBegun, ReplicatedIsHeld, MissingIsReal
<1>3. RunsInv
  BY <1>1 DEF RunsInv, CopyHeld, DeleteTurn, SweepSeen, AuditSeen
<1> QED
  BY <1>2, <1>3 DEF IInv

(* Setting one column of one row gives a row again. *)
LEMMA StatusType ==
    ASSUME NEW f \in [Objects -> Row], NEW o,
           NEW s \in {"none", "pending", "ready", "missing"}
    PROVE  [f EXCEPT ![o].status = s] \in [Objects -> Row]
<1>1. \A r \in Row : [r EXCEPT !.status = s] \in Row
  BY DEF Row
<1> QED
  BY <1>1

(* The same for replicated_at. *)
LEMMA ReplicatedType ==
    ASSUME NEW f \in [Objects -> Row], NEW o, NEW b \in BOOLEAN
    PROVE  [f EXCEPT ![o].replicated = b] \in [Objects -> Row]
<1>1. \A r \in Row : [r EXCEPT !.replicated = b] \in Row
  BY DEF Row
<1> QED
  BY <1>1

(* The same for the stage of an outbox row. *)
LEMMA StageType ==
    ASSUME NEW f \in [Objects -> Deletion], NEW o, NEW s \in {"pending", "window", "due", "done"}
    PROVE  [f EXCEPT ![o].stage = s] \in [Objects -> Deletion]
<1>1. \A r \in Deletion : [r EXCEPT !.stage = s] \in Deletion
  BY DEF Deletion
<1> QED
  BY <1>1

(* The same for its replicated flag. *)
LEMMA FlagType ==
    ASSUME NEW f \in [Objects -> Deletion], NEW o, NEW b \in BOOLEAN
    PROVE  [f EXCEPT ![o].replicated = b] \in [Objects -> Deletion]
<1>1. \A r \in Deletion : [r EXCEPT !.replicated = b] \in Deletion
  BY DEF Deletion
<1> QED
  BY <1>1

(* The audit of one store advances. *)
LEMMA AuditType ==
    ASSUME audit \in [Targets -> Audit], NEW t \in Targets, NEW p \in Copy, NEW r \in Copy,
           NEW pc \in {"headReplica", "judge"}
    PROVE  /\ [audit[t] EXCEPT !.primary = p, !.pc = pc] \in Audit
           /\ [audit[t] EXCEPT !.replica = r, !.pc = pc] \in Audit
           /\ [audit[t] EXCEPT !.pc = pc] \in Audit
<1>1. audit[t] \in Audit
  OBVIOUS
<1> QED
  BY <1>1 DEF Audit

(* A step of a job that only reads. *)
LEMMA ReadsKeepRows ==
    ASSUME RowsInv, UNCHANGED <<rows, multipart, stores, report>>
    PROVE  RowsInv'
  BY DEF RowsInv, RowsOK, OneRow, StoredBegun, ReplicatedIsHeld, MissingIsReal, Begun, rows,
      stores

-----------------------------------------------------------------------------
(* Every transaction, store call and job step keeps the invariant. *)
LEMMA StepIInv ==
    ASSUME "short" \notin Faults, IInv, [Next]_vars
    PROVE  IInv'
<1> USE ObjectsAssumption, ReportedAssumption, FaultsAssumption
<1> USE DEF IInv, RowsInv, RunsInv, rows, stores, jobs
<1>1. ASSUME NEW o \in Objects, Begin(o) PROVE IInv'
  <2>1. RowsOK'
    BY <1>1 DEF Begin, RowsOK, Row, Deletion, Copy
  <2>2. RowsInv'
    BY <1>1, <2>1 DEF Begin, RowsOK, Row, Deletion, Copy, OneRow, StoredBegun,
        ReplicatedIsHeld, MissingIsReal, Begun
  <2>3. RunsInv'
    BY <1>1 DEF Begin, RowsOK, OneRow, Row, Deletion, StoredBegun, MissingIsReal, RunsOK,
        CopyIsRecord, CopyHeld, DeleteTurn, SweepSeen, AuditSeen, Begun, KeepsReplicaCopy
  <2> QED
    BY <2>1, <2>2, <2>3
<1>2. ASSUME NEW o \in Objects, CompleteMultipart(o) PROVE IInv'
  <2>1. RowsOK'
    BY <1>2 DEF CompleteMultipart, RowsOK, Row, Deletion, Copy
  <2>2. RowsInv'
    BY <1>2, <2>1 DEF CompleteMultipart, RowsOK, Row, Deletion, Copy, OneRow, StoredBegun,
        ReplicatedIsHeld, MissingIsReal, Begun
  <2>3. RunsInv'
    BY <1>2 DEF CompleteMultipart, RowsOK, OneRow, Row, Deletion, StoredBegun,
        MissingIsReal, RunsOK, CopyIsRecord, CopyHeld, DeleteTurn, SweepSeen, AuditSeen,
        Begun, KeepsReplicaCopy
  <2> QED
    BY <2>1, <2>2, <2>3
<1>3. ASSUME NEW o \in Objects, Publish(o) PROVE IInv'
  <2>1. RowsOK'
    BY <1>3 DEF Publish, RowsOK, Row, Deletion, Copy
  <2>2. RowsInv'
    BY <1>3, <2>1 DEF Publish, RowsOK, Row, Deletion, Copy, OneRow, StoredBegun,
        ReplicatedIsHeld, MissingIsReal, Begun
  <2>3. RunsInv'
    BY <1>3 DEF Publish, RowsOK, OneRow, Row, Deletion, StoredBegun, MissingIsReal,
        RunsOK, CopyIsRecord, CopyHeld, DeleteTurn, SweepSeen, AuditSeen, Begun,
        KeepsReplicaCopy
  <2> QED
    BY <2>1, <2>2, <2>3
<1>4. ASSUME NEW o \in Objects, Retire(o) PROVE IInv'
  <2>1. RowsOK'
    BY <1>4 DEF Retire, NoRow, RowsOK, Row, Deletion, Copy
  <2>2. RowsInv'
    BY <1>4, <2>1 DEF Retire, NoRow, RowsOK, Row, Deletion, Copy, OneRow, StoredBegun,
        ReplicatedIsHeld, MissingIsReal, Begun
  <2>3. RunsInv'
    BY <1>4 DEF Retire, NoRow, RowsOK, OneRow, Row, Deletion, StoredBegun, MissingIsReal,
        RunsOK, CopyIsRecord, CopyHeld, DeleteTurn, SweepSeen, AuditSeen, Begun,
        KeepsReplicaCopy
  <2> QED
    BY <2>1, <2>2, <2>3
<1>5. ASSUME NEW o \in Objects, AbortMultipart(o) PROVE IInv'
  <2>1. RowsOK'
    BY <1>5 DEF AbortMultipart, RowsOK, Row, Deletion, Copy
  <2>2. RowsInv'
    BY <1>5, <2>1 DEF AbortMultipart, RowsOK, Row, Deletion, Copy, OneRow, StoredBegun,
        ReplicatedIsHeld, MissingIsReal, Begun
  <2>3. RunsInv'
    BY <1>5 DEF AbortMultipart, RowsOK, OneRow, Row, Deletion, StoredBegun, MissingIsReal,
        RunsOK, CopyIsRecord, CopyHeld, DeleteTurn, SweepSeen, AuditSeen, Begun,
        KeepsReplicaCopy
  <2> QED
    BY <2>1, <2>2, <2>3
<1>6. ASSUME NEW o \in Objects, ReadForReport(o) PROVE IInv'
  <2>1. RowsOK'
    BY <1>6 DEF ReadForReport, RowsOK, Row, Deletion, Copy
  <2>2. RowsInv'
    BY <1>6, <2>1 DEF ReadForReport, RowsOK, Row, Deletion, Copy, OneRow, StoredBegun,
        ReplicatedIsHeld, MissingIsReal, Begun
  <2>3. RunsInv'
    BY <1>6 DEF ReadForReport, RowsOK, OneRow, Row, Deletion, StoredBegun, MissingIsReal,
        RunsOK, CopyIsRecord, CopyHeld, DeleteTurn, SweepSeen, AuditSeen, Begun,
        KeepsReplicaCopy
  <2> QED
    BY <2>1, <2>2, <2>3
<1>7. ASSUME NEW o \in Objects, FileReport(o) PROVE IInv'
  <2>1. RowsOK'
    BY <1>7 DEF FileReport, RowsOK, Row, Deletion, Copy
  <2>2. RowsInv'
    BY <1>7, <2>1 DEF FileReport, RowsOK, Row, Deletion, Copy, OneRow, StoredBegun,
        ReplicatedIsHeld, MissingIsReal, Begun
  <2>3. RunsInv'
    BY <1>7 DEF FileReport, RowsOK, OneRow, Row, Deletion, StoredBegun, MissingIsReal,
        RunsOK, CopyIsRecord, CopyHeld, DeleteTurn, SweepSeen, AuditSeen, Begun,
        KeepsReplicaCopy
  <2> QED
    BY <2>1, <2>2, <2>3
<1>8. ASSUME NEW o \in Objects, ReleaseReport(o) PROVE IInv'
  <2>1. RowsOK'
    BY <1>8 DEF ReleaseReport, RowsOK, Row, Deletion, Copy
  <2>2. RowsInv'
    BY <1>8, <2>1 DEF ReleaseReport, RowsOK, Row, Deletion, Copy, OneRow, StoredBegun,
        ReplicatedIsHeld, MissingIsReal, Begun
  <2>3. RunsInv'
    BY <1>8 DEF ReleaseReport, RowsOK, OneRow, Row, Deletion, StoredBegun, MissingIsReal,
        RunsOK, CopyIsRecord, CopyHeld, DeleteTurn, SweepSeen, AuditSeen, Begun,
        KeepsReplicaCopy
  <2> QED
    BY <2>1, <2>2, <2>3
<1>9. ASSUME NEW o \in Objects, NEW fault \in Faults, Damage(o, fault)
      PROVE  IInv'
  <2>1. RowsOK'
    BY <1>9 DEF Damage, RowsOK, Row, Deletion, Copy
  <2>2. RowsInv'
    BY <1>9, <2>1 DEF Damage, RowsOK, Row, Deletion, Copy, OneRow, StoredBegun,
        ReplicatedIsHeld, MissingIsReal, Begun
  <2>3. RunsInv'
    BY <1>9 DEF Damage, RowsOK, OneRow, Row, Deletion, StoredBegun, MissingIsReal, RunsOK,
        CopyIsRecord, CopyHeld, DeleteTurn, SweepSeen, AuditSeen, Begun, KeepsReplicaCopy
  <2> QED
    BY <2>1, <2>2, <2>3
<1>10. ASSUME NEW o \in Objects, UndoWindowEnds(o) PROVE IInv'
  <2>1. RowsOK'
    BY <1>10, StageType DEF UndoWindowEnds, RowsOK
  <2>2. RowsInv'
    BY <1>10, <2>1 DEF UndoWindowEnds, RowsOK, Row, Deletion, Copy, OneRow, StoredBegun,
        ReplicatedIsHeld, MissingIsReal, Begun
  <2>3. RunsInv'
    BY <1>10 DEF UndoWindowEnds, RowsOK, OneRow, Row, Deletion, StoredBegun,
        MissingIsReal, RunsOK, CopyIsRecord, CopyHeld, DeleteTurn, SweepSeen, AuditSeen,
        Begun, KeepsReplicaCopy
  <2> QED
    BY <2>1, <2>2, <2>3
<1>11. ASSUME NEW o \in Objects, ListDeletion(o) PROVE IInv'
  <2>1. RowsInv'
    BY <1>11, ReadsKeepRows DEF ListDeletion
  <2>2. RunsInv'
    BY <1>11 DEF ListDeletion, RowsOK, Row, Deletion, StoredBegun, MissingIsReal, Copy,
        Audit, Targets, RunsOK, CopyIsRecord, CopyHeld, DeleteTurn, SweepSeen, AuditSeen,
        Begun, KeepsReplicaCopy
  <2> QED
    BY <2>1, <2>2
<1>12. ASSUME NEW o \in Objects, ListReplicaDeletion(o) PROVE IInv'
  <2>1. RowsInv'
    BY <1>12, ReadsKeepRows DEF ListReplicaDeletion
  <2>2. RunsInv'
    BY <1>12 DEF ListReplicaDeletion, RowsOK, Row, Deletion, StoredBegun, MissingIsReal,
        Copy, Audit, Targets, RunsOK, CopyIsRecord, CopyHeld, DeleteTurn, SweepSeen,
        AuditSeen, Begun, KeepsReplicaCopy
  <2> QED
    BY <2>1, <2>2
<1>13. ASSUME NEW o \in Objects, ListOrphan(o) PROVE IInv'
  <2>1. RowsInv'
    BY <1>13, ReadsKeepRows DEF ListOrphan
  <2>2. RunsInv'
    BY <1>13 DEF ListOrphan, RowsOK, Row, Deletion, StoredBegun, MissingIsReal, Copy,
        Audit, Targets, RunsOK, CopyIsRecord, CopyHeld, DeleteTurn, SweepSeen, AuditSeen,
        Begun, KeepsReplicaCopy
  <2> QED
    BY <2>1, <2>2
<1>14. ASSUME NEW o \in Objects, NEW t \in Targets, ListAudit(t, o)
      PROVE  IInv'
  <2>1. RowsInv'
    BY <1>14, ReadsKeepRows DEF ListAudit, AuditStep, SetAudit, AuditIdle
  <2>2. [AuditIdle EXCEPT !.pc = IF t = "primary" THEN "head" ELSE "headReplica",
                          !.object = o] \in Audit
    BY <1>14 DEF ListAudit, AuditStep, SetAudit, AuditIdle, Audit, Copy
  <2>3. RunsOK'
    BY <1>14, <2>2 DEF ListAudit, AuditStep, SetAudit, AuditIdle, RunsOK
  <2>4. AuditSeen'
    BY <1>14, <2>2 DEF ListAudit, AuditStep, SetAudit, AuditIdle, RunsOK, AuditSeen,
        Begun, RowsOK, Row, Audit
  <2>5. RunsInv'
    BY <1>14, <2>3, <2>4 DEF ListAudit, AuditStep, SetAudit, AuditIdle, CopyIsRecord,
        CopyHeld, DeleteTurn, SweepSeen, Begun, KeepsReplicaCopy
  <2> QED
    BY <2>1, <2>2, <2>3, <2>4, <2>5
<1>15. ASSUME ListLive PROVE IInv'
  <2>1. RowsInv'
    BY <1>15, ReadsKeepRows DEF ListLive
  <2>2. PICK live : copy' = [pc |-> "listed", object |-> 0, live |-> live, dead |-> {}]
    BY <1>15 DEF ListLive, CopyIdle
  <2>3. CopyIsRecord' /\ CopyHeld'
    BY <2>2 DEF CopyIsRecord, CopyHeld
  <2>4. RunsInv'
    BY <1>15, <2>3 DEF ListLive, RunsOK, DeleteTurn, SweepSeen, AuditSeen, Begun,
        KeepsReplicaCopy
  <2> QED
    BY <2>1, <2>2, <2>3, <2>4
<1>16. ASSUME ListRetired PROVE IInv'
  <2>1. RowsInv'
    BY <1>16, ReadsKeepRows DEF ListRetired
  <2>2. PICK live, dead : copy' = NextRow(live, dead)
    BY <1>16 DEF ListRetired
  <2>3. CopyIsRecord' /\ CopyHeld'
    BY <2>2 DEF CopyIsRecord, CopyHeld, NextRow, CopyIdle
  <2>4. RunsInv'
    BY <1>16, <2>3 DEF ListRetired, RunsOK, DeleteTurn, SweepSeen, AuditSeen, Begun,
        KeepsReplicaCopy
  <2> QED
    BY <2>1, <2>2, <2>3, <2>4
<1>17. ASSUME CopyToReplica PROVE IInv'
  <2>1. RowsOK'
    <3> DEFINE o == copy.object
    <3>1. CASE o \in Objects
      BY <1>17, <3>1 DEF CopyToReplica, CopyIdle, RowsOK
    <3>2. CASE o \notin Objects
      BY <1>17, <3>2 DEF CopyToReplica, CopyIdle, RowsOK
    <3> QED
      BY <3>1, <3>2
  <2>2. RowsInv'
    BY <1>17, <2>1 DEF CopyToReplica, CopyIdle, RowsOK, Row, Deletion, Copy, OneRow,
        StoredBegun, ReplicatedIsHeld, MissingIsReal, Begun
  <2>3. CopyIsRecord' /\ CopyHeld'
    BY <1>17 DEF CopyToReplica, CopyIdle, RowsOK, Row, Deletion, Copy, CopyIsRecord,
        CopyHeld, OneRow
  <2>4. RunsInv'
    BY <1>17, <2>3 DEF CopyToReplica, CopyIdle, RunsOK, DeleteTurn, SweepSeen, AuditSeen,
        Begun, KeepsReplicaCopy
  <2> QED
    BY <2>1, <2>2, <2>3, <2>4
<1>18. ASSUME MarkObjectRow PROVE IInv'
  <2>1. RowsOK'
    BY <1>18, ReplicatedType DEF MarkObjectRow, RowsOK
  <2>2. RowsInv'
    <3>1. /\ \A o \in Objects : row'[o].status = row[o].status
          /\ \A o \in Objects : row'[o].replicated => row[o].replicated \/
                (row[o].status # "none" /\ replica[o] = "full")
      BY <1>18 DEF MarkObjectRow, RowsOK, Row, OneRow, CopyHeld
    <3>2. OneRow' /\ StoredBegun'
      BY <1>18, <3>1 DEF MarkObjectRow, OneRow, StoredBegun, Begun
    <3>3. ReplicatedIsHeld' /\ MissingIsReal'
      BY <1>18, <3>1 DEF MarkObjectRow, ReplicatedIsHeld, MissingIsReal
    <3> QED
      BY <2>1, <3>2, <3>3
  <2>3. RunsInv'
    BY <1>18 DEF MarkObjectRow, RowsOK, Row, Deletion, Copy, RunsOK, CopyIsRecord,
        CopyHeld, DeleteTurn, SweepSeen, AuditSeen, Begun, KeepsReplicaCopy
  <2> QED
    BY <2>1, <2>2, <2>3
<1>19. ASSUME MarkOutboxRow PROVE IInv'
  <2>1. RowsOK'
    BY <1>19, FlagType DEF MarkOutboxRow, NextRow, CopyIdle, RowsOK
  <2>2. RowsInv'
    <3>1. UNCHANGED <<row, primary, replica, multipart, lost>>
      BY <1>19 DEF MarkOutboxRow
    <3>2. /\ \A o \in Objects : outbox'[o].stage = outbox[o].stage
          /\ \A o \in Objects : outbox'[o].replicated => \/ outbox[o].replicated
                \/ replica[o] = "full" \/ outbox[o].stage \in {"due", "done"}
      BY <1>19 DEF MarkOutboxRow, RowsOK, Deletion, CopyHeld
    <3>3. OneRow' /\ StoredBegun' /\ MissingIsReal'
      BY <3>1, <3>2 DEF OneRow, StoredBegun, MissingIsReal, Begun
    <3>4. ReplicatedIsHeld'
      BY <3>1, <3>2 DEF ReplicatedIsHeld
    <3> QED
      BY <2>1, <3>3, <3>4
  <2>3. CopyIsRecord' /\ CopyHeld'
    BY <1>19 DEF MarkOutboxRow, NextRow, CopyIdle, CopyIsRecord, CopyHeld
  <2>4. DeleteTurn'
    BY <1>19 DEF MarkOutboxRow, NextRow, CopyIdle, RowsOK, Row, Deletion, Copy,
        DeleteTurn, KeepsReplicaCopy
  <2>5. SweepSeen' /\ AuditSeen'
    BY <1>19 DEF MarkOutboxRow, NextRow, CopyIdle, RowsOK, Row, Deletion, Copy, SweepSeen,
        AuditSeen, Begun
  <2>6. RunsInv'
    BY <1>19, <2>3, <2>4, <2>5 DEF MarkOutboxRow, NextRow, CopyIdle, RunsOK
  <2> QED
    BY <2>1, <2>2, <2>3, <2>4, <2>5, <2>6
<1>20. ASSUME DeletePrimary PROVE IInv'
  <2>1. RowsInv'
    BY <1>20 DEF DeletePrimary, RowsOK, Row, Deletion, Copy, RunsOK, OneRow, StoredBegun,
        ReplicatedIsHeld, MissingIsReal, Begun, DeleteTurn
  <2>2. RunsOK' /\ CopyIsRecord'
    BY <1>20 DEF DeletePrimary, RunsOK, CopyIsRecord
  <2>3. CopyHeld' /\ SweepSeen' /\ AuditSeen'
    BY <1>20 DEF DeletePrimary, CopyHeld, SweepSeen, AuditSeen, Begun
  <2>4. DeleteTurn'
    BY <1>20 DEF DeletePrimary, RunsOK, DeleteTurn, KeepsReplicaCopy
  <2> QED
    BY <2>1, <2>2, <2>3, <2>4
<1>21. ASSUME MarkPrimaryDeleted PROVE IInv'
  <2>1. RowsOK'
    BY <1>21, StageType DEF MarkPrimaryDeleted, DelIdle, RowsOK
  <2>2. RowsInv'
    BY <1>21, <2>1 DEF MarkPrimaryDeleted, DelIdle, RowsOK, Row, Deletion, Copy, RunsOK,
        OneRow, StoredBegun, ReplicatedIsHeld, MissingIsReal, Begun, DeleteTurn
  <2>3. RunsInv'
    BY <1>21 DEF MarkPrimaryDeleted, DelIdle, RowsOK, Row, Deletion, Copy, Audit, RunsOK,
        CopyIsRecord, CopyHeld, DeleteTurn, SweepSeen, AuditSeen, Begun, KeepsReplicaCopy
  <2> QED
    BY <2>1, <2>2, <2>3
<1>22. ASSUME DeleteReplica PROVE IInv'
  <2>1. RowsInv'
    BY <1>22 DEF DeleteReplica, RowsOK, Row, Deletion, Copy, RunsOK, OneRow, StoredBegun,
        ReplicatedIsHeld, MissingIsReal, Begun, DeleteTurn
  <2>2. RunsOK' /\ CopyIsRecord'
    BY <1>22 DEF DeleteReplica, RunsOK, CopyIsRecord
  <2>3. CopyHeld'
    BY <1>22 DEF DeleteReplica, RowsOK, CopyHeld, DeleteTurn
  <2>4. SweepSeen' /\ AuditSeen'
    BY <1>22 DEF DeleteReplica, SweepSeen, AuditSeen, Begun
  <2>5. DeleteTurn'
    BY <1>22 DEF DeleteReplica, RunsOK, DeleteTurn, KeepsReplicaCopy
  <2> QED
    BY <2>1, <2>2, <2>3, <2>4, <2>5
<1>23. ASSUME MarkObjectDeletionDone PROVE IInv'
  <2>1. RowsOK'
    BY <1>23, StageType DEF MarkObjectDeletionDone, DelIdle, RowsOK
  <2>2. RowsInv'
    BY <1>23, <2>1 DEF MarkObjectDeletionDone, DelIdle, RowsOK, Row, Deletion, Copy,
        RunsOK, OneRow, StoredBegun, ReplicatedIsHeld, MissingIsReal, Begun, DeleteTurn
  <2>3. RunsInv'
    BY <1>23 DEF MarkObjectDeletionDone, DelIdle, RowsOK, Row, Deletion, Copy, Audit,
        RunsOK, CopyIsRecord, CopyHeld, DeleteTurn, SweepSeen, AuditSeen, Begun,
        KeepsReplicaCopy
  <2> QED
    BY <2>1, <2>2, <2>3
<1>24. ASSUME NEW t \in Targets, HeadPrimary(t) PROVE IInv'
  <2>1. RowsInv'
    BY <1>24, ReadsKeepRows DEF HeadPrimary, AuditStep, SetAudit
  <2>2. RunsOK'
    BY <1>24, AuditType DEF HeadPrimary, AuditStep, SetAudit, RowsOK, RunsOK, AuditSeen
  <2>3. AuditSeen'
    BY <1>24, <2>2 DEF HeadPrimary, AuditStep, SetAudit, RowsOK, Row, MissingIsReal,
        RunsOK, Audit, Targets, AuditSeen, Begun
  <2>4. RunsInv'
    BY <1>24, <2>2, <2>3 DEF HeadPrimary, AuditStep, SetAudit, CopyIsRecord, CopyHeld,
        DeleteTurn, SweepSeen, Begun, KeepsReplicaCopy
  <2> QED
    BY <2>1, <2>2, <2>3, <2>4
<1>25. ASSUME NEW t \in Targets, HeadReplica(t) PROVE IInv'
  <2>1. RowsInv'
    BY <1>25, ReadsKeepRows DEF HeadReplica, AuditStep, SetAudit
  <2>2. RunsOK'
    BY <1>25, AuditType DEF HeadReplica, AuditStep, SetAudit, RowsOK, RunsOK, AuditSeen
  <2>3. AuditSeen'
    BY <1>25, <2>2 DEF HeadReplica, AuditStep, SetAudit, RowsOK, Row, MissingIsReal,
        RunsOK, Audit, Targets, AuditSeen, Begun
  <2>4. RunsInv'
    BY <1>25, <2>2, <2>3 DEF HeadReplica, AuditStep, SetAudit, CopyIsRecord, CopyHeld,
        DeleteTurn, SweepSeen, Begun, KeepsReplicaCopy
  <2> QED
    BY <2>1, <2>2, <2>3, <2>4
<1>26. ASSUME NEW t \in Targets, HeadReplicaFails(t) PROVE IInv'
  <2>1. RowsInv'
    BY <1>26, ReadsKeepRows DEF HeadReplicaFails, AuditStep, SetAudit
  <2>2. RunsOK'
    BY <1>26, AuditType DEF HeadReplicaFails, AuditStep, SetAudit, RowsOK, RunsOK, AuditSeen
  <2>3. AuditSeen'
    BY <1>26, <2>2 DEF HeadReplicaFails, AuditStep, SetAudit, RowsOK, Row, MissingIsReal,
        RunsOK, Audit, Targets, AuditSeen, Begun
  <2>4. RunsInv'
    BY <1>26, <2>2, <2>3 DEF HeadReplicaFails, AuditStep, SetAudit, CopyIsRecord,
        CopyHeld, DeleteTurn, SweepSeen, Begun, KeepsReplicaCopy
  <2> QED
    BY <2>1, <2>2, <2>3, <2>4
<1>27. ASSUME NEW t \in Targets, CopyBack(t) PROVE IInv'
  <2>1. RowsOK'
    BY <1>27 DEF CopyBack, AuditStep, SetAudit, AuditIdle, Verdict, RowsOK, RunsOK, Copy,
        AuditSeen
  <2>2. RowsInv'
    BY <1>27, <2>1 DEF CopyBack, AuditStep, SetAudit, AuditIdle, Verdict, RowsOK, Row,
        Deletion, Copy, OneRow, StoredBegun, ReplicatedIsHeld, MissingIsReal, Begun,
        AuditSeen
  <2>3. \/ audit'[t] = [audit[t] EXCEPT !.primary = "full"] \/ audit'[t].pc = "idle"
    BY <1>27 DEF CopyBack, AuditStep, SetAudit, AuditIdle, Verdict, RunsOK
  <2>4. RunsOK'
    <3>1. AuditIdle \in Audit
      BY DEF AuditIdle, Audit, Copy
    <3>2. audit[t] \in Audit
      BY DEF RunsOK
    <3>3. [audit[t] EXCEPT !.primary = "full"] \in Audit
      BY <3>2 DEF Audit, Copy
    <3> QED
      BY <1>27, <3>1, <3>3 DEF CopyBack, SetAudit, RunsOK
  <2>5. AuditSeen'
    <3>1. audit'[t].pc # "idle" => audit'[t].primary = "full" /\ audit'[t].object = audit[t].object
      BY <1>27, <2>3 DEF RunsOK, Audit
    <3>2. \A s \in Targets \ {t} : audit'[s] = audit[s]
      BY <1>27 DEF CopyBack, SetAudit, RunsOK
    <3>3. UNCHANGED <<row, outbox, lost>>
      BY <1>27 DEF CopyBack
    <3>4. audit[t].pc # "idle"
      BY <1>27 DEF CopyBack, AuditStep
    <3> QED
      BY <3>1, <3>2, <3>3, <3>4 DEF AuditSeen, Begun
  <2>6. RunsInv'
    BY <1>27, <2>4, <2>5 DEF CopyBack, AuditStep, SetAudit, AuditIdle, Verdict,
        CopyIsRecord, CopyHeld, DeleteTurn, SweepSeen, Begun, KeepsReplicaCopy
  <2> QED
    BY <2>1, <2>2, <2>3, <2>4, <2>5, <2>6
<1>28. ASSUME NEW t \in Targets, RecordObjectAudit(t) PROVE IInv'
  <2>1. RowsOK'
    BY <1>28, StatusType, ReplicatedType DEF RecordObjectAudit, AuditStep, SetAudit,
        AuditIdle, Verdict, RowsOK
  <2>a. UNCHANGED <<outbox, multipart, primary, replica, lost, copy, del, orphan>>
    BY <1>28 DEF RecordObjectAudit
  <2>b. \A o \in Objects : /\ row'[o].replicated => row[o].replicated
                           /\ row'[o].status = "none" <=> row[o].status = "none"
                           /\ row'[o].status = "pending" <=> row[o].status = "pending"
    <3> SUFFICES ASSUME NEW o \in Objects
                 PROVE  /\ row'[o].replicated => row[o].replicated
                        /\ row'[o].status = "none" <=> row[o].status = "none"
                        /\ row'[o].status = "pending" <=> row[o].status = "pending"
      OBVIOUS
    <3>1. row[o] \in Row /\ row \in [Objects -> Row]
      BY DEF RowsOK
    <3>2. CASE Verdict(t, audit[t]) = "replica-missing"
      BY <1>28, <3>1, <3>2 DEF RecordObjectAudit, Row
    <3>3. CASE Verdict(t, audit[t]) # "replica-missing"
      BY <1>28, <3>1, <3>3 DEF RecordObjectAudit, Row
    <3> QED
      BY <3>2, <3>3
  <2>2. OneRow' /\ StoredBegun'
    BY <2>a, <2>b DEF OneRow, StoredBegun, Begun
  <2>3. ReplicatedIsHeld'
    BY <2>a, <2>b DEF ReplicatedIsHeld
  <2>4. MissingIsReal'
    <3> DEFINE o == audit[t].object
    <3>1. o \in Objects
      BY <1>28 DEF RecordObjectAudit, AuditStep, AuditSeen
    <3>2. \A p \in Objects \ {o} : row'[p] = row[p]
      BY <1>28 DEF RecordObjectAudit, RowsOK
    <3>3. CASE Verdict(t, audit[t]) = "replica-missing"
      BY <1>28, <3>1, <3>3 DEF RecordObjectAudit, RowsOK, Row, MissingIsReal
    <3>4. CASE Verdict(t, audit[t]) = "missing"
      <4>1. row[o].status = "none" \/ o \in lost
        BY <1>28, <3>4 DEF RecordObjectAudit, AuditStep, AuditSeen, Verdict, Targets
      <4> QED
        BY <1>28, <3>1, <3>2, <3>4, <4>1 DEF RecordObjectAudit, RowsOK, Row, MissingIsReal
    <3>5. CASE Verdict(t, audit[t]) = "present"
      BY <1>28, <3>1, <3>2, <3>5 DEF RecordObjectAudit, RowsOK, Row, MissingIsReal
    <3>6. Verdict(t, audit[t]) \in {"present", "missing", "recoverable", "replica-missing"}
      BY DEF Verdict, Targets
    <3> QED
      BY <1>28, <3>3, <3>4, <3>5, <3>6 DEF RecordObjectAudit
  <2>5. RowsInv'
    BY <1>28, <2>1, <2>2, <2>3, <2>4 DEF RecordObjectAudit, AuditStep, SetAudit,
        AuditIdle, Verdict
  <2>6. RunsOK'
    BY <1>28, <2>a DEF RecordObjectAudit, SetAudit, AuditIdle, RunsOK, Audit, Copy
  <2>7. CopyIsRecord' /\ CopyHeld' /\ DeleteTurn' /\ SweepSeen'
    BY <2>a, <2>b DEF CopyIsRecord, CopyHeld, DeleteTurn, SweepSeen, Begun, KeepsReplicaCopy
  <2>8. AuditSeen'
    <3>1. audit'[t].pc = "idle" /\ \A s \in Targets \ {t} : audit'[s] = audit[s]
      BY <1>28 DEF RecordObjectAudit, SetAudit, AuditIdle, RunsOK
    <3> QED
      BY <2>a, <2>b, <3>1 DEF AuditSeen, Begun
  <2> QED
    BY <2>5, <2>6, <2>7, <2>8
<1>29. ASSUME ReadKnownFirst PROVE IInv'
  <2>1. RowsInv'
    BY <1>29, ReadsKeepRows DEF ReadKnownFirst, ReadKnown, Known, OrphanIdle
  <2>2. RunsInv'
    BY <1>29 DEF ReadKnownFirst, ReadKnown, Known, OrphanIdle, RowsOK, Row, Deletion,
        StoredBegun, MissingIsReal, Copy, Audit, Targets, RunsOK, CopyIsRecord, CopyHeld,
        DeleteTurn, SweepSeen, AuditSeen, Begun, KeepsReplicaCopy
  <2> QED
    BY <2>1, <2>2
<1>30. ASSUME ReadKnownSecond PROVE IInv'
  <2>1. RowsInv'
    BY <1>30, ReadsKeepRows DEF ReadKnownSecond, ReadKnown, Known, OrphanIdle
  <2>2. RunsInv'
    BY <1>30 DEF ReadKnownSecond, ReadKnown, Known, OrphanIdle, RowsOK, Row, Deletion,
        StoredBegun, MissingIsReal, Copy, Audit, Targets, RunsOK, CopyIsRecord, CopyHeld,
        DeleteTurn, SweepSeen, AuditSeen, Begun, KeepsReplicaCopy
  <2> QED
    BY <2>1, <2>2
<1>31. ASSUME DeleteOrphan PROVE IInv'
  <2>1. RowsInv'
    BY <1>31 DEF DeleteOrphan, OrphanIdle, RowsOK, Row, Deletion, Copy, RunsOK, OneRow,
        StoredBegun, ReplicatedIsHeld, MissingIsReal, Begun, SweepSeen
  <2>2. RunsInv'
    BY <1>31 DEF DeleteOrphan, OrphanIdle, RunsOK, CopyIsRecord, CopyHeld, DeleteTurn,
        SweepSeen, AuditSeen, Begun, KeepsReplicaCopy
  <2> QED
    BY <2>1, <2>2
<1>32. ASSUME StopRun PROVE IInv'
  <2>1. RowsInv'
    BY <1>32, ReadsKeepRows DEF StopRun
  <2>2. CASE StopCopy
    BY <1>32, <2>1, <2>2 DEF StopRun, StopCopy, CopyIdle, RunsOK, CopyIsRecord, CopyHeld,
        DeleteTurn, SweepSeen, AuditSeen, Begun, KeepsReplicaCopy
  <2>3. CASE StopDelete
    BY <1>32, <2>1, <2>3 DEF StopRun, StopDelete, DelIdle, RunsOK, CopyIsRecord, CopyHeld,
        DeleteTurn, SweepSeen, AuditSeen, Begun, KeepsReplicaCopy
  <2>4. CASE StopOrphans
    BY <1>32, <2>1, <2>4 DEF StopRun, StopOrphans, OrphanIdle, RunsOK, CopyIsRecord,
        CopyHeld, DeleteTurn, SweepSeen, AuditSeen, Begun, KeepsReplicaCopy
  <2>5. ASSUME NEW t \in Targets, StopAudit(t) PROVE RunsInv'
    BY <1>32, <2>5 DEF StopRun, StopAudit, SetAudit, AuditIdle, Audit, Copy, RunsOK,
        CopyIsRecord, CopyHeld, DeleteTurn, SweepSeen, AuditSeen, Begun, KeepsReplicaCopy
  <2> QED
    BY <1>32, <2>1, <2>2, <2>3, <2>4, <2>5 DEF StopRun
<1>33. ASSUME UNCHANGED vars PROVE IInv'
  <2>1. RowsInv'
    BY <1>33, ReadsKeepRows DEF vars
  <2> QED
    BY <1>33, <2>1 DEF vars, RunsOK, CopyIsRecord, CopyHeld, DeleteTurn, SweepSeen,
        AuditSeen, Begun, KeepsReplicaCopy
<1> QED
  BY <1>1, <1>2, <1>3, <1>4, <1>5, <1>6, <1>7, <1>8, <1>9, <1>10, <1>11, <1>12, <1>13,
      <1>14, <1>15, <1>16, <1>17, <1>18, <1>19, <1>20, <1>21, <1>22, <1>23, <1>24, <1>25,
      <1>26, <1>27, <1>28, <1>29, <1>30, <1>31, <1>32, <1>33 DEF Next

-----------------------------------------------------------------------------
(* The invariant holds in every state, however the jobs interleave. *)
THEOREM Invariant == ASSUME "short" \notin Faults PROVE Spec => []IInv
  BY InitIInv, StepIInv, PTL DEF Spec

(* markObjectReplicated and retireObjectIfUnreferenced: what an object row *)
(* or a pending outbox row says of the replica is so.                      *)
THEOREM ReplicatedAlwaysHeld == ASSUME "short" \notin Faults PROVE Spec => []ReplicatedIsHeld
<1>1. IInv => ReplicatedIsHeld
  BY DEF IInv, RowsInv
<1> QED
  BY <1>1, Invariant, PTL

(* recordObjectAudit: an object is marked missing only when its copy was   *)
(* lost, and every other live object is in the primary.                    *)
THEOREM MissingAlwaysReal == ASSUME "short" \notin Faults PROVE Spec => []MissingIsReal
<1>1. IInv => MissingIsReal
  BY DEF IInv, RowsInv
<1> QED
  BY <1>1, Invariant, PTL

(* deleteObjects and sweepOrphans: no job takes a copy a row still needs.  *)
THEOREM AlwaysDeletedInTurn == ASSUME "short" \notin Faults PROVE Spec => DeletedInTurn
<1> DEFINE InTurn ==
      \A o \in Objects :
          /\ primary[o] = "full" /\ primary'[o] = "none" /\ lost' = lost =>
                /\ row[o].status = "none"
                /\ KeepsReplicaCopy(o) /\ outbox[o].stage # "none" => replica[o] = "full"
          /\ replica[o] = "full" /\ replica'[o] # "full" => outbox[o].stage = "due"
<1>1. ASSUME IInv, [Next]_vars PROVE InTurn
  <2> USE <1>1, FaultsAssumption DEF IInv, RowsInv, RunsInv, RowsOK, rows, stores, jobs
  <2>1. CASE UNCHANGED <<primary, replica>>
    BY <2>1
  <2>2. ASSUME NEW o \in Objects, CompleteMultipart(o) PROVE InTurn
    BY <2>2 DEF CompleteMultipart
  <2>3. ASSUME NEW o \in Objects, NEW fault \in Faults, Damage(o, fault) PROVE InTurn
    BY <2>3 DEF Damage
  <2>4. ASSUME CopyToReplica PROVE InTurn
    BY <2>4 DEF CopyToReplica, OneRow, Copy
  <2>5. ASSUME DeletePrimary PROVE InTurn
    BY <2>5 DEF DeletePrimary, DeleteTurn, OneRow, ReplicatedIsHeld
  <2>6. ASSUME DeleteReplica PROVE InTurn
    BY <2>6 DEF DeleteReplica, DeleteTurn
  <2>7. ASSUME NEW t \in Targets, CopyBack(t) PROVE InTurn
    BY <2>7 DEF CopyBack, OneRow
  <2>8. ASSUME DeleteOrphan PROVE InTurn
    BY <2>8 DEF DeleteOrphan, SweepSeen
  <2> HIDE DEF InTurn
  <2>9. CASE \E o \in Objects :
          \/ Begin(o) \/ Publish(o) \/ Retire(o) \/ AbortMultipart(o)
          \/ ReadForReport(o) \/ FileReport(o) \/ ReleaseReport(o)
          \/ ListDeletion(o) \/ UndoWindowEnds(o) \/ ListReplicaDeletion(o)
          \/ ListOrphan(o) \/ \E t \in Targets : ListAudit(t, o)
    BY <2>9, <2>1 DEF Begin, Publish, Retire, AbortMultipart, ReadForReport, FileReport,
        ReleaseReport, ListDeletion, UndoWindowEnds, ListReplicaDeletion, ListOrphan, ListAudit
  <2>10. CASE \/ ListLive \/ ListRetired \/ MarkObjectRow \/ MarkOutboxRow
              \/ MarkPrimaryDeleted \/ MarkObjectDeletionDone
              \/ ReadKnownFirst \/ ReadKnownSecond \/ StopRun \/ UNCHANGED vars
    BY <2>10, <2>1 DEF ListLive, ListRetired, MarkObjectRow, MarkOutboxRow, MarkPrimaryDeleted,
        MarkObjectDeletionDone, ReadKnownFirst, ReadKnownSecond, ReadKnown, StopRun, vars
  <2>11. CASE \E t \in Targets : \/ HeadPrimary(t) \/ HeadReplica(t)
                                \/ HeadReplicaFails(t) \/ RecordObjectAudit(t)
    BY <2>11, <2>1 DEF HeadPrimary, HeadReplica, HeadReplicaFails, RecordObjectAudit
  <2> QED
    BY <2>2, <2>3, <2>4, <2>5, <2>6, <2>7, <2>8, <2>9, <2>10, <2>11 DEF Next
<1>2. IInv /\ [Next]_vars => [InTurn]_vars
  BY <1>1
<1> QED
  BY <1>2, Invariant, PTL DEF Spec, DeletedInTurn
-----------------------------------------------------------------------------
(* The types, whatever the stores do: also when copies go short. *)

(* A set of natural numbers has a least one. *)
LEMMA LeastNat ==
    ASSUME NEW S \in SUBSET Nat, S # {}
    PROVE  \E m \in S : \A k \in S : m <= k
<1>1. PICK R : R = OpToRel(<, Nat)
  OBVIOUS
<1>2. IsWellFoundedOn(R, Nat)
  BY <1>1, NatLessThanWellFounded
<1>3. \A k, m \in Nat : k < m => <<k, m>> \in R
  BY <1>1 DEF OpToRel
<1>4. PICK m \in S : \A k \in S : ~(<<k, m>> \in R)
  BY <1>2, WFMin
<1>5. ASSUME NEW k \in S PROVE m <= k
  <2>1. k \in Nat /\ m \in Nat
    OBVIOUS
  <2>2. ~(k < m)
    BY <1>3, <1>4, <2>1
  <2> QED
    BY <2>1, <2>2
<1> QED
  BY <1>4, <1>5

(* The row the copy job takes next is one of those it listed. *)
LEMMA FirstIn ==
    ASSUME NEW S \in SUBSET Objects, S # {}, NEW created \in [Objects -> Nat]
    PROVE  First(S, created) \in S
<1> DEFINE at == {created[o] : o \in S}
<1>1. at \subseteq Nat /\ at # {}
  OBVIOUS
<1>2. PICK m \in at : \A k \in at : m <= k
  BY <1>1, LeastNat
<1>3. PICK o \in S : created[o] = m
  OBVIOUS
<1>4. \A p \in S : created[o] <= created[p]
  BY <1>2, <1>3
<1> QED
  BY <1>3, <1>4 DEF First

LEMMA NextRowType ==
    ASSUME retired \in [Objects -> Nat], NEW live \in SUBSET Objects, NEW dead \in SUBSET Objects
    PROVE  NextRow(live, dead) \in CopyRun
<1>1. CopyIdle \in CopyRun
  BY DEF CopyIdle, CopyRun
<1>2. [p \in Objects |-> p] \in [Objects -> Nat]
  BY ObjectsAssumption
<1>3. CASE live # {}
  <2> DEFINE o == First(live, [p \in Objects |-> p])
  <2>1. o \in live
    BY <1>2, <1>3, FirstIn
  <2> HIDE DEF o
  <2>2. [pc |-> "copy", object |-> o, live |-> live \ {o}, dead |-> dead] \in CopyRun
    BY <2>1 DEF CopyRun
  <2>3. NextRow(live, dead) = [pc |-> "copy", object |-> o, live |-> live \ {o}, dead |-> dead]
    BY <1>3 DEF NextRow, o
  <2> QED
    BY <2>2, <2>3
<1>4. CASE live = {} /\ dead # {}
  <2> DEFINE o == First(dead, retired)
  <2>1. o \in dead
    BY <1>4, FirstIn
  <2> HIDE DEF o
  <2>2. [pc |-> "copy", object |-> o, live |-> live \ {o}, dead |-> dead \ {o}] \in CopyRun
    BY <2>1 DEF CopyRun
  <2>3. NextRow(live, dead) = [pc |-> "copy", object |-> o, live |-> live \ {o}, dead |-> dead \ {o}]
    BY <1>4 DEF NextRow, o
  <2> QED
    BY <2>2, <2>3
<1>5. CASE live = {} /\ dead = {}
  BY <1>1, <1>5 DEF NextRow
<1> QED
  BY <1>3, <1>4, <1>5

(* One step of a run that has a type, after another. *)
LEMMA RunTypes ==
    /\ CopyIdle \in CopyRun
    /\ \A c \in CopyRun : /\ c.live \in SUBSET Objects /\ c.dead \in SUBSET Objects
                          /\ c.object \in Objects \cup {0}
                          /\ [c EXCEPT !.pc = "markObject"] \in CopyRun
                          /\ [c EXCEPT !.pc = "markOutbox"] \in CopyRun
    /\ AuditIdle \in Audit
    /\ \A a \in Audit : a.object \in Objects \cup {0} /\ a.primary \in Copy /\ a.replica \in Copy
BY DEF CopyIdle, CopyRun, AuditIdle, Audit, Copy

(* An audit that is not idle is at an object. *)
AuditAt == \A t \in Targets : audit[t].pc # "idle" => audit[t].object \in Objects

LEMMA TypeStep ==
    ASSUME TypeOK, AuditAt, [Next]_vars
    PROVE  TypeOK'
<1> USE ObjectsAssumption, ReportedAssumption, FaultsAssumption
<1>0. /\ row \in [Objects -> Row] /\ outbox \in [Objects -> Deletion] /\ multipart \subseteq Objects
      /\ primary \in [Objects -> Copy] /\ replica \in [Objects -> Copy] /\ lost \subseteq Objects
      /\ report \in [Objects -> {"none", "reading", "open", "closed"}]
      /\ del \in [pc : {"idle", "delete", "mark", "deleteReplica", "done"},
                  object : Objects \cup {0}, keep : BOOLEAN]
      /\ audit \in [Targets -> Audit]
      /\ orphan \in [pc : {"idle", "first", "second", "delete"}, object : Objects \cup {0}]
      /\ retired \in [Objects -> Nat] /\ copy \in CopyRun
  BY DEF TypeOK, RowsOK, RunsOK
<1> USE DEF rows, stores, jobs
<1>1. ASSUME NEW o \in Objects, Begin(o) \/ Publish(o) PROVE TypeOK'
  <2>1. row' \in [Objects -> Row]
    <3>1. CASE Begin(o)
      BY <1>0, <3>1, StatusType DEF Begin
    <3>2. CASE Publish(o)
      BY <1>0, <3>2, StatusType DEF Publish
    <3> QED
      BY <1>1, <3>1, <3>2
  <2> QED
    BY <1>0, <1>1, <2>1 DEF Begin, Publish, TypeOK, RowsOK, RunsOK
<1>2. ASSUME NEW o \in Objects, CompleteMultipart(o) \/ AbortMultipart(o) PROVE TypeOK'
  <2>1. multipart' \subseteq Objects /\ primary' \in [Objects -> Copy]
    BY <1>0, <1>2 DEF CompleteMultipart, AbortMultipart, Copy
  <2> QED
    BY <1>0, <1>2, <2>1 DEF CompleteMultipart, AbortMultipart, TypeOK, RowsOK, RunsOK
<1>3. ASSUME NEW o \in Objects, Retire(o) PROVE TypeOK'
  <2>1. row' \in [Objects -> Row]
    BY <1>0, <1>3 DEF Retire, NoRow, Row
  <2>2. outbox' \in [Objects -> Deletion]
    <3>1. row[o].replicated \in BOOLEAN
      BY <1>0 DEF Row
    <3> QED
      BY <1>0, <1>3, <3>1 DEF Retire, Deletion
  <2>3. retired' \in [Objects -> Nat]
    <3> DEFINE there == {p \in Objects : outbox[p].stage # "none"}
    <3>1. Cardinality(there) \in Nat
      BY FS_Subset, FS_CardinalityType
    <3> QED
      BY <1>0, <1>3, <3>1 DEF Retire
  <2> QED
    BY <1>0, <1>3, <2>1, <2>2, <2>3 DEF Retire, TypeOK, RowsOK, RunsOK
<1>4. ASSUME NEW o \in Objects, NEW fault \in Faults, Damage(o, fault) PROVE TypeOK'
  <2>1. primary' \in [Objects -> Copy] /\ lost' \subseteq Objects
    BY <1>0, <1>4 DEF Damage, Copy
  <2> QED
    BY <1>0, <1>4, <2>1 DEF Damage, TypeOK, RowsOK, RunsOK
<1>5. ASSUME NEW o \in Objects, ReadForReport(o) \/ FileReport(o) \/ ReleaseReport(o) PROVE TypeOK'
  <2>1. report' \in [Objects -> {"none", "reading", "open", "closed"}]
    BY <1>0, <1>5 DEF ReadForReport, FileReport, ReleaseReport
  <2> QED
    BY <1>0, <1>5, <2>1 DEF ReadForReport, FileReport, ReleaseReport, TypeOK, RowsOK, RunsOK
<1>6. ASSUME NEW o \in Objects, ListDeletion(o) \/ ListReplicaDeletion(o) PROVE TypeOK'
  <2>1. KeepsReplicaCopy(o) \in BOOLEAN
    BY <1>0 DEF KeepsReplicaCopy, Deletion
  <2>2. del' \in [pc : {"idle", "delete", "mark", "deleteReplica", "done"},
                  object : Objects \cup {0}, keep : BOOLEAN]
    <3>1. CASE ListDeletion(o)
      <4>1. \A b \in BOOLEAN : [pc |-> "delete", object |-> o, keep |-> b] \in
               [pc : {"idle", "delete", "mark", "deleteReplica", "done"},
                object : Objects \cup {0}, keep : BOOLEAN]
        OBVIOUS
      <4> QED
        BY <2>1, <3>1, <4>1 DEF ListDeletion
    <3>2. CASE ListReplicaDeletion(o)
      BY <3>2 DEF ListReplicaDeletion
    <3> QED
      BY <1>6, <3>1, <3>2
  <2> QED
    BY <1>0, <1>6, <2>2 DEF ListDeletion, ListReplicaDeletion, TypeOK, RowsOK, RunsOK
<1>7. ASSUME NEW o \in Objects, UndoWindowEnds(o) PROVE TypeOK'
  <2>1. outbox' \in [Objects -> Deletion]
    BY <1>0, <1>7, StageType DEF UndoWindowEnds
  <2> QED
    BY <1>0, <1>7, <2>1 DEF UndoWindowEnds, TypeOK, RowsOK, RunsOK
<1>8. ASSUME NEW o \in Objects, ListOrphan(o) PROVE TypeOK'
  BY <1>0, <1>8 DEF ListOrphan, TypeOK, RowsOK, RunsOK
<1>9. ASSUME NEW o \in Objects, NEW t \in Targets, ListAudit(t, o) PROVE TypeOK'
  <2>1. [AuditIdle EXCEPT !.pc = IF t = "primary" THEN "head" ELSE "headReplica", !.object = o] \in Audit
    BY DEF AuditIdle, Audit, Copy
  <2>2. audit' \in [Targets -> Audit]
    BY <1>0, <1>9, <2>1 DEF ListAudit, SetAudit
  <2> QED
    BY <1>0, <1>9, <2>2 DEF ListAudit, TypeOK, RowsOK, RunsOK
<1>10. ASSUME ListLive \/ ListRetired PROVE TypeOK'
  <2>1. copy' \in CopyRun
    <3>1. CASE ListLive
      BY <3>1 DEF ListLive, CopyIdle, CopyRun
    <3>2. CASE ListRetired
      BY <1>0, <3>2, RunTypes, NextRowType DEF ListRetired
    <3> QED
      BY <1>10, <3>1, <3>2
  <2> QED
    BY <1>0, <1>10, <2>1 DEF ListLive, ListRetired, TypeOK, RowsOK, RunsOK
<1>11. ASSUME CopyToReplica PROVE TypeOK'
  <2>1. copy' \in CopyRun
    <3>1. copy' = CopyIdle \/ copy' = [copy EXCEPT !.pc = "markObject"]
      BY <1>11 DEF CopyToReplica
    <3>2. [copy EXCEPT !.pc = "markObject"] \in CopyRun /\ CopyIdle \in CopyRun
      BY <1>0, RunTypes
    <3> QED
      BY <3>1, <3>2
  <2>2. replica' \in [Objects -> Copy]
    BY <1>0, <1>11 DEF CopyToReplica, Copy
  <2> QED
    BY <1>0, <1>11, <2>1, <2>2 DEF CopyToReplica, TypeOK, RowsOK, RunsOK
<1>12. ASSUME MarkObjectRow PROVE TypeOK'
  <2>1. copy' \in CopyRun
    BY <1>0, <1>12, RunTypes DEF MarkObjectRow
  <2>2. row' \in [Objects -> Row]
    BY <1>0, <1>12, ReplicatedType DEF MarkObjectRow
  <2> QED
    BY <1>0, <1>12, <2>1, <2>2 DEF MarkObjectRow, TypeOK, RowsOK, RunsOK
<1>13. ASSUME MarkOutboxRow PROVE TypeOK'
  <2>1. copy' \in CopyRun
    BY <1>0, <1>13, RunTypes, NextRowType DEF MarkOutboxRow
  <2>2. outbox' \in [Objects -> Deletion]
    BY <1>0, <1>13, FlagType DEF MarkOutboxRow
  <2> QED
    BY <1>0, <1>13, <2>1, <2>2 DEF MarkOutboxRow, TypeOK, RowsOK, RunsOK
<1>14. ASSUME DeletePrimary \/ DeleteReplica PROVE TypeOK'
  <2>1. primary' \in [Objects -> Copy] /\ replica' \in [Objects -> Copy]
    BY <1>0, <1>14 DEF DeletePrimary, DeleteReplica, Copy
  <2>2. del' \in [pc : {"idle", "delete", "mark", "deleteReplica", "done"},
                  object : Objects \cup {0}, keep : BOOLEAN]
    BY <1>0, <1>14 DEF DeletePrimary, DeleteReplica
  <2> QED
    BY <1>0, <1>14, <2>1, <2>2 DEF DeletePrimary, DeleteReplica, TypeOK, RowsOK, RunsOK
<1>15. ASSUME MarkPrimaryDeleted \/ MarkObjectDeletionDone PROVE TypeOK'
  <2>1. /\ \E stage \in {"window", "done"} : outbox' = [outbox EXCEPT ![del.object].stage = stage]
        /\ del' = DelIdle
    BY <1>15 DEF MarkPrimaryDeleted, MarkObjectDeletionDone
  <2>2. outbox' \in [Objects -> Deletion]
    <3>1. PICK stage \in {"window", "done"} : outbox' = [outbox EXCEPT ![del.object].stage = stage]
      BY <2>1
    <3>2. stage \in {"pending", "window", "due", "done"}
      OBVIOUS
    <3> QED
      BY <1>0, <3>1, <3>2, StageType
  <2>3. del' \in [pc : {"idle", "delete", "mark", "deleteReplica", "done"},
                  object : Objects \cup {0}, keep : BOOLEAN]
    BY <2>1 DEF DelIdle
  <2> QED
    BY <1>0, <1>15, <2>2, <2>3 DEF MarkPrimaryDeleted, MarkObjectDeletionDone, TypeOK, RowsOK, RunsOK
<1>16. ASSUME NEW t \in Targets, HeadPrimary(t) \/ HeadReplica(t) \/ HeadReplicaFails(t) PROVE TypeOK'
  <2>1. audit[t] \in Audit /\ audit[t].object \in Objects
    BY <1>0, <1>16 DEF HeadPrimary, HeadReplica, HeadReplicaFails, AuditStep, AuditAt
  <2>2. primary[audit[t].object] \in Copy /\ replica[audit[t].object] \in Copy
    BY <1>0, <2>1
  <2>3. audit' \in [Targets -> Audit]
    <3>1. CASE HeadPrimary(t)
      <4>1. PICK pc \in {"headReplica", "judge"} :
               audit' = [audit EXCEPT ![t] = [audit[t] EXCEPT !.primary = primary[audit[t].object], !.pc = pc]]
        BY <3>1 DEF HeadPrimary, SetAudit
      <4>2. [audit[t] EXCEPT !.primary = primary[audit[t].object], !.pc = pc] \in Audit
        BY <1>0, <2>2, AuditType
      <4> QED
        BY <1>0, <4>1, <4>2
    <3>2. CASE HeadReplica(t)
      <4>1. [audit[t] EXCEPT !.replica = replica[audit[t].object], !.pc = "judge"] \in Audit
        BY <1>0, <2>2, AuditType
      <4> QED
        BY <1>0, <3>2, <4>1 DEF HeadReplica, SetAudit
    <3>3. CASE HeadReplicaFails(t)
      <4>1. [audit[t] EXCEPT !.pc = "judge"] \in Audit
        BY <2>1 DEF Audit
      <4> QED
        BY <1>0, <3>3, <4>1 DEF HeadReplicaFails, SetAudit
    <3> QED
      BY <1>16, <3>1, <3>2, <3>3
  <2> QED
    BY <1>0, <1>16, <2>3 DEF HeadPrimary, HeadReplica, HeadReplicaFails, TypeOK, RowsOK, RunsOK
<1>17. ASSUME NEW t \in Targets, CopyBack(t) PROVE TypeOK'
  <2>1. audit[t] \in Audit /\ audit[t].object \in Objects
    BY <1>0, <1>17 DEF CopyBack, AuditStep, AuditAt
  <2>2. primary' \in [Objects -> Copy]
    BY <1>0, <1>17, <2>1 DEF CopyBack
  <2>3. audit' \in [Targets -> Audit]
    <3>1. [audit[t] EXCEPT !.primary = "full"] \in Audit
      BY <2>1 DEF Audit, Copy
    <3> QED
      BY <1>0, <1>17, <3>1, RunTypes DEF CopyBack, SetAudit
  <2> QED
    BY <1>0, <1>17, <2>2, <2>3 DEF CopyBack, TypeOK, RowsOK, RunsOK
<1>18. ASSUME NEW t \in Targets, RecordObjectAudit(t) PROVE TypeOK'
  <2>1. row' \in [Objects -> Row]
    BY <1>0, <1>18, StatusType, ReplicatedType DEF RecordObjectAudit
  <2>2. audit' \in [Targets -> Audit]
    BY <1>0, <1>18, RunTypes DEF RecordObjectAudit, SetAudit
  <2> QED
    BY <1>0, <1>18, <2>1, <2>2 DEF RecordObjectAudit, TypeOK, RowsOK, RunsOK
<1>19. ASSUME ReadKnownFirst \/ ReadKnownSecond \/ DeleteOrphan PROVE TypeOK'
  <2>1. orphan' \in [pc : {"idle", "first", "second", "delete"}, object : Objects \cup {0}]
    BY <1>0, <1>19 DEF ReadKnownFirst, ReadKnownSecond, ReadKnown, DeleteOrphan, OrphanIdle
  <2>2. primary' \in [Objects -> Copy]
    BY <1>0, <1>19 DEF ReadKnownFirst, ReadKnownSecond, ReadKnown, DeleteOrphan, Copy
  <2> QED
    BY <1>0, <1>19, <2>1, <2>2 DEF ReadKnownFirst, ReadKnownSecond, ReadKnown, DeleteOrphan,
        TypeOK, RowsOK, RunsOK
<1>20. ASSUME StopRun PROVE TypeOK'
  <2>1. copy' \in CopyRun
    BY <1>0, <1>20, RunTypes DEF StopRun, StopCopy, StopDelete, StopOrphans, StopAudit
  <2>2. audit' \in [Targets -> Audit]
    BY <1>0, <1>20, RunTypes DEF StopRun, StopCopy, StopDelete, StopOrphans, StopAudit, SetAudit
  <2>3. /\ del' \in [pc : {"idle", "delete", "mark", "deleteReplica", "done"},
                     object : Objects \cup {0}, keep : BOOLEAN]
        /\ orphan' \in [pc : {"idle", "first", "second", "delete"}, object : Objects \cup {0}]
    <3>1. /\ del' = del \/ del' = DelIdle
          /\ orphan' = orphan \/ orphan' = OrphanIdle
      BY <1>20 DEF StopRun, StopCopy, StopDelete, StopOrphans, StopAudit
    <3>2. /\ DelIdle \in [pc : {"idle", "delete", "mark", "deleteReplica", "done"},
                         object : Objects \cup {0}, keep : BOOLEAN]
          /\ OrphanIdle \in [pc : {"idle", "first", "second", "delete"}, object : Objects \cup {0}]
      BY DEF DelIdle, OrphanIdle
    <3> QED
      BY <1>0, <3>1, <3>2
  <2> QED
    BY <1>0, <1>20, <2>1, <2>2, <2>3 DEF StopRun, TypeOK, RowsOK, RunsOK
<1>21. CASE UNCHANGED vars
  BY <1>21 DEF vars, TypeOK, RowsOK, RunsOK
<1> QED
  BY <1>1, <1>2, <1>3, <1>4, <1>5, <1>6, <1>7, <1>8, <1>9, <1>10, <1>11, <1>12, <1>13, <1>14,
     <1>15, <1>16, <1>17, <1>18, <1>19, <1>20, <1>21 DEF Next

LEMMA AuditAtStep ==
    ASSUME TypeOK, AuditAt, [Next]_vars
    PROVE  AuditAt'
<1>0. audit \in [Targets -> Audit]
  BY DEF TypeOK, RunsOK
<1>1. CASE UNCHANGED audit
  BY <1>1 DEF AuditAt
<1>2. ASSUME NEW t \in Targets, NEW run, SetAudit(t, run), run.pc = "idle" \/ run.object \in Objects
      PROVE  AuditAt'
  BY <1>0, <1>2 DEF SetAudit, AuditAt
<1>3. ASSUME NEW o \in Objects, NEW t \in Targets, ListAudit(t, o) PROVE AuditAt'
  <2> DEFINE run == [AuditIdle EXCEPT !.pc = IF t = "primary" THEN "head" ELSE "headReplica", !.object = o]
  <2>1. SetAudit(t, run) /\ run.object \in Objects
    BY <1>3 DEF ListAudit, AuditIdle
  <2> HIDE DEF run
  <2> QED
    BY <1>2, <2>1
<1>4. ASSUME NEW t \in Targets,
             HeadPrimary(t) \/ HeadReplica(t) \/ HeadReplicaFails(t) \/ CopyBack(t) \/ RecordObjectAudit(t)
      PROVE  AuditAt'
  <2>1. audit[t] \in Audit /\ audit[t].object \in Objects
    BY <1>0, <1>4 DEF AuditAt, HeadPrimary, HeadReplica, HeadReplicaFails, CopyBack,
        RecordObjectAudit, AuditStep
  <2>2. PICK run : SetAudit(t, run) /\ (run.pc = "idle" \/ run.object \in Objects)
    <3>1. \A p, pc, r : /\ [audit[t] EXCEPT !.primary = p, !.pc = pc].object \in Objects
                        /\ [audit[t] EXCEPT !.replica = r, !.pc = pc].object \in Objects
                        /\ [audit[t] EXCEPT !.pc = pc].object \in Objects
                        /\ [audit[t] EXCEPT !.primary = p].object \in Objects
                        /\ AuditIdle.pc = "idle"
      BY <2>1 DEF Audit, AuditIdle
    <3> QED
      BY <1>4, <3>1 DEF HeadPrimary, HeadReplica, HeadReplicaFails, CopyBack, RecordObjectAudit
  <2> QED
    BY <1>2, <2>2
<1>5. ASSUME StopRun PROVE AuditAt'
  <2>1. CASE \E t \in Targets : StopAudit(t)
    <3>1. PICK t \in Targets : SetAudit(t, AuditIdle)
      BY <2>1 DEF StopAudit
    <3>2. AuditIdle.pc = "idle"
      BY DEF AuditIdle
    <3> QED
      BY <1>2, <3>1, <3>2
  <2>2. CASE StopCopy \/ StopDelete \/ StopOrphans
    BY <1>1, <2>2 DEF StopCopy, StopDelete, StopOrphans
  <2> QED
    BY <1>5, <2>1, <2>2 DEF StopRun
<1>6. ASSUME NEW o \in Objects,
             \/ Begin(o) \/ CompleteMultipart(o) \/ Publish(o) \/ Retire(o)
             \/ AbortMultipart(o) \/ \E fault \in Faults : Damage(o, fault)
             \/ ReadForReport(o) \/ FileReport(o) \/ ReleaseReport(o)
             \/ ListDeletion(o) \/ UndoWindowEnds(o) \/ ListReplicaDeletion(o) \/ ListOrphan(o)
      PROVE  AuditAt'
  BY <1>1, <1>6 DEF Begin, CompleteMultipart, Publish, Retire, AbortMultipart, Damage, ReadForReport,
      FileReport, ReleaseReport, ListDeletion, UndoWindowEnds, ListReplicaDeletion, ListOrphan, jobs
<1>7. ASSUME \/ ListLive \/ ListRetired \/ CopyToReplica \/ MarkObjectRow \/ MarkOutboxRow
             \/ DeletePrimary \/ MarkPrimaryDeleted \/ DeleteReplica \/ MarkObjectDeletionDone
             \/ ReadKnownFirst \/ ReadKnownSecond \/ DeleteOrphan \/ UNCHANGED vars
      PROVE  AuditAt'
  BY <1>1, <1>7 DEF ListLive, ListRetired, CopyToReplica, MarkObjectRow, MarkOutboxRow, DeletePrimary,
      MarkPrimaryDeleted, DeleteReplica, MarkObjectDeletionDone, ReadKnownFirst, ReadKnownSecond,
      ReadKnown, DeleteOrphan, vars, jobs
<1> QED
  BY <1>3, <1>4, <1>5, <1>6, <1>7 DEF Next

(* The rows, the copies in both stores and the runs keep their types: the  *)
(* copy job's next row is always one it listed.                            *)
THEOREM TypesAlwaysHold == Spec => []TypeOK
<1>1. Init => TypeOK /\ AuditAt
  <2> SUFFICES ASSUME Init PROVE TypeOK /\ AuditAt
    OBVIOUS
  <2> USE ObjectsAssumption DEF Init, NoRow, NoDeletion, CopyIdle, DelIdle, AuditIdle, OrphanIdle
  <2>1. RowsOK /\ RunsOK
    BY DEF RowsOK, RunsOK, Row, Deletion, Copy, Audit
  <2>2. AuditAt
    BY DEF AuditAt
  <2> QED
    BY <2>1, <2>2 DEF TypeOK, CopyRun
<1>2. TypeOK /\ AuditAt /\ [Next]_vars => (TypeOK /\ AuditAt)'
  BY TypeStep, AuditAtStep
<1> QED
  BY <1>1, <1>2, PTL DEF Spec
=============================================================================
