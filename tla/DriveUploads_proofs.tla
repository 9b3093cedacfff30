------------------------- MODULE DriveUploads_proofs -------------------------
(***************************************************************************)
(* Proofs about DriveUploads, for every set of files, uploads, copies and  *)
(* requests, every size and every allowance.                               *)
(***************************************************************************)
EXTENDS DriveUploads, Sums_proofs, TLAPS

-----------------------------------------------------------------------------
(* The inductive invariant, in named parts. *)

(* A request, the expiry job or the outbox job at work has a target, and   *)
(* what the outbox job works on has an outbox row.                         *)
CallTargets ==
    /\ \A r \in Requests : req[r].pc # "idle" => req[r].upload \in Uploads
    /\ sweep.pc # "idle" => sweep.upload \in Uploads
    /\ drain.pc # "idle" => drain.upload \in Uploads /\ outbox[drain.upload] # "none"

(* What a caller saw whole in the store is still there, unless its outbox  *)
(* row has been written meanwhile.                                         *)
SeenStored ==
    /\ \A r \in Requests : req[r].pc = "finish" /\ req[r].seen = "full" =>
          stored[req[r].upload] = "full" \/ outbox[req[r].upload] # "none"
    /\ sweep.pc = "finish" /\ sweep.seen = "full" =>
          stored[sweep.upload] = "full" \/ outbox[sweep.upload] # "none"

(* The store writes an object once, when it closes the multipart upload. *)
StoredClosed == \A u \in Uploads : stored[u] # "none" => multipart[u] = "closed"

(* An id nobody has begun with names nothing yet. *)
NewIsClean ==
    \A u \in Uploads : upload[u].status = "new" =>
        /\ object[u] = "none" /\ outbox[u] = "none" /\ multipart[u] = "none"
        /\ version[u].status = "none"

(* A live upload has its pending version and object; a conflicted one also *)
(* has its object in the store.                                            *)
LiveRows ==
    \A u \in Uploads : upload[u].status \in Live =>
        /\ object[u] = "pending" /\ outbox[u] = "none"
        /\ upload[u].node \in Files
        /\ version[u].status = "pending"
        /\ version[u].node = upload[u].node /\ version[u].object = u
        /\ upload[u].status = "conflicted" => stored[u] = "full"

(* Version rows: a missing one names no node, a pending one belongs to a   *)
(* live upload, and one that is there has its node's row.                  *)
VersionRows ==
    \A v \in Versions :
        /\ version[v].status = "none" => version[v].node = None
        /\ version[v].status = "pending" => v \in Uploads /\ upload[v].status \in Live
        /\ version[v].status # "none" => version[v].node \in Files /\ HasRow(version[v].node)
        /\ version[v].status = "ready" =>
              version[v].object \in Uploads /\ node[version[v].node].row = "live"

(* The node a live upload made is its own: not visible, and no other       *)
(* version names it.                                                       *)
NewNodeAlone ==
    \A u \in Uploads : upload[u].status \in Live /\ upload[u].newNode =>
        /\ node[upload[u].node].row \in {"pending", "tombstone"}
        /\ \A v \in Versions \ {u} : version[v].node # upload[u].node

(* A node that is not visible yet has no current version. *)
HiddenHasNone == \A f \in Files : node[f].row \in {"none", "pending"} => node[f].current = None

(* The parts about the database and the store, and those about the callers. *)
DataInv ==
    /\ RowsOK /\ StoredClosed /\ NewIsClean
    /\ LiveRows /\ VersionRows /\ NewNodeAlone /\ HiddenHasNone
    /\ ReadyIsStored /\ KeysNamed /\ CurrentAndOneEarlier

CallInv == CallsOK /\ CallTargets /\ SeenStored

IInv == DataInv /\ CallInv

(* A multipart upload that changes at all is closed. *)
MultipartsClose ==
    \A o \in Uploads : multipart'[o] # multipart[o] =>
        multipart[o] = "open" /\ multipart'[o] = "closed"

(* An outbox row is never taken back. *)
OutboxKept == \A o \in Uploads : outbox[o] # "none" => outbox'[o] # "none"

-----------------------------------------------------------------------------
(* The empty workspace satisfies the invariant. *)
LEMMA InitIInv == Init => IInv
<1> SUFFICES ASSUME Init PROVE IInv
  OBVIOUS
<1> USE SizeAssumption, EpochAssumption, NoneAssumption DEF Init, Versions, NoNode, NoVersion, NoUpload, Idle
<1>1. RowsOK
  BY DEF RowsOK, Live, Node, Version, Upload
<1>2. CallsOK
  BY DEF CallsOK, Call
<1>3. CallTargets /\ SeenStored /\ StoredClosed /\ NewIsClean
  BY DEF CallTargets, SeenStored, StoredClosed, NewIsClean
<1>4. LiveRows /\ VersionRows /\ NewNodeAlone /\ HiddenHasNone
  BY DEF LiveRows, VersionRows, NewNodeAlone, HiddenHasNone, Live
<1>5. ReadyIsStored /\ KeysNamed /\ CurrentAndOneEarlier
  BY DEF ReadyIsStored, KeysNamed, CurrentAndOneEarlier
<1> QED
  BY <1>1, <1>2, <1>3, <1>4, <1>5 DEF IInv, DataInv, CallInv

(* A transaction that leaves the store and the callers alone keeps what    *)
(* the callers rely on, as long as no outbox row is taken back.            *)
LEMMA RowsKeepCalls ==
    ASSUME CallInv, OutboxKept, UNCHANGED <<store, req, sweep, drain>>, expired' \subseteq Uploads
    PROVE  CallInv'
  BY DEF CallInv, CallsOK, CallTargets, SeenStored, OutboxKept, store, Call

(* A settled upload row is still one. *)
LEMMA SettledType ==
    ASSUME upload \in [Uploads -> Upload], NEW u \in Uploads,
           NEW s \in {"completed", "aborted", "gone"}
    PROVE  /\ Settled(u, s) \in [Uploads -> Upload]
           /\ Settled(u, s)[u].status = s
           /\ \A w \in Uploads \ {u} : Settled(u, s)[w] = upload[w]
<1>1. upload[u] \in Upload
  OBVIOUS
<1>2. [upload[u] EXCEPT !.status = s] \in Upload
  BY <1>1 DEF Upload
<1>3. /\ [upload[u] EXCEPT !.status = s, !.bytes = 0] \in Upload
      /\ [upload[u] EXCEPT !.status = s, !.bytes = 0].status = s
  BY <1>1, <1>2 DEF Upload
<1> QED
  BY <1>3 DEF Settled

(* releaseUpload on a live upload. *)
LEMMA ReleaseKeeps ==
    ASSUME DataInv, NEW u \in Uploads, upload[u].status \in Live, UNCHANGED store,
           ReleaseUpload(u, upload[u].newNode)
    PROVE  DataInv' /\ OutboxKept
<1> DEFINE f == upload[u].node
<1> DEFINE drop == upload[u].newNode
<1>0. f \in Files /\ drop \in BOOLEAN /\ u \in Versions /\ None \notin Files
  BY NoneAssumption DEF DataInv, LiveRows, RowsOK, Versions, Upload
<1>1. version[u].status = "pending" /\ version[u].node = f /\ version[u].object = u
  BY <1>0 DEF DataInv, LiveRows, RowsOK
<1>2. \A v \in Versions \ {u} : version'[v] = version[v]
  <2>1. CASE drop
    BY <2>1, <1>0, <1>1 DEF ReleaseUpload, DataInv, NewNodeAlone
  <2>2. CASE ~drop
    BY <2>2, <1>0, <1>1 DEF ReleaseUpload, Purged
  <2> QED
    BY <1>0, <2>1, <2>2
<1>3. /\ version'[u].status \in {"none", "purged"}
      /\ version'[u].status = "none" => version'[u].node = None
      /\ version'[u].status = "purged" => ~drop /\ version'[u].node = f
  BY <1>0, <1>1 DEF ReleaseUpload, Purged, NoVersion, DataInv, RowsOK, Version
<1>4. /\ \A g \in Files \ {f} : node'[g] = node[g]
      /\ node'[f] = IF drop THEN NoNode ELSE node[f]
  BY <1>0 DEF ReleaseUpload, DataInv, RowsOK
<1>5. /\ \A w \in Uploads \ {u} : upload'[w] = upload[w]
      /\ upload'[u].status \in {"aborted", "gone"}
  BY <1>0 DEF ReleaseUpload, DataInv, RowsOK, Settled, Upload
<1>6. /\ \A o \in Uploads \ {u} : object'[o] = object[o] /\ outbox'[o] = outbox[o]
      /\ \/ object'[u] = object[u] /\ outbox'[u] = outbox[u]
         \/ object'[u] = "none" /\ outbox'[u] = "pending"
  BY <1>0, <1>1 DEF ReleaseUpload, Retire, Unreferenced, DataInv, RowsOK
<1>7. RowsOK'
  <2>1. node' \in [Files -> Node]
    BY <1>0, EpochAssumption DEF ReleaseUpload, DataInv, RowsOK, NoNode, Node
  <2>2. version' \in [Versions -> Version]
    <3>1. CASE drop
      BY <3>1, <1>0 DEF ReleaseUpload, DataInv, RowsOK, NoVersion, Version
    <3>2. CASE ~drop
      BY <3>2, <1>0 DEF ReleaseUpload, DataInv, RowsOK, Purged, Version
    <3> QED
      BY <1>0, <3>1, <3>2
  <2>3. upload' \in [Uploads -> Upload]
    BY SettledType DEF ReleaseUpload, DataInv, RowsOK
  <2>4. object' \in [Uploads -> {"none", "pending", "ready"}] /\ outbox' \in [Uploads -> {"none", "pending", "done"}]
    BY DEF ReleaseUpload, DataInv, RowsOK, Retire
  <2> QED
    BY <2>1, <2>2, <2>3, <2>4 DEF RowsOK, ReleaseUpload, DataInv
<1>8. NewIsClean' /\ StoredClosed' /\ OutboxKept
  BY <1>2, <1>5, <1>6 DEF DataInv, NewIsClean, StoredClosed, OutboxKept, store, Versions
<1>9. LiveRows'
  BY <1>0, <1>2, <1>5, <1>6 DEF DataInv, LiveRows, Live, store, Versions
<1>10. VersionRows'
  BY <1>0, <1>1, <1>2, <1>3, <1>4, <1>5 DEF DataInv, VersionRows, NewNodeAlone, HasRow, NoNode, Live, Versions
<1>11. HiddenHasNone'
  BY <1>0, <1>4 DEF DataInv, HiddenHasNone, NoNode
<1>14. NewNodeAlone'
  <2> SUFFICES ASSUME NEW w \in Uploads, upload[w].status \in Live, upload[w].newNode, w # u
               PROVE  /\ node'[upload[w].node].row \in {"pending", "tombstone"}
                      /\ \A v \in Versions \ {w} : version'[v].node # upload[w].node
    BY <1>5 DEF NewNodeAlone, Live
  <2>1. upload[w].node \in Files \ {f}
    BY <1>0, <1>1 DEF DataInv, NewNodeAlone, LiveRows
  <2> QED
    BY <1>0, <1>1, <1>2, <1>3, <1>4, <2>1 DEF DataInv, NewNodeAlone
<1>12. KeysNamed'
  BY <1>6 DEF DataInv, KeysNamed, store
<1>15. ReadyIsStored'
  BY <1>0, <1>1, <1>2, <1>3, <1>6 DEF DataInv, ReadyIsStored, LiveRows, VersionRows, store
<1>13. CurrentAndOneEarlier'
  BY <1>0, <1>1, <1>2, <1>3, <1>4 DEF DataInv, CurrentAndOneEarlier, ReadyOf, VersionsOf, NoNode
<1> QED
  BY <1>7, <1>8, <1>9, <1>10, <1>11, <1>12, <1>13, <1>14, <1>15 DEF DataInv

(***************************************************************************)
(* publishUpload of a live upload whose object is in the store, onto its   *)
(* own node or onto a node that did not exist; the node begin made for it  *)
(* may go.                                                                 *)
(***************************************************************************)
LEMMA PublishKeeps ==
    ASSUME DataInv, NEW u \in Uploads, NEW f \in Files, NEW d, UNCHANGED <<dir, store>>,
           upload[u].status \in Live, stored[u] = "full",
           d = node[f].current, node[f].row # "tombstone",
           f = upload[u].node \/ ~HasRow(f),
           PublishUpload(u, f, d),
           node' \in [Files -> Node], node'[f].row = "live", node'[f].current = u,
           \A g \in Files \ {f} : \/ node'[g] = node[g]
                                  \/ /\ g = upload[u].node /\ upload[u].newNode
                                     /\ node'[g] = NoNode,
           upload' \in [Uploads -> Upload], upload'[u].status = "completed",
           \A w \in Uploads \ {u} : upload'[w] = upload[w]
    PROVE  DataInv' /\ OutboxKept
<1> DEFINE older == IF d = None THEN {} ELSE ReadyOf(f) \ {d, u}
<1> DEFINE freed == Unreferenced(older)
<1>0. u \in Versions /\ None \notin Versions /\ None \notin Files
  BY NoneAssumption DEF Versions
<1>1. /\ version[u].status = "pending" /\ version[u].node = upload[u].node
      /\ version[u].object = u /\ object[u] = "pending" /\ outbox[u] = "none"
      /\ upload[u].node \in Files
  BY DEF DataInv, LiveRows
<1>2. older \subseteq ReadyOf(f) /\ u \notin older
  BY <1>1 DEF ReadyOf
<1>3. /\ version'[u].status = "ready" /\ version'[u].node = f /\ version'[u].object = u
      /\ version'[u] \in Version
  <2>1. version[u] \in Version
    BY <1>0 DEF DataInv, RowsOK
  <2>2. version'[u] = [version[u] EXCEPT !.status = "ready", !.node = f]
    BY <1>0 DEF PublishUpload
  <2> QED
    BY <1>1, <2>1, <2>2 DEF Version
<1>4. \A v \in Versions \ {u} :
         /\ version'[v] \in Version
         /\ version'[v].node = version[v].node /\ version'[v].object = version[v].object
         /\ version'[v].status = IF v \in older THEN "purged" ELSE version[v].status
         /\ version[v].superseded \/ v = d => version'[v].superseded
  <2> SUFFICES ASSUME NEW v \in Versions \ {u}
               PROVE  /\ version'[v] \in Version
                      /\ version'[v].node = version[v].node /\ version'[v].object = version[v].object
                      /\ version'[v].status = IF v \in older THEN "purged" ELSE version[v].status
                      /\ version[v].superseded \/ v = d => version'[v].superseded
    OBVIOUS
  <2>1. version[v] \in Version
    BY DEF DataInv, RowsOK
  <2>2. CASE v = d
    BY <2>1, <2>2 DEF PublishUpload, Version
  <2>3. CASE v # d
    BY <2>1, <2>3 DEF PublishUpload, Purged, Version
  <2> QED
    BY <2>2, <2>3
<1>5. u \notin freed
  BY <1>0, <1>1, <1>2 DEF Unreferenced, Kept
<1>6. /\ object'[u] = "ready" /\ outbox'[u] = "none"
      /\ \A o \in Uploads \ {u} :
            /\ object'[o] = IF o \in freed THEN "none" ELSE object[o]
            /\ outbox'[o] = IF o \in freed THEN "pending" ELSE outbox[o]
  BY <1>1, <1>5 DEF PublishUpload
<1>7. RowsOK'
  <2>1. version' \in [Versions -> Version]
    BY <1>3, <1>4 DEF PublishUpload
  <2>2. /\ object' \in [Uploads -> {"none", "pending", "ready"}]
        /\ outbox' \in [Uploads -> {"none", "pending", "done"}]
    BY DEF PublishUpload, DataInv, RowsOK
  <2> QED
    BY <2>1, <2>2 DEF RowsOK, DataInv
<1>8. OutboxKept /\ StoredClosed' /\ KeysNamed'
  BY <1>1, <1>6 DEF OutboxKept, DataInv, StoredClosed, KeysNamed, store
<1>9. NewIsClean'
  BY <1>4, <1>6, <1>0, <1>2 DEF DataInv, NewIsClean, store, Versions, ReadyOf, VersionsOf, Unreferenced
<1>10. LiveRows'
  <2> SUFFICES ASSUME NEW w \in Uploads \ {u}, upload[w].status \in Live
               PROVE  /\ object'[w] = "pending" /\ outbox'[w] = "none"
                      /\ upload[w].node \in Files
                      /\ version'[w].status = "pending"
                      /\ version'[w].node = upload[w].node /\ version'[w].object = w
                      /\ upload[w].status = "conflicted" => stored'[w] = "full"
    BY DEF LiveRows, Live
  <2>1. w \in Versions /\ w \notin older
    BY <1>2 DEF DataInv, LiveRows, Versions, ReadyOf
  <2>2. w \notin freed
    BY <2>1 DEF Unreferenced, Kept, DataInv, LiveRows
  <2> QED
    BY <1>4, <1>6, <2>1, <2>2 DEF DataInv, LiveRows, store
<1>11. \A v \in Versions \ {u} : upload[u].newNode => version[v].node # upload[u].node
  BY DEF DataInv, NewNodeAlone
<1>12. VersionRows'
  BY <1>0, <1>1, <1>3, <1>4, <1>11 DEF DataInv, VersionRows, HasRow, ReadyOf, VersionsOf, Live
<1>13. NewNodeAlone'
  <2> SUFFICES ASSUME NEW w \in Uploads \ {u}, upload[w].status \in Live, upload[w].newNode
               PROVE  /\ node'[upload[w].node].row \in {"pending", "tombstone"}
                      /\ \A v \in Versions \ {w} : version'[v].node # upload[w].node
    BY DEF NewNodeAlone, Live
  <2>1. upload[w].node \in Files /\ upload[w].node # f /\ upload[w].node # upload[u].node
    BY <1>0, <1>1 DEF DataInv, NewNodeAlone, LiveRows, HasRow
  <2> QED
    BY <1>3, <1>4, <2>1 DEF DataInv, NewNodeAlone
<1>14. HiddenHasNone'
  BY DEF DataInv, HiddenHasNone, NoNode
<1>15. ReadyIsStored'
  <2> SUFFICES ASSUME NEW v \in Versions \ {u}, version'[v].status = "ready"
               PROVE  /\ object'[version'[v].object] = "ready"
                      /\ stored'[version'[v].object] = "full"
    BY <1>3, <1>6 DEF ReadyIsStored, store
  <2>1. /\ v \notin older /\ version[v].status = "ready" /\ version[v].object \in Uploads
        /\ version'[v].object = version[v].object
    BY <1>4 DEF DataInv, VersionRows
  <2>2. version[v].object \notin freed
    BY <2>1 DEF Unreferenced, Kept
  <2> QED
    BY <1>6, <2>1, <2>2 DEF DataInv, ReadyIsStored, store
<1>16. CurrentAndOneEarlier'
  <2> SUFFICES ASSUME NEW g \in Files, node'[g].row = "live"
               PROVE  /\ node'[g].current \in ReadyOf(g)'
                      /\ \A v, w \in ReadyOf(g)' \ {node'[g].current} :
                            v = w /\ version'[v].superseded
    BY DEF CurrentAndOneEarlier
  <2>1. CASE g = f
    <3>1. u \in ReadyOf(g)'
      BY <2>1, <1>0, <1>3 DEF ReadyOf, VersionsOf, Kept
    <3>2. \A v \in ReadyOf(g)' \ {u} : v = d /\ version'[v].superseded
      <4> SUFFICES ASSUME NEW v \in ReadyOf(g)', v # u PROVE v = d /\ version'[v].superseded
        OBVIOUS
      <4>1. v \in Versions \ {u} /\ v \notin older /\ v \in ReadyOf(f)
        BY <2>1, <1>4 DEF ReadyOf, VersionsOf, Kept
      <4>2. node[f].row = "live"
        BY <4>1 DEF DataInv, VersionRows, ReadyOf, VersionsOf
      <4>3. d # None
        BY <4>2, <1>0 DEF DataInv, CurrentAndOneEarlier, ReadyOf, VersionsOf
      <4> QED
        BY <4>1, <4>3, <1>4
    <3> QED
      BY <2>1, <3>1, <3>2
  <2>2. CASE g # f
    <3>1. node'[g] = node[g]
      BY <2>2 DEF NoNode
    <3>2. ReadyOf(g)' \subseteq ReadyOf(g)
      BY <2>2, <1>3, <1>4 DEF ReadyOf, VersionsOf, Kept
    <3>3. \A v \in ReadyOf(g) : v # u /\ v \in Versions /\ version[v].node = g
      BY <1>1 DEF ReadyOf, VersionsOf
    <3>4. ReadyOf(g) \subseteq ReadyOf(g)'
      BY <2>2, <1>2, <1>4, <3>3 DEF ReadyOf, VersionsOf, Kept
    <3> QED
      BY <3>1, <3>2, <3>3, <3>4, <1>4 DEF DataInv, CurrentAndOneEarlier
  <2> QED
    BY <2>1, <2>2
<1> QED
  BY <1>7, <1>8, <1>9, <1>10, <1>12, <1>13, <1>14, <1>15, <1>16 DEF DataInv

(* A step that only moves an upload's status between the live ones, to     *)
(* conflicted when its object is in the store.                             *)
LEMMA StatusKeeps ==
    ASSUME DataInv, NEW u \in Uploads, NEW s \in Live, upload[u].status \in Live,
           s = "conflicted" => stored[u] = "full",
           upload' = [upload EXCEPT ![u].status = s],
           UNCHANGED <<dir, node, version, object, outbox, store>>
    PROVE  DataInv' /\ OutboxKept
<1>1. upload[u] \in Upload /\ u \in Versions
  BY DEF DataInv, RowsOK, Versions
<1>2. [upload[u] EXCEPT !.status = s] \in Upload
  BY <1>1 DEF Upload
<1>3. /\ upload' \in [Uploads -> Upload]
      /\ upload'[u].status = s /\ upload'[u].node = upload[u].node
      /\ upload'[u].newNode = upload[u].newNode
      /\ \A w \in Uploads \ {u} : upload'[w] = upload[w]
  BY <1>1, <1>2 DEF DataInv, RowsOK, Upload
<1>4. RowsOK' /\ OutboxKept /\ StoredClosed' /\ KeysNamed' /\ HiddenHasNone' /\ ReadyIsStored'
  BY <1>3 DEF DataInv, RowsOK, OutboxKept, StoredClosed, KeysNamed, HiddenHasNone,
              ReadyIsStored, store
<1>5. NewIsClean' /\ LiveRows'
  BY <1>3 DEF DataInv, NewIsClean, LiveRows, Live, store
<1>6. VersionRows' /\ NewNodeAlone'
  BY <1>1, <1>3 DEF DataInv, VersionRows, NewNodeAlone, Live, HasRow
<1>7. CurrentAndOneEarlier'
  BY DEF DataInv, CurrentAndOneEarlier, ReadyOf, VersionsOf
<1> QED
  BY <1>4, <1>5, <1>6, <1>7 DEF DataInv

(* A step that changes no more of the nodes than keys and the trash mark,  *)
(* and of the folder anything.                                             *)
LEMMA NodesKeep ==
    ASSUME DataInv, UNCHANGED <<version, object, outbox, upload, store>>,
           dir' \in [epoch : 0..MaxEpoch, trashed : BOOLEAN, purged : BOOLEAN],
           node' \in [Files -> Node],
           \A f \in Files : node'[f].row = node[f].row /\ node'[f].current = node[f].current
    PROVE  DataInv' /\ OutboxKept
<1>1. RowsOK' /\ OutboxKept /\ StoredClosed' /\ KeysNamed' /\ HiddenHasNone' /\ ReadyIsStored'
  BY DEF DataInv, RowsOK, OutboxKept, StoredClosed, KeysNamed, HiddenHasNone,
         ReadyIsStored, store
<1>2. NewIsClean' /\ LiveRows'
  BY DEF DataInv, NewIsClean, LiveRows, store
<1>3. VersionRows' /\ NewNodeAlone'
  BY DEF DataInv, VersionRows, NewNodeAlone, LiveRows, HasRow
<1>4. CurrentAndOneEarlier'
  BY DEF DataInv, CurrentAndOneEarlier, ReadyOf, VersionsOf
<1> QED
  BY <1>1, <1>2, <1>3, <1>4 DEF DataInv

(* begin, for a new file and for a new version. *)
LEMMA BeginKeeps ==
    ASSUME DataInv, NEW u \in Uploads, NEW f \in Files, NEW isNew \in BOOLEAN,
           multipart \in [Uploads -> {"none", "open", "closed"}],
           upload[u].status = "new", BeginRows(u, f, isNew), UNCHANGED <<dir, outbox, stored>>,
           IF isNew THEN ~HasRow(f) ELSE node[f].row = "live",
           node' = IF isNew THEN [node EXCEPT ![f] =
                                    [NoNode EXCEPT !.row = "pending", !.epoch = dir.epoch,
                                                   !.parentEpoch = dir.epoch]]
                   ELSE node
    PROVE  DataInv' /\ OutboxKept
<1>0. u \in Versions /\ None \notin Versions /\ None \notin Files
  BY NoneAssumption DEF Versions
<1>1. /\ object[u] = "none" /\ outbox[u] = "none" /\ multipart[u] = "none" /\ stored[u] = "none"
      /\ version[u].status = "none"
  BY DEF DataInv, NewIsClean, StoredClosed
<1>2. /\ upload'[u].status = "open" /\ upload'[u].node = f /\ upload'[u].newNode = isNew
      /\ \A w \in Uploads \ {u} : upload'[w] = upload[w]
      /\ upload' \in [Uploads -> Upload]
  <2> DEFINE row == [status |-> "open", node |-> f, newNode |-> isNew,
                     expected |-> IF isNew THEN None ELSE node[f].current,
                     epoch |-> IF isNew THEN dir.epoch ELSE node[f].epoch,
                     bytes |-> SizeOf[u]]
  <2>1. node[f] \in Node /\ dir.epoch \in 0..MaxEpoch /\ SizeOf[u] \in Nat
    BY SizeAssumption DEF DataInv, RowsOK
  <2>2. row \in Upload
    BY <2>1 DEF Upload, Node, Live
  <2> HIDE DEF row
  <2>3. upload' = [upload EXCEPT ![u] = row]
    BY DEF BeginRows, row
  <2> QED
    BY <2>2, <2>3 DEF DataInv, RowsOK, row
<1>3. /\ version'[u].status = "pending" /\ version'[u].node = f /\ version'[u].object = u
      /\ \A v \in Versions \ {u} : version'[v] = version[v]
      /\ version' \in [Versions -> Version]
  BY <1>0 DEF BeginRows, DataInv, RowsOK, Version
<1>4. /\ node'[f].row = IF isNew THEN "pending" ELSE node[f].row
      /\ node'[f].current = node[f].current
      /\ \A g \in Files \ {f} : node'[g] = node[g]
      /\ node' \in [Files -> Node]
  <2>1. CASE isNew
    BY <2>1, EpochAssumption DEF DataInv, RowsOK, Node, NoNode, HasRow, HiddenHasNone
  <2>2. CASE ~isNew
    BY <2>2 DEF DataInv, RowsOK
  <2> QED
    BY <2>1, <2>2
<1>5. /\ object' = [object EXCEPT ![u] = "pending"]
      /\ multipart' = [multipart EXCEPT ![u] = "open"]
  BY DEF BeginRows
<1>6. RowsOK' /\ OutboxKept /\ StoredClosed' /\ HiddenHasNone'
  BY <1>1, <1>2, <1>3, <1>4, <1>5
     DEF DataInv, RowsOK, OutboxKept, StoredClosed, HiddenHasNone, HasRow
<1>7. KeysNamed' /\ ReadyIsStored'
  BY <1>0, <1>1, <1>3, <1>5 DEF DataInv, RowsOK, KeysNamed, ReadyIsStored, VersionRows
<1>8. NewIsClean' /\ LiveRows'
  BY <1>0, <1>1, <1>2, <1>3, <1>5 DEF DataInv, RowsOK, NewIsClean, LiveRows, Live, Versions
<1>9. VersionRows'
  BY <1>0, <1>2, <1>3, <1>4 DEF DataInv, VersionRows, HasRow, Live
<1>10. NewNodeAlone'
  <2> SUFFICES ASSUME NEW w \in Uploads, upload'[w].status \in Live, upload'[w].newNode
               PROVE  /\ node'[upload'[w].node].row \in {"pending", "tombstone"}
                      /\ \A v \in Versions \ {w} : version'[v].node # upload'[w].node
    BY DEF NewNodeAlone
  <2>1. CASE w = u
    <3>1. \A v \in Versions \ {u} : version[v].node # f
      BY <2>1, <1>0, <1>2 DEF DataInv, VersionRows, HasRow
    <3> QED
      BY <2>1, <3>1, <1>2, <1>3, <1>4
  <2>2. CASE w # u
    <3>1. /\ node[upload[w].node].row \in {"pending", "tombstone"}
          /\ upload[w].node \in Files /\ upload[w].node # f
      BY <2>2, <1>2 DEF DataInv, NewNodeAlone, LiveRows, HasRow
    <3> QED
      BY <2>2, <3>1, <1>2, <1>3, <1>4 DEF DataInv, NewNodeAlone
  <2> QED
    BY <2>1, <2>2
<1>11. CurrentAndOneEarlier'
  BY <1>1, <1>3, <1>4 DEF DataInv, CurrentAndOneEarlier, ReadyOf, VersionsOf
<1> QED
  BY <1>6, <1>7, <1>8, <1>9, <1>10, <1>11 DEF DataInv

(* copyFile. *)
LEMMA CopyKeeps ==
    ASSUME DataInv, NEW f \in Files, NEW g \in Files, NEW c \in Copies, CopyFile(f, c, g)
    PROVE  DataInv' /\ OutboxKept
<1> DEFINE o == version[node[f].current].object
<1>0. c \in Versions /\ c \notin Uploads /\ None \notin Versions /\ None \notin Files
  BY NoneAssumption, DisjointAssumption DEF Versions
<1>1. /\ node[f].current \in Versions /\ o \in Uploads /\ object[o] = "ready"
      /\ stored[o] = "full"
  BY DEF CopyFile, DataInv, CurrentAndOneEarlier, ReadyOf, VersionsOf, ReadyIsStored,
         VersionRows
<1>2. /\ version'[c].status = "ready" /\ version'[c].node = g /\ version'[c].object = o
      /\ \A v \in Versions \ {c} : version'[v] = version[v]
      /\ version' \in [Versions -> Version]
  <2>1. [status |-> "ready", node |-> g, object |-> o, superseded |-> FALSE] \in Version
    BY <1>1 DEF Version
  <2> QED
    BY <1>0, <2>1 DEF CopyFile, DataInv, RowsOK
<1>3. /\ node'[g].row = "live" /\ node'[g].current = c
      /\ \A h \in Files \ {g} : node'[h] = node[h]
      /\ node' \in [Files -> Node]
  <2> DEFINE row == [row |-> "live", current |-> c, epoch |-> dir.epoch,
                     parentEpoch |-> dir.epoch, trashed |-> FALSE]
  <2>1. row \in Node
    BY <1>0 DEF Node, DataInv, RowsOK
  <2> QED
    BY <2>1 DEF CopyFile, DataInv, RowsOK
<1>4. UNCHANGED <<dir, object, outbox, upload, store>> /\ node[g].row = "none"
  BY DEF CopyFile, HasRow, DataInv, RowsOK, Node
<1>5. \A v \in Versions : version[v].node # g
  BY <1>0, <1>4 DEF DataInv, VersionRows, HasRow
<1>6. RowsOK' /\ OutboxKept /\ StoredClosed' /\ KeysNamed' /\ HiddenHasNone'
  BY <1>2, <1>3, <1>4
     DEF DataInv, RowsOK, OutboxKept, StoredClosed, KeysNamed, HiddenHasNone, store
<1>7. ReadyIsStored'
  BY <1>1, <1>2, <1>4 DEF DataInv, ReadyIsStored, store
<1>8. NewIsClean' /\ LiveRows'
  BY <1>0, <1>2, <1>4 DEF DataInv, NewIsClean, LiveRows, Versions, store
<1>9. VersionRows'
  BY <1>0, <1>1, <1>2, <1>3, <1>4 DEF DataInv, VersionRows, HasRow
<1>10. NewNodeAlone'
  BY <1>0, <1>2, <1>3, <1>4 DEF DataInv, NewNodeAlone, LiveRows
<1>11. CurrentAndOneEarlier'
  <2>1. ReadyOf(g)' = {c}
    BY <1>0, <1>2, <1>5 DEF ReadyOf, VersionsOf, Kept
  <2>2. \A h \in Files \ {g} : ReadyOf(h)' = ReadyOf(h)
    <3> SUFFICES ASSUME NEW h \in Files \ {g} PROVE ReadyOf(h)' = ReadyOf(h)
      OBVIOUS
    <3>1. version[c].status = "none"
      BY DEF CopyFile
    <3>2. \A v \in Versions : v \in ReadyOf(h)' <=> v \in ReadyOf(h)
      BY <3>1, <1>0, <1>2 DEF ReadyOf, VersionsOf
    <3> QED
      BY <3>2 DEF ReadyOf, VersionsOf
  <2>3. \A h \in Files : \A v \in ReadyOf(h) : v \in Versions /\ v # c
    BY DEF ReadyOf, VersionsOf, CopyFile
  <2> QED
    BY <1>2, <1>3, <2>1, <2>2, <2>3 DEF DataInv, CurrentAndOneEarlier
<1> QED
  BY <1>6, <1>7, <1>8, <1>9, <1>10, <1>11 DEF DataInv

(* restoreVersion. *)
LEMMA RestoreVersionKeeps ==
    ASSUME DataInv, NEW v \in Versions, RestoreVersion(v)
    PROVE  DataInv' /\ OutboxKept
<1> DEFINE f == version[v].node
<1> DEFINE d == node[f].current
<1>0. f \in Files /\ node[f].row = "live" /\ d \in ReadyOf(f) /\ d # v /\ d \in Versions
  BY DEF RestoreVersion, DataInv, VersionRows, CurrentAndOneEarlier, ReadyOf, VersionsOf
<1>1. /\ \A w \in Versions : /\ version'[w].status = version[w].status
                             /\ version'[w].node = version[w].node
                             /\ version'[w].object = version[w].object
                             /\ w # v /\ version[w].superseded => version'[w].superseded
      /\ version'[d].superseded
      /\ version' \in [Versions -> Version]
  <2>1. version[v] \in Version /\ version[d] \in Version
    BY <1>0 DEF DataInv, RowsOK
  <2>2. /\ version'[d] = [version[d] EXCEPT !.superseded = TRUE]
        /\ version'[v] = [version[v] EXCEPT !.superseded = FALSE]
        /\ \A w \in Versions \ {v, d} : version'[w] = version[w]
    BY <1>0 DEF RestoreVersion, DataInv, RowsOK
  <2>3. version'[d] \in Version /\ version'[v] \in Version
    BY <2>1, <2>2 DEF Version
  <2>4. version' \in [Versions -> Version]
    BY <1>0, <2>2, <2>3 DEF RestoreVersion, DataInv, RowsOK
  <2> QED
    BY <2>1, <2>2, <2>4 DEF Version
<1>2. /\ node'[f].row = "live" /\ node'[f].current = v
      /\ \A h \in Files \ {f} : node'[h] = node[h]
      /\ node' \in [Files -> Node]
  <2>1. node \in [Files -> Node] /\ node[f] \in Node
    BY <1>0 DEF DataInv, RowsOK
  <2>2. /\ [node[f] EXCEPT !.current = v] \in Node
        /\ [node[f] EXCEPT !.current = v].row = node[f].row
        /\ [node[f] EXCEPT !.current = v].current = v
    BY <2>1 DEF Node
  <2>3. node' = [node EXCEPT ![f] = [node[f] EXCEPT !.current = v]]
    BY DEF RestoreVersion
  <2> QED
    BY <1>0, <2>1, <2>2, <2>3
<1>3. UNCHANGED <<dir, object, outbox, upload, store>>
  BY DEF RestoreVersion
<1>4. RowsOK' /\ OutboxKept /\ StoredClosed' /\ KeysNamed' /\ HiddenHasNone' /\ ReadyIsStored'
  BY <1>1, <1>2, <1>3 DEF DataInv, RowsOK, OutboxKept, StoredClosed, KeysNamed,
                          HiddenHasNone, ReadyIsStored, store
<1>5. NewIsClean' /\ LiveRows'
  BY <1>1, <1>3 DEF DataInv, NewIsClean, LiveRows, Versions, store
<1>6. VersionRows'
  BY <1>0, <1>1, <1>2, <1>3 DEF DataInv, VersionRows, HasRow
<1>7. NewNodeAlone'
  BY <1>0, <1>1, <1>2, <1>3 DEF DataInv, NewNodeAlone, LiveRows
<1>8. CurrentAndOneEarlier'
  <2>1. \A g \in Files : ReadyOf(g)' = ReadyOf(g)
    BY <1>1 DEF ReadyOf, VersionsOf
  <2>2. v \in ReadyOf(f)
    BY DEF RestoreVersion, ReadyOf, VersionsOf, Kept
  <2>3. \A w \in ReadyOf(f) : w = v \/ w = d
    BY <1>0, <2>2 DEF DataInv, CurrentAndOneEarlier
  <2>4. \A g \in Files : \A w \in ReadyOf(g) : w \in Versions /\ version[w].node = g
    BY DEF ReadyOf, VersionsOf
  <2> QED
    BY <1>0, <1>1, <1>2, <2>1, <2>2, <2>3, <2>4 DEF DataInv, CurrentAndOneEarlier
<1> QED
  BY <1>4, <1>5, <1>6, <1>7, <1>8 DEF DataInv

(***************************************************************************)
(* Purging a set of kept versions, whose live uploads end with them, with  *)
(* their objects retired where nothing else names them; a node may become  *)
(* a tombstone once none of its ready versions is left.                    *)
(***************************************************************************)
LEMMA PurgeKeeps ==
    ASSUME DataInv, NEW vs \in SUBSET Versions, UNCHANGED <<dir, store>>,
           \A v \in vs : version[v].status \in Kept,
           version' = Purged(vs), Retire(Unreferenced(vs)),
           node' \in [Files -> Node],
           \A f \in Files : /\ node'[f].current = node[f].current
                            /\ node'[f].row = node[f].row \/
                                  (node'[f].row = "tombstone" /\ ReadyOf(f) \subseteq vs
                                   /\ node[f].row # "none")
                            /\ node'[f].row = "live" => node[f].current \notin vs,
           upload' \in [Uploads -> Upload],
           \A u \in Uploads : \/ upload'[u] = upload[u] /\ (u \in vs => upload[u].status \notin Live)
                              \/ u \in vs /\ upload'[u].status = "aborted"
    PROVE  DataInv' /\ OutboxKept
<1> DEFINE freed == Unreferenced(vs)
<1>0. None \notin Versions /\ None \notin Files /\ Uploads \subseteq Versions
  BY NoneAssumption DEF Versions
<1>1. /\ version' \in [Versions -> Version]
      /\ \A v \in vs : version'[v].status = "purged" /\ version'[v].node = version[v].node
      /\ \A v \in Versions \ vs : version'[v] = version[v]
  <2>1. \A v \in vs : /\ version'[v] = [version[v] EXCEPT !.status = "purged"]
                      /\ version[v] \in Version
    BY DEF DataInv, RowsOK, Purged
  <2>2. \A v \in Versions \ vs : version'[v] = version[v] /\ version[v] \in Version
    BY DEF DataInv, RowsOK, Purged
  <2>3. \A v \in vs : /\ version'[v] \in Version
                      /\ version'[v].status = "purged" /\ version'[v].node = version[v].node
    <3> SUFFICES ASSUME NEW v \in vs
                 PROVE  /\ version'[v] \in Version
                        /\ version'[v].status = "purged" /\ version'[v].node = version[v].node
      OBVIOUS
    <3>1. version'[v] = [version[v] EXCEPT !.status = "purged"] /\ version[v] \in Version
      BY <2>1
    <3>2. /\ [version[v] EXCEPT !.status = "purged"] \in Version
          /\ [version[v] EXCEPT !.status = "purged"].status = "purged"
          /\ [version[v] EXCEPT !.status = "purged"].node = version[v].node
      BY <3>1 DEF Version
    <3> QED
      BY <3>1, <3>2
  <2> QED
    BY <2>2, <2>3 DEF Purged
<1>2. /\ \A o \in Uploads \ freed : object'[o] = object[o] /\ outbox'[o] = outbox[o]
      /\ \A o \in freed : o \in Uploads /\ object'[o] = "none" /\ outbox'[o] = "pending"
      /\ object' \in [Uploads -> {"none", "pending", "ready"}]
      /\ outbox' \in [Uploads -> {"none", "pending", "done"}]
  BY DEF Retire, Unreferenced, DataInv, RowsOK
<1>3. RowsOK' /\ OutboxKept /\ StoredClosed' /\ KeysNamed'
  BY <1>1, <1>2 DEF DataInv, RowsOK, OutboxKept, StoredClosed, KeysNamed, store
<1>4. HiddenHasNone'
  BY DEF DataInv, HiddenHasNone
<1>5. NewIsClean'
  BY <1>0, <1>1, <1>2 DEF DataInv, NewIsClean, Unreferenced, Kept, store
<1>6. \A u \in Uploads : upload'[u].status \in Live => upload'[u] = upload[u] /\ u \notin vs
  BY DEF Live
<1>7. LiveRows'
  <2> SUFFICES ASSUME NEW u \in Uploads, upload[u].status \in Live, u \notin vs,
                      upload'[u] = upload[u]
               PROVE  /\ object'[u] = "pending" /\ outbox'[u] = "none"
                      /\ upload[u].node \in Files
                      /\ version'[u].status = "pending"
                      /\ version'[u].node = upload[u].node /\ version'[u].object = u
                      /\ upload[u].status = "conflicted" => stored'[u] = "full"
    BY <1>6 DEF LiveRows
  <2>1. u \notin freed
    BY <1>0 DEF Unreferenced, Kept, DataInv, LiveRows
  <2> QED
    BY <1>0, <1>1, <1>2, <2>1 DEF DataInv, LiveRows, store
<1>8. VersionRows'
  <2> SUFFICES ASSUME NEW v \in Versions
               PROVE  /\ version'[v].status = "none" => version'[v].node = None
                      /\ version'[v].status = "pending" =>
                            v \in Uploads /\ upload'[v].status \in Live
                      /\ version'[v].status # "none" =>
                            version'[v].node \in Files /\ HasRow(version[v].node)'
                      /\ version'[v].status = "ready" =>
                            /\ version'[v].object \in Uploads
                            /\ node'[version[v].node].row = "live"
    BY <1>1 DEF VersionRows, HasRow
  <2>1. CASE v \in vs
    BY <2>1, <1>1 DEF DataInv, VersionRows, HasRow, Kept
  <2>2. CASE v \notin vs
    BY <2>2, <1>1 DEF DataInv, VersionRows, HasRow, ReadyOf, VersionsOf, Kept
  <2> QED
    BY <2>1, <2>2
<1>9. NewNodeAlone'
  <2> SUFFICES ASSUME NEW u \in Uploads, upload[u].status \in Live, upload[u].newNode
               PROVE  /\ node'[upload[u].node].row \in {"pending", "tombstone"}
                      /\ \A v \in Versions \ {u} : version'[v].node # upload[u].node
    BY <1>6 DEF NewNodeAlone
  <2> QED
    BY <1>1 DEF DataInv, NewNodeAlone, LiveRows
<1>10. ReadyIsStored'
  <2> SUFFICES ASSUME NEW v \in Versions \ vs, version[v].status = "ready"
               PROVE  /\ object'[version[v].object] = "ready"
                      /\ stored'[version[v].object] = "full"
    BY <1>1 DEF ReadyIsStored
  <2>1. version[v].object \in Uploads \ freed
    BY DEF Unreferenced, Kept, DataInv, VersionRows
  <2> QED
    BY <1>2, <2>1 DEF DataInv, ReadyIsStored, store
<1>11. CurrentAndOneEarlier'
  <2> SUFFICES ASSUME NEW f \in Files, node'[f].row = "live"
               PROVE  /\ node'[f].current \in ReadyOf(f)'
                      /\ \A v, w \in ReadyOf(f)' \ {node'[f].current} :
                            v = w /\ version'[v].superseded
    BY DEF CurrentAndOneEarlier
  <2>1. node[f].row = "live" /\ node'[f].current = node[f].current /\ node[f].current \notin vs
    OBVIOUS
  <2>2. ReadyOf(f)' \subseteq ReadyOf(f) \ vs
    BY <1>1 DEF ReadyOf, VersionsOf, Kept
  <2>3. node[f].current \in ReadyOf(f)'
    BY <1>1, <2>1 DEF DataInv, CurrentAndOneEarlier, ReadyOf, VersionsOf
  <2>4. \A v \in ReadyOf(f) \ vs : version'[v] = version[v]
    BY <1>1 DEF ReadyOf, VersionsOf
  <2> QED
    BY <2>1, <2>2, <2>3, <2>4 DEF DataInv, CurrentAndOneEarlier
<1> QED
  BY <1>3, <1>4, <1>5, <1>7, <1>8, <1>9, <1>10, <1>11 DEF DataInv

-----------------------------------------------------------------------------
(* The actions. *)

(* finishCompleting, whoever calls it, with an answer of the store that is *)
(* still true of a live upload.                                            *)
LEMMA FinishKeeps ==
    ASSUME DataInv, NEW u \in Uploads, NEW seen, UNCHANGED store, FinishCompleting(u, seen),
           seen = "full" => stored[u] = "full" \/ outbox[u] # "none"
    PROVE  DataInv' /\ OutboxKept
<1>1. CASE UNCHANGED rows
  <2>1. dir' \in [epoch : 0..MaxEpoch, trashed : BOOLEAN, purged : BOOLEAN] /\ node' \in [Files -> Node]
    BY <1>1 DEF DataInv, RowsOK, rows
  <2> QED
    BY <1>1, <2>1, NodesKeep DEF rows
<1>2. CASE Finishable(u) /\ ~Reaches(u, seen) /\ ReleaseUpload(u, upload[u].newNode)
  BY <1>2, ReleaseKeeps DEF Finishable, Live
<1>3. CASE /\ Finishable(u) /\ Reaches(u, seen)
           /\ upload' = [upload EXCEPT ![u].status = "conflicted"]
           /\ UNCHANGED <<dir, node, version, object, outbox, used, reserved>>
  <2>1. upload[u].status \in Live /\ stored[u] = "full"
    BY <1>3 DEF Finishable, Reaches, Live, DataInv, LiveRows
  <2> QED
    BY <1>3, <2>1, StatusKeeps DEF Live
<1>4. CASE LET f == upload[u].node
           IN  /\ Publishes(u, seen)
               /\ PublishUpload(u, f, node[f].current)
               /\ node' = [node EXCEPT ![f].row = "live", ![f].current = u]
               /\ upload' = Settled(u, "completed")
               /\ UNCHANGED dir
  <2> DEFINE f == upload[u].node
  <2>1. upload[u].status \in Live /\ stored[u] = "full" /\ f \in Files /\ node[f].row # "tombstone"
    BY <1>4 DEF Publishes, Finishable, Reaches, ChainPurged, Live, DataInv, LiveRows
  <2>2. /\ node' \in [Files -> Node] /\ node'[f].row = "live" /\ node'[f].current = u
        /\ \A g \in Files \ {f} : node'[g] = node[g]
    <3>1. node[f] \in Node /\ u \in Versions
      BY <2>1 DEF DataInv, RowsOK, Versions
    <3>2. /\ node' = [node EXCEPT ![f] = [node[f] EXCEPT !.row = "live", !.current = u]]
          /\ node \in [Files -> Node]
      BY <1>4, <2>1 DEF DataInv, RowsOK
    <3>3. [node[f] EXCEPT !.row = "live", !.current = u] \in Node
      BY <3>1 DEF Node
    <3> QED
      BY <2>1, <3>1, <3>2, <3>3 DEF Node
  <2>3. /\ upload' \in [Uploads -> Upload] /\ upload'[u].status = "completed"
        /\ \A w \in Uploads \ {u} : upload'[w] = upload[w]
    BY <1>4, SettledType DEF DataInv, RowsOK
  <2> HIDE DEF f
  <2> QED
    BY <1>4, <2>1, <2>2, <2>3, PublishKeeps DEF f
<1> QED
  BY <1>1, <1>2, <1>3, <1>4 DEF FinishCompleting

(* attachUpload, both modes. *)
LEMMA AttachSameNodeKeeps ==
    ASSUME DataInv, NEW u \in Uploads, AttachSameNode(u)
    PROVE  DataInv' /\ OutboxKept
<1> DEFINE f == upload[u].node
<1>1. upload[u].status = "conflicted" /\ upload[u].status \in Live /\ UNCHANGED store
  BY DEF AttachSameNode, Live
<1>2. f \in Files /\ stored[u] = "full"
  BY <1>1 DEF DataInv, LiveRows
<1>3. CASE ReleaseUpload(u, upload[u].newNode)
  BY <1>1, <1>3, ReleaseKeeps
<1>4. CASE /\ ~ChainPurged(f)
           /\ PublishUpload(u, f, node[f].current)
           /\ node' = [node EXCEPT ![f].row = "live", ![f].current = u]
           /\ upload' = [Settled(u, "completed") EXCEPT ![u].epoch = node[f].epoch]
           /\ UNCHANGED dir
  <2>1. /\ node' \in [Files -> Node] /\ node'[f].row = "live" /\ node'[f].current = u
        /\ \A g \in Files \ {f} : node'[g] = node[g]
    <3>1. node[f] \in Node /\ u \in Versions /\ node \in [Files -> Node]
      BY <1>2 DEF DataInv, RowsOK, Versions
    <3>2. node' = [node EXCEPT ![f] = [node[f] EXCEPT !.row = "live", !.current = u]]
      BY <1>2, <1>4, <3>1
    <3>3. [node[f] EXCEPT !.row = "live", !.current = u] \in Node
      BY <3>1 DEF Node
    <3> QED
      BY <1>2, <3>1, <3>2, <3>3 DEF Node
  <2>2. /\ upload' \in [Uploads -> Upload] /\ upload'[u].status = "completed"
        /\ \A w \in Uploads \ {u} : upload'[w] = upload[w]
    <3> DEFINE t == Settled(u, "completed")
    <3>1. /\ t \in [Uploads -> Upload] /\ t[u].status = "completed"
          /\ \A w \in Uploads \ {u} : t[w] = upload[w]
      BY SettledType DEF DataInv, RowsOK
    <3>2. node[f].epoch \in 0..MaxEpoch
      BY <1>2 DEF DataInv, RowsOK, Node
    <3>3. upload' = [t EXCEPT ![u].epoch = node[f].epoch]
      BY <1>4
    <3> HIDE DEF t, f
    <3>4. t[u] \in Upload
      BY <3>1
    <3>5. /\ [t[u] EXCEPT !.epoch = node[f].epoch] \in Upload
          /\ [t[u] EXCEPT !.epoch = node[f].epoch].status = "completed"
      BY <3>1, <3>2, <3>4 DEF Upload
    <3> QED
      BY <3>1, <3>3, <3>5
  <2>3. node[f].row # "tombstone"
    BY <1>4 DEF ChainPurged
  <2> HIDE DEF f
  <2> QED
    BY <1>1, <1>2, <1>4, <2>1, <2>2, <2>3, PublishKeeps DEF f
<1> QED
  BY <1>3, <1>4 DEF AttachSameNode

(* attach, when the upload becomes a new file beside the one it missed. *)
LEMMA AttachSiblingKeeps ==
    ASSUME DataInv, NEW u \in Uploads, NEW g \in Files, AttachSibling(u, g)
    PROVE  DataInv' /\ OutboxKept
<1> DEFINE f == upload[u].node
<1> DEFINE fresh == [NoNode EXCEPT !.row = "live", !.current = u, !.epoch = dir.epoch,
                                   !.parentEpoch = dir.epoch]
<1>1. /\ upload[u].status = "conflicted" /\ upload[u].status \in Live /\ ~HasRow(g)
      /\ PublishUpload(u, g, None) /\ UNCHANGED <<dir, store>>
  BY DEF AttachSibling, Live
<1>2. f \in Files /\ stored[u] = "full" /\ u \in Versions
  BY <1>1 DEF DataInv, LiveRows, Versions
<1>3. node[g].current = None /\ node[g].row # "tombstone"
  BY <1>1 DEF DataInv, HiddenHasNone, HasRow
<1>4. NoNode \in Node
  BY EpochAssumption DEF NoNode, Node
<1>5. fresh \in Node /\ fresh.row = "live" /\ fresh.current = u
  BY <1>2 DEF NoNode, Node, DataInv, RowsOK
<1>6. /\ node' \in [Files -> Node] /\ node'[g] = fresh
      /\ \A h \in Files \ {g} : \/ node'[h] = node[h]
                                \/ h = f /\ upload[u].newNode /\ node'[h] = NoNode
  <2>1. node' = [h \in Files |-> CASE h = g -> fresh
                                  [] h = f /\ upload[u].newNode -> NoNode
                                  [] OTHER -> node[h]]
    BY DEF AttachSibling
  <2>2. g # f
    BY <1>1, <1>2 DEF DataInv, LiveRows, VersionRows
  <2>3. node \in [Files -> Node] /\ upload[u].newNode \in BOOLEAN
    BY DEF DataInv, RowsOK, Upload
  <2> HIDE DEF fresh, f
  <2>4. /\ node'[g] = fresh
        /\ \A h \in Files \ {g} : \/ node'[h] = node[h]
                                  \/ h = f /\ upload[u].newNode /\ node'[h] = NoNode
    BY <2>1, <2>2, <2>3
  <2> QED
    BY <1>4, <1>5, <2>1, <2>3, <2>4
<1>7. /\ upload' \in [Uploads -> Upload] /\ upload'[u].status = "completed"
      /\ \A w \in Uploads \ {u} : upload'[w] = upload[w]
  <2> DEFINE row == [status |-> "completed", node |-> g, newNode |-> TRUE, expected |-> None,
                     epoch |-> dir.epoch, bytes |-> 0]
  <2>1. row \in Upload
    BY DEF Upload, DataInv, RowsOK
  <2>2. upload' = [upload EXCEPT ![u] = row] /\ row.status = "completed"
    BY DEF AttachSibling
  <2> HIDE DEF row
  <2> QED
    BY <2>1, <2>2 DEF DataInv, RowsOK
<1> HIDE DEF fresh
<1> QED
  BY <1>1, <1>2, <1>3, <1>5, <1>6, <1>7, PublishKeeps

(* purgeVersion on a version nobody shows. *)
LEMMA PurgeReadyKeeps ==
    ASSUME DataInv, NEW v \in Versions, PurgeReady(v), version[v].status = "ready",
           node[version[v].node].current # v
    PROVE  DataInv' /\ OutboxKept
<1>1. /\ \A f \in Files : node[f].row = "live" => node[f].current # v
      /\ v \in Uploads => upload[v].status \notin Live
  BY DEF DataInv, CurrentAndOneEarlier, ReadyOf, VersionsOf, LiveRows
<1>2. /\ version' = Purged({v}) /\ Retire(Unreferenced({v}))
      /\ UNCHANGED <<dir, node, upload, store>>
  BY DEF PurgeReady
<1>3. node' \in [Files -> Node] /\ upload' \in [Uploads -> Upload]
  BY <1>2 DEF DataInv, RowsOK
<1>4. {v} \in SUBSET Versions /\ \A w \in {v} : version[w].status \in Kept
  BY DEF Kept
<1> QED
  BY <1>1, <1>2, <1>3, <1>4, PurgeKeeps

(* Closing multipart uploads touches nothing a row depends on. *)
LEMMA ClosingKeeps ==
    ASSUME DataInv, UNCHANGED <<rows, stored>>,
           MultipartsClose
    PROVE  DataInv'
<1>1. RowsOK' /\ VersionRows' /\ NewNodeAlone' /\ HiddenHasNone' /\ CurrentAndOneEarlier'
  BY DEF rows, DataInv, RowsOK, VersionRows, NewNodeAlone, HiddenHasNone,
         CurrentAndOneEarlier, ReadyOf, VersionsOf, HasRow
<1>2. StoredClosed' /\ KeysNamed' /\ NewIsClean' /\ LiveRows' /\ ReadyIsStored'
  BY DEF rows, DataInv, StoredClosed, KeysNamed, NewIsClean, LiveRows, ReadyIsStored,
         MultipartsClose
<1> QED
  BY <1>1, <1>2 DEF DataInv

(* abortMultipart only ever closes a multipart upload. *)
LEMMA AbortCloses ==
    ASSUME NEW u \in Uploads, multipart \in [Uploads -> {"none", "open", "closed"}],
           AbortMultipart(u)
    PROVE  /\ multipart' \in [Uploads -> {"none", "open", "closed"}]
           /\ MultipartsClose
<1>1. multipart' = [multipart EXCEPT ![u] = IF multipart[u] = "open" THEN "closed"
                                            ELSE multipart[u]]
  BY DEF AbortMultipart
<1>2. /\ multipart' \in [Uploads -> {"none", "open", "closed"}]
      /\ multipart'[u] = IF multipart[u] = "open" THEN "closed" ELSE multipart[u]
      /\ \A o \in Uploads \ {u} : multipart'[o] = multipart[o]
  BY <1>1
<1> QED
  BY <1>2 DEF MultipartsClose

(* purgeOne. *)
LEMMA PurgeOneKeeps ==
    ASSUME DataInv, NEW f \in Files, node[f].row # "none", PurgeOne(f)
    PROVE  DataInv' /\ OutboxKept
<1> DEFINE completing == {u \in VersionsOf(f) \cap Uploads :
                version[u].status = "pending" /\ upload[u].status = "completing"}
<1> DEFINE released == {u \in VersionsOf(f) \cap Uploads :
                version[u].status = "pending" /\ upload[u].status \in {"open", "conflicted"}}
<1> DEFINE going == VersionsOf(f) \ completing
<1>1. /\ version' = Purged(going) /\ Retire(Unreferenced(going)) /\ UNCHANGED <<dir, store>>
      /\ node' = [node EXCEPT ![f].row = "tombstone"]
      /\ upload' = [u \in Uploads |->
            IF u \in released THEN [upload[u] EXCEPT !.status = "aborted", !.bytes = 0]
                              ELSE upload[u]]
  BY DEF PurgeOne
<1>2. /\ going \in SUBSET Versions /\ \A v \in going : version[v].status \in Kept
      /\ ReadyOf(f) \subseteq going /\ released \subseteq going
      /\ \A v \in going : version[v].node = f
  BY DEF VersionsOf, ReadyOf
<1>3. /\ node' \in [Files -> Node]
      /\ node'[f].row = "tombstone" /\ node'[f].current = node[f].current
      /\ \A g \in Files \ {f} : node'[g] = node[g]
  <2>1. node[f] \in Node /\ node \in [Files -> Node]
    BY DEF DataInv, RowsOK
  <2>2. /\ [node[f] EXCEPT !.row = "tombstone"] \in Node
        /\ [node[f] EXCEPT !.row = "tombstone"].current = node[f].current
        /\ [node[f] EXCEPT !.row = "tombstone"].row = "tombstone"
    BY <2>1 DEF Node
  <2> QED
    BY <1>1, <2>1, <2>2
<1>4. \A g \in Files \ {f} : node[g].row = "live" => node[g].current \notin going
  BY <1>2 DEF DataInv, CurrentAndOneEarlier, ReadyOf, VersionsOf
<1>5. \A u \in going \cap Uploads : u \in released \/ upload[u].status \notin Live
  <2> SUFFICES ASSUME NEW u \in going \cap Uploads, upload[u].status \in Live PROVE u \in released
    OBVIOUS
  <2>1. version[u].status = "pending"
    BY DEF DataInv, LiveRows
  <2> QED
    BY <2>1 DEF Live
<1>6. /\ upload' \in [Uploads -> Upload]
      /\ \A u \in released : upload'[u].status = "aborted"
      /\ \A u \in Uploads \ released : upload'[u] = upload[u]
  <2>1. \A u \in Uploads : /\ [upload[u] EXCEPT !.status = "aborted", !.bytes = 0] \in Upload
                           /\ [upload[u] EXCEPT !.status = "aborted", !.bytes = 0].status = "aborted"
    <3> SUFFICES ASSUME NEW u \in Uploads
                 PROVE  /\ [upload[u] EXCEPT !.status = "aborted", !.bytes = 0] \in Upload
                        /\ [upload[u] EXCEPT !.status = "aborted", !.bytes = 0].status = "aborted"
      OBVIOUS
    <3>1. upload[u] \in Upload
      BY DEF DataInv, RowsOK
    <3> QED
      BY <3>1 DEF Upload
  <2>2. released \subseteq Uploads /\ upload \in [Uploads -> Upload]
    BY DEF DataInv, RowsOK
  <2> HIDE DEF released
  <2>3. \A u \in Uploads :
          upload'[u] = IF u \in released THEN [upload[u] EXCEPT !.status = "aborted", !.bytes = 0]
                                         ELSE upload[u]
    BY <1>1
  <2>4. \A u \in Uploads : upload'[u] \in Upload
    BY <2>1, <2>2, <2>3
  <2>5. upload' \in [Uploads -> Upload]
    BY <1>1, <2>4
  <2> QED
    BY <2>1, <2>2, <2>3, <2>5
<1> HIDE DEF going, released, completing
<1>7. \A g \in Files : /\ node'[g].current = node[g].current
                       /\ node'[g].row = node[g].row \/
                             (node'[g].row = "tombstone" /\ ReadyOf(g) \subseteq going
                              /\ node[g].row # "none")
                       /\ node'[g].row = "live" => node[g].current \notin going
  BY <1>2, <1>3, <1>4
<1>8. \A u \in Uploads :
          \/ upload'[u] = upload[u] /\ (u \in going => upload[u].status \notin Live)
          \/ u \in going /\ upload'[u].status = "aborted"
  BY <1>2, <1>5, <1>6
<1> QED
  BY <1>1, <1>2, <1>3, <1>6, <1>7, <1>8, PurgeKeeps

(***************************************************************************)
(* Every step keeps the inductive invariant.                               *)
(***************************************************************************)
LEMMA StepIInv == IInv /\ [Next]_vars => IInv'
<1> SUFFICES ASSUME IInv, [Next]_vars PROVE IInv'
  OBVIOUS
<1> USE DEF IInv
<1>0. expired \subseteq Uploads /\ multipart \in [Uploads -> {"none", "open", "closed"}]
  BY DEF CallInv, CallsOK
<1>1. ASSUME NEW u \in Uploads, NEW f \in Files,
             BeginNewFile(u, f) \/ BeginVersion(u, f) \/ AttachSibling(u, f)
      PROVE  IInv'
  <2>1. CASE BeginNewFile(u, f)
    <3>1. DataInv' /\ OutboxKept
      BY <1>0, <2>1, BeginKeeps DEF BeginNewFile
    <3>2. CallInv'
      BY <2>1 DEF BeginNewFile, BeginRows, CallInv, CallsOK, CallTargets, SeenStored
    <3> QED
      BY <3>1, <3>2
  <2>2. CASE BeginVersion(u, f)
    <3>1. DataInv' /\ OutboxKept
      BY <1>0, <2>2, BeginKeeps DEF BeginVersion
    <3>2. CallInv'
      BY <2>2 DEF BeginVersion, BeginRows, CallInv, CallsOK, CallTargets, SeenStored
    <3> QED
      BY <3>1, <3>2
  <2>3. CASE AttachSibling(u, f)
    BY <1>0, <2>3, AttachSiblingKeeps, RowsKeepCalls DEF AttachSibling
  <2> QED
    BY <1>1, <2>1, <2>2, <2>3
<1>2. ASSUME NEW r \in Requests, NEW u \in Uploads, StartCompleting(r, u) \/ AbortUpload(r, u)
      PROVE  IInv'
  <2>1. CASE StartCompleting(r, u)
    <3>1. DataInv' /\ OutboxKept
      BY <2>1, StatusKeeps DEF StartCompleting, Live
    <3>2. CallInv'
      BY <2>1 DEF StartCompleting, CallInv, CallsOK, CallTargets, SeenStored, Call, store
    <3> QED
      BY <3>1, <3>2
  <2>2. CASE AbortUpload(r, u)
    <3>1. DataInv' /\ OutboxKept
      BY <2>2, ReleaseKeeps DEF AbortUpload, Live
    <3>2. CallInv'
      BY <2>2, <3>1 DEF AbortUpload, CallInv, CallsOK, CallTargets, SeenStored, Call, store,
                        OutboxKept
    <3> QED
      BY <3>1, <3>2
  <2> QED
    BY <1>2, <2>1, <2>2
<1>3. ASSUME NEW r \in Requests,
             CompleteMultipart(r) \/ FinishRequest(r) \/ AbortRequest(r) \/ LoseRequest(r)
      PROVE  IInv'
  <2>1. CASE CompleteMultipart(r)
    <3> DEFINE u == req[r].upload
    <3>1. u \in Uploads /\ UNCHANGED <<rows, expired, sweep, drain>>
      BY <2>1 DEF CompleteMultipart, CallInv, CallTargets
    <3>2. /\ multipart' \in [Uploads -> {"none", "open", "closed"}]
          /\ stored' \in [Uploads -> {"none", "full", "short"}]
          /\ \A o \in Uploads \ {u} : stored'[o] = stored[o] /\ multipart'[o] = multipart[o]
          /\ \/ stored'[u] = stored[u] /\ multipart'[u] = multipart[u]
             \/ multipart[u] = "open" /\ multipart'[u] = "closed"
      <4>1. multipart \in [Uploads -> {"none", "open", "closed"}]
            /\ stored \in [Uploads -> {"none", "full", "short"}]
        BY DEF CallInv, CallsOK
      <4>2. \/ multipart[u] # "open" /\ UNCHANGED <<multipart, stored>>
            \/ /\ multipart[u] = "open" /\ multipart' = [multipart EXCEPT ![u] = "closed"]
               /\ \E size \in {"full", "short"} : stored' = [stored EXCEPT ![u] = size]
        BY <2>1 DEF CompleteMultipart, store
      <4> HIDE DEF u
      <4> QED
        BY <3>1, <4>1, <4>2
    <3>3. \A o \in Uploads : stored[o] # "none" => stored'[o] = stored[o]
      BY <3>1, <3>2 DEF DataInv, StoredClosed
    <3>4. DataInv'
      <4>1. RowsOK' /\ VersionRows' /\ NewNodeAlone' /\ HiddenHasNone' /\ CurrentAndOneEarlier'
        BY <3>1 DEF rows, DataInv, RowsOK, VersionRows, NewNodeAlone, HiddenHasNone,
                    CurrentAndOneEarlier, ReadyOf, VersionsOf, HasRow
      <4>2. StoredClosed' /\ KeysNamed'
        BY <3>1, <3>2 DEF rows, DataInv, StoredClosed, KeysNamed
      <4>3. NewIsClean' /\ LiveRows'
        BY <3>1, <3>2, <3>3 DEF rows, DataInv, NewIsClean, LiveRows
      <4>4. ReadyIsStored'
        BY <3>1, <3>3 DEF rows, DataInv, ReadyIsStored, VersionRows
      <4> QED
        BY <4>1, <4>2, <4>3, <4>4 DEF DataInv
    <3>5. CallInv'
      <4>1. /\ req' = [req EXCEPT ![r].pc = "finish", ![r].seen = stored'[u]]
            /\ req[r] \in Call({"idle", "store", "finish", "abort"}) /\ stored'[u] \in {"none", "full", "short"}
        BY <2>1, <3>1, <3>2 DEF CompleteMultipart, CallInv, CallsOK
      <4>2. /\ req'[r].pc = "finish" /\ req'[r].seen = stored'[u] /\ req'[r].upload = u
            /\ req'[r] \in Call({"idle", "store", "finish", "abort"})
            /\ \A q \in Requests \ {r} : req'[q] = req[q]
        BY <4>1 DEF Call, CallInv, CallsOK
      <4>3. CallsOK'
        BY <3>1, <3>2, <4>1, <4>2 DEF CallInv, CallsOK
      <4>4. CallTargets' /\ SeenStored'
        BY <3>1, <3>3, <4>2 DEF CallInv, CallTargets, SeenStored, rows
      <4> QED
        BY <4>3, <4>4 DEF CallInv
    <3> QED
      BY <3>4, <3>5
  <2>2. CASE FinishRequest(r)
    <3>1. /\ req[r].upload \in Uploads
          /\ req[r].seen = "full" => stored[req[r].upload] = "full" \/ outbox[req[r].upload] # "none"
      BY <2>2 DEF FinishRequest, CallInv, CallTargets, SeenStored
    <3>2. DataInv' /\ OutboxKept
      BY <2>2, <3>1, FinishKeeps DEF FinishRequest
    <3>3. CallInv'
      BY <2>2, <3>2 DEF FinishRequest, CallInv, CallsOK, CallTargets, SeenStored, Call, Idle,
                        store, OutboxKept
    <3> QED
      BY <3>2, <3>3
  <2>3. CASE AbortRequest(r)
    <3>1. req[r].upload \in Uploads /\ UNCHANGED <<rows, expired, stored, sweep, drain>>
      BY <2>3 DEF AbortRequest, CallInv, CallTargets
    <3>2. /\ multipart' \in [Uploads -> {"none", "open", "closed"}]
          /\ MultipartsClose
      BY <1>0, <2>3, <3>1, AbortCloses DEF AbortRequest
    <3>3. DataInv'
      BY <3>1, <3>2, ClosingKeeps
    <3>4. CallInv'
      BY <2>3, <3>1, <3>2 DEF AbortRequest, CallInv, CallsOK, CallTargets, SeenStored, Call,
                              Idle, rows
    <3> QED
      BY <3>3, <3>4
  <2>4. CASE LoseRequest(r)
    <3>1. UNCHANGED <<rows, expired, store, sweep, drain>>
      BY <2>4 DEF LoseRequest
    <3>2. DataInv'
      <4>1. rows' = rows /\ stored' = stored /\ multipart' = multipart
        BY <3>1 DEF store
      <4> QED
        BY <4>1, ClosingKeeps DEF MultipartsClose
    <3>3. CallInv'
      BY <2>4, <3>1 DEF LoseRequest, CallInv, CallsOK, CallTargets, SeenStored, Call,
                              Idle, rows, store
    <3> QED
      BY <3>2, <3>3
  <2> QED
    BY <1>3, <2>1, <2>2, <2>3, <2>4
<1>4. ASSUME NEW u \in Uploads, AttachSameNode(u) \/ ListExpired(u) \/ ListDeletion(u)
      PROVE  IInv'
  <2>1. CASE AttachSameNode(u)
    BY <1>0, <2>1, AttachSameNodeKeeps, RowsKeepCalls DEF AttachSameNode
  <2>2. CASE ListExpired(u)
    <3>1. rows' = rows /\ stored' = stored /\ multipart' = multipart /\ UNCHANGED <<req, drain>>
      BY <2>2 DEF ListExpired, store
    <3>2. DataInv'
      BY <3>1, ClosingKeeps DEF MultipartsClose
    <3>3. CallInv'
      BY <2>2, <3>1 DEF ListExpired, CallInv, CallsOK, CallTargets, SeenStored, Call, rows
    <3> QED
      BY <3>2, <3>3
  <2>3. CASE ListDeletion(u)
    <3>1. rows' = rows /\ stored' = stored /\ multipart' = multipart
          /\ UNCHANGED <<req, sweep, expired>>
      BY <2>3 DEF ListDeletion, store
    <3>2. DataInv'
      BY <3>1, ClosingKeeps DEF MultipartsClose
    <3>3. CallInv'
      BY <2>3, <3>1 DEF ListDeletion, CallInv, CallsOK, CallTargets, SeenStored, Call, rows
    <3> QED
      BY <3>2, <3>3
  <2> QED
    BY <1>4, <2>1, <2>2, <2>3
<1>5. CASE SweepStep
  <2>1. CASE HeadExpired
    <3>1. rows' = rows /\ stored' = stored /\ multipart' = multipart
          /\ UNCHANGED <<req, drain, expired>>
      BY <2>1 DEF HeadExpired, store
    <3>2. DataInv'
      BY <3>1, ClosingKeeps DEF MultipartsClose
    <3>3. PICK answer \in {stored[sweep.upload], "none"} :
             sweep' = [sweep EXCEPT !.pc = IF answer = "full" THEN "finish" ELSE "abort",
                                    !.seen = answer]
      BY <2>1 DEF HeadExpired
    <3>4. sweep.upload \in Uploads /\ answer \in {"none", "full", "short"}
          /\ (answer = "full" => stored[sweep.upload] = "full")
          /\ sweep \in Call({"idle", "head", "finish", "abort", "abortMultipart"})
      BY <2>1, <3>3 DEF HeadExpired, CallInv, CallsOK, CallTargets
    <3>5. /\ sweep' \in Call({"idle", "head", "finish", "abort", "abortMultipart"})
          /\ sweep'.upload = sweep.upload /\ sweep'.seen = answer
      BY <3>3, <3>4 DEF Call
    <3>6. CallInv'
      BY <3>1, <3>4, <3>5 DEF CallInv, CallsOK, CallTargets, SeenStored, rows
    <3> QED
      BY <3>2, <3>6
  <2>2. CASE FinishExpired
    <3>1. /\ sweep.upload \in Uploads
          /\ sweep.seen = "full" => stored[sweep.upload] = "full" \/ outbox[sweep.upload] # "none"
          /\ sweep \in Call({"idle", "head", "finish", "abort", "abortMultipart"})
      BY <2>2 DEF FinishExpired, CallInv, CallsOK, CallTargets, SeenStored
    <3>2. DataInv' /\ OutboxKept
      BY <2>2, <3>1, FinishKeeps DEF FinishExpired
    <3>3. /\ sweep' \in Call({"idle", "head", "finish", "abort", "abortMultipart"})
          /\ sweep'.upload = sweep.upload \/ sweep'.pc = "idle"
          /\ sweep'.pc \in {"idle", "abort"}
      BY <2>2, <3>1 DEF FinishExpired, Call, Idle
    <3>4. CallInv'
      BY <2>2, <3>1, <3>2, <3>3 DEF FinishExpired, CallInv, CallsOK, CallTargets, SeenStored,
                                    store, OutboxKept
    <3> QED
      BY <3>2, <3>4
  <2>3. CASE AbortExpired
    <3>1. /\ sweep.upload \in Uploads /\ UNCHANGED <<expired, store, req, drain>>
          /\ sweep \in Call({"idle", "head", "finish", "abort", "abortMultipart"})
      BY <2>3 DEF AbortExpired, CallInv, CallsOK, CallTargets
    <3>2. \/ /\ upload[sweep.upload].status \in Live
             /\ ReleaseUpload(sweep.upload, upload[sweep.upload].newNode)
             /\ sweep' = [sweep EXCEPT !.pc = "abortMultipart"]
          \/ rows' = rows /\ sweep' = Idle
      BY <2>3 DEF AbortExpired
    <3>3. DataInv' /\ OutboxKept
      <4>1. CASE rows' = rows
        BY <3>1, <4>1, ClosingKeeps DEF MultipartsClose, store, rows, OutboxKept
      <4> QED
        BY <3>1, <3>2, <4>1, ReleaseKeeps
    <3>4. /\ sweep' \in Call({"idle", "head", "finish", "abort", "abortMultipart"})
          /\ sweep'.upload = sweep.upload \/ sweep'.pc = "idle"
          /\ sweep'.pc \in {"idle", "abortMultipart"}
      BY <3>1, <3>2 DEF Call, Idle
    <3>5. CallInv'
      BY <3>1, <3>3, <3>4 DEF CallInv, CallsOK, CallTargets, SeenStored, store, OutboxKept
    <3> QED
      BY <3>3, <3>5
  <2>4. CASE AbortExpiredMultipart
    <3>1. sweep.upload \in Uploads /\ UNCHANGED <<rows, expired, stored, req, drain>> /\ sweep' = Idle
      BY <2>4 DEF AbortExpiredMultipart, CallInv, CallTargets
    <3>2. /\ multipart' \in [Uploads -> {"none", "open", "closed"}]
          /\ MultipartsClose
      BY <1>0, <2>4, <3>1, AbortCloses DEF AbortExpiredMultipart
    <3>3. DataInv'
      BY <3>1, <3>2, ClosingKeeps
    <3>4. CallInv'
      BY <3>1, <3>2 DEF CallInv, CallsOK, CallTargets, SeenStored, Call, Idle, rows
    <3> QED
      BY <3>3, <3>4
  <2> QED
    BY <1>5, <2>1, <2>2, <2>3, <2>4 DEF SweepStep
<1>6. CASE DrainStep
  <2>1. /\ drain.upload \in Uploads /\ outbox[drain.upload] # "none"
        /\ object[drain.upload] = "none"
    BY <1>6 DEF DrainStep, DeletePrimary, MarkPrimaryDeleted, CallInv, CallTargets, DataInv,
                KeysNamed
  <2>2. CASE DeletePrimary
    <3>1. /\ rows' = rows /\ multipart' = multipart /\ UNCHANGED <<req, sweep, expired>>
          /\ stored' = [stored EXCEPT ![drain.upload] = "none"]
          /\ drain' = [drain EXCEPT !.pc = "mark"]
      BY <2>2 DEF DeletePrimary
    <3>2. /\ stored' \in [Uploads -> {"none", "full", "short"}]
          /\ stored'[drain.upload] = "none"
          /\ \A o \in Uploads \ {drain.upload} : stored'[o] = stored[o]
      BY <2>1, <3>1 DEF CallInv, CallsOK
    <3>3. DataInv'
      <4>1. RowsOK' /\ VersionRows' /\ NewNodeAlone' /\ HiddenHasNone' /\ CurrentAndOneEarlier'
        BY <3>1 DEF rows, DataInv, RowsOK, VersionRows, NewNodeAlone, HiddenHasNone,
                    CurrentAndOneEarlier, ReadyOf, VersionsOf, HasRow
      <4>2. StoredClosed' /\ KeysNamed'
        BY <2>1, <3>1, <3>2 DEF rows, DataInv, StoredClosed, KeysNamed
      <4>3. NewIsClean' /\ LiveRows'
        BY <2>1, <3>1, <3>2 DEF rows, DataInv, NewIsClean, LiveRows
      <4>4. ReadyIsStored'
        BY <2>1, <3>1, <3>2 DEF rows, DataInv, ReadyIsStored, VersionRows
      <4> QED
        BY <4>1, <4>2, <4>3, <4>4 DEF DataInv
    <3>4. drain' \in Call({"idle", "delete", "mark"}) /\ drain'.upload = drain.upload
      BY <3>1 DEF Call, CallInv, CallsOK
    <3>5. CallInv'
      BY <2>1, <3>1, <3>2, <3>4 DEF CallInv, CallsOK, CallTargets, SeenStored, rows
    <3> QED
      BY <3>3, <3>5
  <2>3. CASE MarkPrimaryDeleted
    <3>1. /\ UNCHANGED <<dir, node, version, object, upload, expired, stored, multipart,
                         req, sweep>>
          /\ outbox' = [outbox EXCEPT ![drain.upload] = "done"] /\ drain' = Idle
      BY <2>3 DEF MarkPrimaryDeleted, store
    <3>2. /\ outbox' \in [Uploads -> {"none", "pending", "done"}]
          /\ outbox'[drain.upload] = "done"
          /\ \A o \in Uploads \ {drain.upload} : outbox'[o] = outbox[o]
      BY <2>1, <3>1 DEF DataInv, RowsOK
    <3>3. DataInv'
      <4>1. RowsOK' /\ VersionRows' /\ NewNodeAlone' /\ HiddenHasNone' /\ CurrentAndOneEarlier'
            /\ ReadyIsStored' /\ StoredClosed'
        BY <3>1, <3>2 DEF DataInv, RowsOK, VersionRows, NewNodeAlone, HiddenHasNone,
                    CurrentAndOneEarlier, ReadyOf, VersionsOf, HasRow, ReadyIsStored, StoredClosed
      <4>2. KeysNamed' /\ NewIsClean' /\ LiveRows'
        BY <2>1, <3>1, <3>2 DEF DataInv, KeysNamed, NewIsClean, LiveRows
      <4> QED
        BY <4>1, <4>2 DEF DataInv
    <3>4. CallInv'
      BY <2>1, <3>1, <3>2 DEF CallInv, CallsOK, CallTargets, SeenStored, Call, Idle
    <3> QED
      BY <3>3, <3>4
  <2> QED
    BY <1>6, <2>2, <2>3 DEF DrainStep
<1>7. CASE LoseWorker
  <2>1. rows' = rows /\ stored' = stored /\ multipart' = multipart /\ UNCHANGED <<req, expired>>
        /\ sweep' = Idle /\ drain' = Idle
    BY <1>7 DEF LoseWorker, store
  <2>2. DataInv'
    BY <2>1, ClosingKeeps DEF MultipartsClose
  <2>3. CallInv'
    BY <2>1 DEF CallInv, CallsOK, CallTargets, SeenStored, Call, Idle, rows
  <2> QED
    BY <2>2, <2>3
<1>8. ASSUME NEW f \in Files, NEW g \in Files, NEW c \in Copies, CopyFile(f, c, g)
      PROVE  IInv'
  BY <1>0, <1>8, CopyKeeps, RowsKeepCalls DEF CopyFile
<1>9. ASSUME NEW v \in Versions, RestoreVersion(v) \/ DiscardVersion(v) \/ SweepSuperseded(v)
      PROVE  IInv'
  <2>1. CASE RestoreVersion(v)
    BY <1>0, <2>1, RestoreVersionKeeps, RowsKeepCalls DEF RestoreVersion
  <2>2. CASE DiscardVersion(v)
    BY <1>0, <2>2, PurgeReadyKeeps, RowsKeepCalls DEF DiscardVersion, PurgeReady
  <2>3. CASE SweepSuperseded(v)
    BY <1>0, <2>3, PurgeReadyKeeps, RowsKeepCalls DEF SweepSuperseded, PurgeReady
  <2> QED
    BY <1>9, <2>1, <2>2, <2>3
<1>10. ASSUME NEW f \in Files, PurgeFile(f) \/ PurgeDescendant(f)
       PROVE  IInv'
  BY <1>0, <1>10, PurgeOneKeeps, RowsKeepCalls DEF PurgeFile, PurgeDescendant, PurgeOne
<1>11. ASSUME NEW f \in Files, TrashFile(f) \/ RestoreFile(f) \/ RotateFile(f)
       PROVE  IInv'
  <2>1. UNCHANGED <<dir, version, object, outbox, upload, expired, store, req, sweep, drain>>
    BY <1>11 DEF TrashFile, RestoreFile, RotateFile
  <2>2. /\ node[f] \in Node /\ node \in [Files -> Node] /\ dir.epoch \in 0..MaxEpoch
        /\ dir' \in [epoch : 0..MaxEpoch, trashed : BOOLEAN, purged : BOOLEAN]
    BY <2>1 DEF DataInv, RowsOK
  <2>3. \/ node' = [node EXCEPT ![f].trashed = TRUE]
        \/ node' = [node EXCEPT ![f].trashed = FALSE]
        \/ node' = [node EXCEPT ![f].epoch = dir.epoch, ![f].parentEpoch = dir.epoch]
    BY <1>11 DEF TrashFile, RestoreFile, RotateFile
  <2>4. /\ node' \in [Files -> Node]
        /\ \A h \in Files : node'[h].row = node[h].row /\ node'[h].current = node[h].current
    <3>1. \A h \in Files \ {f} : node'[h] = node[h]
      BY <2>2, <2>3
    <3>2. node'[f] \in Node /\ node'[f].row = node[f].row /\ node'[f].current = node[f].current
      <4>1. \/ node'[f] = [node[f] EXCEPT !.trashed = TRUE]
            \/ node'[f] = [node[f] EXCEPT !.trashed = FALSE]
            \/ node'[f] = [node[f] EXCEPT !.epoch = dir.epoch, !.parentEpoch = dir.epoch]
        BY <2>2, <2>3
      <4>2. CASE node'[f] = [node[f] EXCEPT !.trashed = TRUE]
        BY <2>2, <4>2 DEF Node
      <4>3. CASE node'[f] = [node[f] EXCEPT !.trashed = FALSE]
        BY <2>2, <4>3 DEF Node
      <4>4. CASE node'[f] = [node[f] EXCEPT !.epoch = dir.epoch, !.parentEpoch = dir.epoch]
        BY <2>2, <4>4 DEF Node
      <4> QED
        BY <4>1, <4>2, <4>3, <4>4
    <3>3. node' = [h \in Files |-> node'[h]]
      BY <2>2, <2>3
    <3> QED
      BY <2>2, <3>1, <3>2, <3>3
  <2>5. DataInv' /\ OutboxKept
    BY <2>1, <2>2, <2>4, NodesKeep
  <2> QED
    BY <1>0, <2>1, <2>5, RowsKeepCalls
<1>12. CASE ChangeDir
  <2>1. UNCHANGED <<node, version, object, outbox, upload, expired, store, req, sweep, drain>>
    BY <1>12 DEF ChangeDir
  <2>2. node' \in [Files -> Node]
        /\ dir' \in [epoch : 0..MaxEpoch, trashed : BOOLEAN, purged : BOOLEAN]
    <3>1. /\ dir \in [epoch : 0..MaxEpoch, trashed : BOOLEAN, purged : BOOLEAN]
          /\ node' \in [Files -> Node]
      BY <2>1 DEF DataInv, RowsOK
    <3>2. CASE dir' = [dir EXCEPT !.trashed = TRUE]
      BY <3>1, <3>2
    <3>3. CASE dir' = [dir EXCEPT !.trashed = FALSE]
      BY <3>1, <3>3
    <3>4. CASE dir' = [dir EXCEPT !.purged = TRUE]
      BY <3>1, <3>4
    <3>5. CASE dir.epoch < MaxEpoch /\ dir' = [dir EXCEPT !.epoch = dir.epoch + 1]
      <4>1. dir.epoch + 1 \in 0..MaxEpoch
        BY <3>1, <3>5, EpochAssumption
      <4> QED
        BY <3>1, <3>5, <4>1
    <3> QED
      BY <1>12, <3>2, <3>3, <3>4, <3>5 DEF ChangeDir, TrashDir, RestoreDir, PurgeDir, RotateDir
  <2>3. DataInv' /\ OutboxKept
    BY <2>1, <2>2, NodesKeep
  <2> QED
    BY <1>0, <2>1, <2>3, RowsKeepCalls
<1>13. CASE UNCHANGED vars
  <2>1. rows' = rows /\ stored' = stored /\ multipart' = multipart
        /\ UNCHANGED <<req, sweep, drain, expired>>
    BY <1>13 DEF vars, store
  <2>2. DataInv'
    BY <2>1, ClosingKeeps DEF MultipartsClose
  <2>3. CallInv'
    BY <2>1 DEF CallInv, CallsOK, CallTargets, SeenStored, rows
  <2> QED
    BY <2>2, <2>3
<1> QED
  BY <1>1, <1>2, <1>3, <1>4, <1>5, <1>6, <1>7, <1>8, <1>9, <1>10, <1>11, <1>12, <1>13 DEF Next

(* The invariant holds in every state of every run. *)
LEMMA Invariance == Spec => []IInv
  BY InitIInv, StepIInv, PTL DEF Spec

-----------------------------------------------------------------------------
(* Theorems. *)

(* A version that may be served always has its whole object in the store,  *)
(* whatever publishing, purging, expiry and the outbox job do meanwhile.   *)
THEOREM ReadyAlwaysStored == Spec => []ReadyIsStored
<1>1. IInv => ReadyIsStored
  BY DEF IInv, DataInv
<1> QED
  BY Invariance, <1>1, PTL

(* Every key the store knows is named by exactly one kind of row, so it is *)
(* always known who may delete it.                                         *)
THEOREM KeysAlwaysNamed == Spec => []KeysNamed
<1>1. IInv => KeysNamed
  BY DEF IInv, DataInv
<1> QED
  BY Invariance, <1>1, PTL

(* A visible file always shows a ready version of its own and keeps at     *)
(* most the one it displaced.                                              *)
THEOREM CurrentAlwaysReady == Spec => []CurrentAndOneEarlier
<1>1. IInv => CurrentAndOneEarlier
  BY DEF IInv, DataInv
<1> QED
  BY Invariance, <1>1, PTL

(* The outbox job never deletes an object that an object row names. *)
THEOREM DeletedOnlyRetired == Spec => OnlyRetiredDeleted
<1>1. IInv /\ [Next]_vars =>
         \A o \in Uploads : stored[o] # "none" /\ stored'[o] = "none" =>
            outbox[o] # "none" /\ object[o] = "none"
  <2> SUFFICES ASSUME IInv, [Next]_vars, NEW o \in Uploads, stored[o] # "none",
                      stored'[o] = "none"
               PROVE  outbox[o] # "none" /\ object[o] = "none"
    OBVIOUS
  <2>1. CASE DeletePrimary
    <3>1. drain.upload \in Uploads /\ outbox[drain.upload] # "none"
      BY <2>1 DEF DeletePrimary, IInv, CallInv, CallTargets
    <3>2. o = drain.upload
      BY <2>1, <3>1 DEF DeletePrimary, IInv, CallInv, CallsOK
    <3> QED
      BY <3>1, <3>2 DEF IInv, DataInv, KeysNamed
  <2>2. ASSUME NEW r \in Requests, CompleteMultipart(r) PROVE FALSE
    <3>1. req[r].upload \in Uploads
      BY <2>2 DEF CompleteMultipart, IInv, CallInv, CallTargets
    <3> QED
      BY <2>2, <3>1 DEF CompleteMultipart, IInv, CallInv, CallsOK, store
  <2>3. CASE stored' = stored
    BY <2>3
  <2>4. stored' = stored \/ DeletePrimary \/ \E r \in Requests : CompleteMultipart(r)
    BY DEF Next, vars, store, BeginNewFile, BeginVersion, AttachSibling, StartCompleting,
           AbortUpload, FinishRequest, AbortRequest, LoseRequest, AttachSameNode, ListExpired,
           ListDeletion, SweepStep, HeadExpired, FinishExpired, AbortExpired,
           AbortExpiredMultipart, DrainStep, MarkPrimaryDeleted, LoseWorker, CopyFile,
           RestoreVersion, DiscardVersion, SweepSuperseded, PurgeReady, PurgeFile,
           PurgeDescendant, PurgeOne, TrashFile, RestoreFile, RotateFile, ChangeDir
  <2> QED
    BY <2>1, <2>2, <2>3, <2>4
<1> QED
  BY Invariance, <1>1, PTL DEF Spec, OnlyRetiredDeleted

(* The part of NoSilentOverwrite about one file and one upload. *)
KeepsWork(f, u) ==
    /\ node[f].row = "live" /\ node'[f].row = "live"
    /\ node'[f].current = u /\ version[u].status = "pending"
    => /\ node[f].current = upload[u].expected
       /\ version'[node[f].current].status = "ready"

(* A step that shows no pending version overwrites nothing. *)
LEMMA QuietKeepsWork ==
    ASSUME DataInv, NEW f \in Files, NEW u \in Uploads,
           \/ node'[f].row # "live"
           \/ node'[f].current = node[f].current
           \/ node'[f].current # u
           \/ node[f].row # "live"
    PROVE  KeepsWork(f, u)
  BY DEF KeepsWork, DataInv, CurrentAndOneEarlier, ReadyOf

(* Publishing onto a node that shows the version the writer began from. *)
LEMMA PublishKeepsWork ==
    ASSUME DataInv, NEW w \in Uploads, NEW f \in Files, NEW u \in Uploads,
           upload[w].status \in Live,
           PublishUpload(w, upload[w].node, node[upload[w].node].current),
           node' = [node EXCEPT ![upload[w].node].row = "live", ![upload[w].node].current = w],
           ~upload[w].newNode => node[upload[w].node].current = upload[w].expected
    PROVE  KeepsWork(f, u)
<1> DEFINE g == upload[w].node
<1>1. g \in Files /\ node \in [Files -> Node] /\ w \in Versions
  BY DEF DataInv, LiveRows, RowsOK, Versions
<1>2. CASE f # g
  BY <1>1, <1>2, QuietKeepsWork
<1>3. CASE f = g /\ (u # w \/ node[f].row # "live")
  <2>1. u # w => node'[f].current # u
    BY <1>1, <1>3 DEF Node
  <2> QED
    BY <1>3, <2>1, QuietKeepsWork
<1>4. CASE f = g /\ u = w /\ node[f].row = "live"
  <2>1. ~upload[w].newNode
    BY <1>4 DEF DataInv, NewNodeAlone
  <2>2. /\ node[f].current \in Versions /\ version[node[f].current].status = "ready"
        /\ version[w].status = "pending" /\ version[node[f].current] \in Version
    BY <1>4 DEF DataInv, CurrentAndOneEarlier, ReadyOf, VersionsOf, LiveRows, RowsOK
  <2>3. version'[node[f].current] = [version[node[f].current] EXCEPT !.superseded = TRUE]
    BY <1>4, <2>2 DEF PublishUpload
  <2>4. version'[node[f].current].status = "ready"
    BY <2>2, <2>3 DEF Version
  <2> QED
    BY <1>4, <2>1, <2>4 DEF KeepsWork
<1> QED
  BY <1>2, <1>3, <1>4

(* releaseUpload publishes nothing, so it overwrites nothing. *)
LEMMA ReleaseKeepsWork ==
    ASSUME DataInv, NEW w \in Uploads, NEW f \in Files, NEW u \in Uploads,
           upload[w].status \in Live, ReleaseUpload(w, upload[w].newNode)
    PROVE  KeepsWork(f, u)
<1>1. upload[w].node \in Files /\ node \in [Files -> Node] /\ upload[w].newNode \in BOOLEAN
  BY DEF DataInv, LiveRows, RowsOK, Upload
<1>2. node'[f] = node[f] \/ node'[f].row # "live"
  BY <1>1 DEF ReleaseUpload, NoNode
<1> QED
  BY <1>2, QuietKeepsWork

(* finishCompleting publishes only over the version begin recorded. *)
LEMMA FinishKeepsWork ==
    ASSUME DataInv, NEW w \in Uploads, NEW seen, NEW f \in Files, NEW u \in Uploads,
           FinishCompleting(w, seen)
    PROVE  KeepsWork(f, u)
<1>1. CASE node' = node
  BY <1>1, QuietKeepsWork
<1>2. CASE Finishable(w) /\ ~Reaches(w, seen) /\ ReleaseUpload(w, upload[w].newNode)
  BY <1>2, ReleaseKeepsWork DEF Finishable, Live
<1>3. CASE LET g == upload[w].node
           IN  /\ Publishes(w, seen)
               /\ PublishUpload(w, g, node[g].current)
               /\ node' = [node EXCEPT ![g].row = "live", ![g].current = w]
               /\ upload' = Settled(w, "completed")
               /\ UNCHANGED dir
  BY <1>3, PublishKeepsWork DEF Publishes, Finishable, Moved, Live
<1> QED
  BY <1>1, <1>2, <1>3 DEF FinishCompleting, rows

(* No step of any actor replaces a version its writer had not seen, and    *)
(* the replaced version stays readable.                                    *)
THEOREM NeverOverwrites == Spec => NoSilentOverwrite
<1>1. ASSUME IInv, [Next]_vars, NEW f \in Files, NEW u \in Uploads
      PROVE  KeepsWork(f, u)
  <2>0. DataInv /\ CallInv
    BY <1>1 DEF IInv
  <2> USE <2>0
  <2>1. ASSUME NEW w \in Uploads, NEW g \in Files, BeginNewFile(w, g) PROVE KeepsWork(f, u)
    <3>1. node'[f] = node[f] \/ node'[f].row # "live"
      BY <2>1 DEF BeginNewFile, NoNode, DataInv, RowsOK
    <3> QED
      BY <3>1, QuietKeepsWork
  <2>2. ASSUME NEW w \in Uploads, NEW g \in Files, AttachSibling(w, g) PROVE KeepsWork(f, u)
    <3>1. \/ node'[f] = node[f] \/ node'[f].row # "live" \/ node[f].row # "live"
      BY <2>2 DEF AttachSibling, NoNode, DataInv, RowsOK, HasRow
    <3> QED
      BY <3>1, QuietKeepsWork
  <2>3. ASSUME NEW w \in Uploads, AttachSameNode(w) PROVE KeepsWork(f, u)
    BY <2>3, PublishKeepsWork, ReleaseKeepsWork DEF AttachSameNode, Live
  <2>4. ASSUME NEW r \in Requests, FinishRequest(r) PROVE KeepsWork(f, u)
    <3>1. req[r].upload \in Uploads
      BY <2>4 DEF FinishRequest, CallInv, CallTargets
    <3> QED
      BY <2>4, <3>1, FinishKeepsWork DEF FinishRequest
  <2>5. CASE FinishExpired
    <3>1. sweep.upload \in Uploads
      BY <2>5 DEF FinishExpired, CallInv, CallTargets
    <3> QED
      BY <2>5, <3>1, FinishKeepsWork DEF FinishExpired
  <2>6. ASSUME NEW r \in Requests, NEW w \in Uploads, AbortUpload(r, w) PROVE KeepsWork(f, u)
    BY <2>6, ReleaseKeepsWork DEF AbortUpload, Live
  <2>7. CASE AbortExpired
    <3>1. sweep.upload \in Uploads
      BY <2>7 DEF AbortExpired, CallInv, CallTargets
    <3>2. CASE upload[sweep.upload].status \in Live
      BY <2>7, <3>1, <3>2, ReleaseKeepsWork DEF AbortExpired
    <3>3. CASE upload[sweep.upload].status \notin Live
      <4>1. node' = node
        BY <2>7, <3>3 DEF AbortExpired, rows
      <4> QED
        BY <4>1, QuietKeepsWork
    <3> QED
      BY <3>2, <3>3
  <2>8. ASSUME NEW g \in Files, NEW h \in Files, NEW c \in Copies, CopyFile(g, c, h)
        PROVE  KeepsWork(f, u)
    <3>1. node'[f] = node[f] \/ node[f].row # "live"
      BY <2>8 DEF CopyFile, HasRow, DataInv, RowsOK
    <3> QED
      BY <3>1, QuietKeepsWork
  <2>9. ASSUME NEW v \in Versions, RestoreVersion(v) PROVE KeepsWork(f, u)
    <3>1. version[v].node \in Files /\ node \in [Files -> Node] /\ version[v].status = "ready"
      BY <2>9 DEF RestoreVersion, DataInv, VersionRows, RowsOK
    <3>2. node'[f] = node[f] \/ node'[f].current = v
      BY <2>9, <3>1 DEF RestoreVersion, Node
    <3>3. CASE node'[f] = node[f]
      BY <3>3, QuietKeepsWork
    <3>4. CASE node'[f].current = v
      BY <3>1, <3>4 DEF KeepsWork
    <3> QED
      BY <3>2, <3>3, <3>4
  <2>10. ASSUME NEW g \in Files, PurgeOne(g) \/ TrashFile(g) \/ RestoreFile(g) \/ RotateFile(g)
         PROVE  KeepsWork(f, u)
    <3>0. /\ node \in [Files -> Node] /\ node[g] \in Node
          /\ \/ node' = [node EXCEPT ![g].row = "tombstone"]
             \/ node' = [node EXCEPT ![g].trashed = TRUE]
             \/ node' = [node EXCEPT ![g].trashed = FALSE]
             \/ node' = [node EXCEPT ![g].epoch = dir.epoch, ![g].parentEpoch = dir.epoch]
      BY <2>10 DEF PurgeOne, TrashFile, RestoreFile, RotateFile, DataInv, RowsOK
    <3>1. node'[f].current = node[f].current
      BY <3>0 DEF Node
    <3> QED
      BY <3>1, QuietKeepsWork
  <2>11. CASE node' = node
    BY <2>11, QuietKeepsWork
  <2>12. \/ \E w \in Uploads, g \in Files : BeginNewFile(w, g) \/ AttachSibling(w, g)
         \/ \E w \in Uploads : AttachSameNode(w)
         \/ \E r \in Requests : FinishRequest(r)
         \/ \E r \in Requests, w \in Uploads : AbortUpload(r, w)
         \/ FinishExpired \/ AbortExpired
         \/ \E g, h \in Files, c \in Copies : CopyFile(g, c, h)
         \/ \E v \in Versions : RestoreVersion(v)
         \/ \E g \in Files : PurgeOne(g) \/ TrashFile(g) \/ RestoreFile(g) \/ RotateFile(g)
         \/ node' = node
    BY <1>1 DEF Next, vars, rows, BeginVersion, StartCompleting, CompleteMultipart,
           AbortRequest, LoseRequest, ListExpired, ListDeletion, SweepStep, HeadExpired,
           AbortExpiredMultipart, DrainStep, DeletePrimary, MarkPrimaryDeleted, LoseWorker,
           DiscardVersion, SweepSuperseded, PurgeReady, PurgeFile, PurgeDescendant, ChangeDir
  <2> QED
    BY <2>1, <2>2, <2>3, <2>4, <2>5, <2>6, <2>7, <2>8, <2>9, <2>10, <2>11, <2>12
<1>2. IInv /\ [Next]_vars => \A f \in Files, u \in Uploads : KeepsWork(f, u)
  BY <1>1
<1> QED
  BY Invariance, <1>2, PTL DEF Spec, NoSilentOverwrite, KeepsWork

(* A completed or aborted upload is never touched again: a second request, *)
(* a retried finish and the jobs' stale listings all find it resolved.     *)
THEOREM ResolvedStays == Spec => ResolvedForGood
<1>1. ASSUME IInv, [Next]_vars, NEW u \in Uploads,
             upload[u].status \in {"completed", "aborted", "gone"}
      PROVE  upload'[u] = upload[u]
  <2>0. /\ upload \in [Uploads -> Upload] /\ upload[u].status \notin Live
        /\ upload[u].status # "new" /\ CallTargets
    BY <1>1 DEF IInv, DataInv, CallInv, RowsOK, Live
  <2>1. ASSUME NEW w \in Uploads, upload[w].status \in Live,
               ReleaseUpload(w, upload[w].newNode)
        PROVE  upload'[u] = upload[u]
    BY <2>0, <2>1 DEF ReleaseUpload, Settled
  <2>2. ASSUME NEW w \in Uploads, NEW seen, FinishCompleting(w, seen)
        PROVE  upload'[u] = upload[u]
    <3>1. CASE Finishable(w)
      <4>1. upload[w].status \in Live /\ w # u
        BY <2>0, <3>1 DEF Finishable, Live
      <4>2. CASE ReleaseUpload(w, upload[w].newNode)
        BY <4>1, <4>2, <2>1
      <4>3. CASE upload' = [upload EXCEPT ![w].status = "conflicted"]
        BY <2>0, <4>1, <4>3
      <4>4. CASE upload' = Settled(w, "completed")
        BY <2>0, <4>1, <4>4 DEF Settled
      <4> QED
        BY <2>2, <3>1, <4>2, <4>3, <4>4 DEF FinishCompleting
    <3>2. CASE ~Finishable(w)
      BY <2>2, <3>2 DEF FinishCompleting, Publishes, rows
    <3> QED
      BY <3>1, <3>2
  <2>3. ASSUME NEW w \in Uploads, NEW f \in Files, BeginNewFile(w, f) \/ BeginVersion(w, f)
        PROVE  upload'[u] = upload[u]
    BY <2>0, <2>3 DEF BeginNewFile, BeginVersion, BeginRows
  <2>4. ASSUME NEW w \in Uploads, NEW f \in Files, AttachSibling(w, f)
        PROVE  upload'[u] = upload[u]
    BY <2>0, <2>4 DEF AttachSibling, Live
  <2>5. ASSUME NEW w \in Uploads, AttachSameNode(w) PROVE upload'[u] = upload[u]
    <3>1. upload[w].status \in Live /\ w # u
      BY <2>0, <2>5 DEF AttachSameNode, Live
    <3>2. \/ ReleaseUpload(w, upload[w].newNode)
          \/ upload' = [Settled(w, "completed") EXCEPT ![w].epoch = node[upload[w].node].epoch]
      BY <2>5 DEF AttachSameNode
    <3> QED
      BY <2>0, <2>1, <3>1, <3>2 DEF Settled
  <2>6. ASSUME NEW r \in Requests, NEW w \in Uploads, StartCompleting(r, w) \/ AbortUpload(r, w)
        PROVE  upload'[u] = upload[u]
    <3>1. CASE StartCompleting(r, w)
      BY <2>0, <3>1 DEF StartCompleting, Live
    <3>2. CASE AbortUpload(r, w)
      BY <3>2, <2>1 DEF AbortUpload, Live
    <3> QED
      BY <2>6, <3>1, <3>2
  <2>7. ASSUME NEW r \in Requests, FinishRequest(r) PROVE upload'[u] = upload[u]
    BY <2>0, <2>2, <2>7 DEF FinishRequest, CallTargets
  <2>8. CASE FinishExpired
    BY <2>0, <2>2, <2>8 DEF FinishExpired, CallTargets
  <2>9. CASE AbortExpired
    <3>1. sweep.upload \in Uploads
      BY <2>0, <2>9 DEF AbortExpired, CallTargets
    <3> QED
      BY <2>1, <2>9, <3>1 DEF AbortExpired, rows
  <2>10. ASSUME NEW f \in Files, PurgeOne(f) PROVE upload'[u] = upload[u]
    <3> DEFINE released == {w \in VersionsOf(f) \cap Uploads :
                version[w].status = "pending" /\ upload[w].status \in {"open", "conflicted"}}
    <3>1. u \notin released
      BY <2>0 DEF Live
    <3>2. upload' = [w \in Uploads |->
            IF w \in released THEN [upload[w] EXCEPT !.status = "aborted", !.bytes = 0]
                              ELSE upload[w]]
      BY <2>10 DEF PurgeOne
    <3> HIDE DEF released
    <3> QED
      BY <3>1, <3>2
  <2>11. \/ \E w \in Uploads, f \in Files :
               BeginNewFile(w, f) \/ BeginVersion(w, f) \/ AttachSibling(w, f)
         \/ \E r \in Requests, w \in Uploads : StartCompleting(r, w) \/ AbortUpload(r, w)
         \/ \E w \in Uploads : AttachSameNode(w)
         \/ \E r \in Requests : FinishRequest(r)
         \/ FinishExpired \/ AbortExpired
         \/ \E f \in Files : PurgeOne(f)
         \/ upload' = upload
    BY <1>1 DEF Next, vars, rows, CompleteMultipart, AbortRequest, LoseRequest, ListExpired,
           ListDeletion, SweepStep, HeadExpired, AbortExpiredMultipart, DrainStep,
           DeletePrimary, MarkPrimaryDeleted, LoseWorker, CopyFile, RestoreVersion,
           DiscardVersion, SweepSuperseded, PurgeReady, PurgeFile, PurgeDescendant,
           TrashFile, RestoreFile, RotateFile, ChangeDir
  <2> QED
    BY <2>3, <2>4, <2>5, <2>6, <2>7, <2>8, <2>9, <2>10, <2>11
<1>2. IInv /\ [Next]_vars =>
         \A u \in Uploads : upload[u].status \in {"completed", "aborted", "gone"} =>
            upload'[u] = upload[u]
  BY <1>1
<1> QED
  BY Invariance, <1>2, PTL DEF Spec, ResolvedForGood

-----------------------------------------------------------------------------
(* The accounting. *)

(* The versions that take storage, and the uploads that reserve it. *)
ReadySet == {v \in Versions : version[v].status = "ready"}
LiveSet == {u \in Uploads : upload[u].status \in Live}

(* A live upload has its size reserved, any other nothing. *)
BytesHeld ==
    \A u \in Uploads : upload[u].bytes = IF upload[u].status \in Live THEN SizeOf[u] ELSE 0

(* The inductive invariant of the accounting. *)
AccountInv == AccountingExact /\ BytesHeld /\ WithinAllowance

(* AccountingExact, one counter at a time. *)
UsedExact == used = Bytes(ReadySet)
ReservedExact == reserved = SumOf(SizeOf, LiveSet)

(* What a set of ready versions takes. *)
LEMMA ReadyBytes ==
    ASSUME DataInv, NEW S \in SUBSET ReadySet
    PROVE  Bytes(S) \in Nat /\ Bytes(S) <= Bytes(ReadySet) /\ Bytes(ReadySet) \in Nat
           /\ Bytes(S) = SumOf([v \in ReadySet |-> SizeOf[version[v].object]], S)
<1> DEFINE weight == [v \in ReadySet |-> SizeOf[version[v].object]]
<1>1. IsFiniteSet(ReadySet) /\ IsFiniteSet(S)
  <2>1. IsFiniteSet(Versions)
    BY FiniteAssumption, FS_Union DEF Versions
  <2> QED
    BY <2>1, FS_Subset DEF ReadySet
<1>2. \A v \in ReadySet : weight[v] \in Nat
  <2>1. \A v \in ReadySet : version[v].object \in Uploads
    BY DEF ReadySet, DataInv, VersionRows
  <2> QED
    BY <2>1, SizeAssumption
<1>3. Bytes(S) = SumOf(weight, S)
  <2> DEFINE part == [v \in S |-> SizeOf[version[v].object]]
  <2>1. \A v \in S : weight[v] \in Int /\ part[v] = weight[v]
    BY <1>2
  <2> HIDE DEF weight
  <2> QED
    BY <1>1, <2>1, SumAgree DEF Bytes
<1>4. Bytes(ReadySet) = SumOf(weight, ReadySet)
  BY DEF Bytes
<1> HIDE DEF weight
<1>5. SumOf(weight, S) \in Nat /\ SumOf(weight, S) <= SumOf(weight, ReadySet)
  BY <1>1, <1>2, SumPart
<1>6. SumOf(weight, ReadySet) \in Nat
  BY <1>1, <1>2, SumNat
<1> QED
  BY <1>3, <1>4, <1>5, <1>6 DEF weight

(* used_bytes follows the versions: some ready ones go, others come. *)
LEMMA UsedFollows ==
    ASSUME DataInv, DataInv', UsedExact,
           NEW gone \in SUBSET ReadySet, NEW come \in SUBSET Versions,
           come \cap ReadySet = {}, ReadySet' = (ReadySet \ gone) \cup come,
           \A v \in ReadySet \ gone : version'[v].object = version[v].object,
           used' = used - Bytes(gone) + SumOf([v \in come |-> SizeOf[version'[v].object]], come)
    PROVE  UsedExact'
<1> DEFINE before == [v \in ReadySet |-> SizeOf[version[v].object]]
<1> DEFINE after == [v \in ReadySet' |-> SizeOf[version'[v].object]]
<1> DEFINE new == [v \in come |-> SizeOf[version'[v].object]]
<1> DEFINE stay == ReadySet \ gone
<1>0. IsFiniteSet(ReadySet) /\ IsFiniteSet(ReadySet') /\ IsFiniteSet(stay) /\ IsFiniteSet(come)
  <2>1. IsFiniteSet(Versions)
    BY FiniteAssumption, FS_Union DEF Versions
  <2> QED
    BY <2>1, FS_Subset DEF ReadySet
<1>1. \A v \in ReadySet : before[v] \in Int
  BY SizeAssumption DEF ReadySet, DataInv, VersionRows
<1>2. \A v \in ReadySet' : after[v] \in Int
  BY SizeAssumption DEF ReadySet, DataInv, VersionRows
<1>3. \A v \in come : after[v] \in Int /\ new[v] = after[v]
  BY <1>2
<1>4. \A v \in stay : before[v] \in Int /\ after[v] = before[v]
  BY <1>1
<1>5. Bytes(gone) = SumOf(before, gone) /\ Bytes(ReadySet) = SumOf(before, ReadySet)
      /\ Bytes(gone) \in Nat
  BY ReadyBytes
<1>6. Bytes(ReadySet)' = SumOf(after, ReadySet')
  BY DEF Bytes
<1>7. ReadySet' \ come = stay /\ come \in SUBSET ReadySet'
  BY DEF ReadySet
<1> HIDE DEF before, after, new, stay
<1>8. SumOf(before, ReadySet) = SumOf(before, stay) + SumOf(before, gone)
  BY <1>0, <1>1, SumSplit DEF stay
<1>9. SumOf(after, ReadySet') = SumOf(after, stay) + SumOf(after, come)
  BY <1>0, <1>2, <1>7, SumSplit
<1>10. SumOf(after, stay) = SumOf(before, stay)
  BY <1>0, <1>4, SumAgree
<1>11. SumOf(new, come) = SumOf(after, come)
  BY <1>0, <1>3, SumAgree
<1>12. SumOf(before, stay) \in Int /\ SumOf(after, come) \in Int
  BY <1>0, <1>3, <1>4, SumType
<1>13. used' = used - Bytes(gone) + SumOf(new, come)
  BY DEF new
<1> QED
  BY <1>5, <1>6, <1>8, <1>9, <1>10, <1>11, <1>12, <1>13 DEF UsedExact

(* used_bytes stays when the ready versions and their objects do. *)
LEMMA UsedStays ==
    ASSUME DataInv, DataInv', UsedExact, used' = used, ReadySet' = ReadySet,
           \A v \in ReadySet : version'[v].object = version[v].object
    PROVE  UsedExact'
<1>0. \A f : SumOf(f, {}) = 0
  BY SumEmpty
<1>1. Bytes({}) = 0 /\ SumOf([v \in {} |-> SizeOf[version'[v].object]], {}) = 0
  BY <1>0 DEF Bytes
<1>2. used \in Int
  <2>1. ReadySet \in SUBSET ReadySet
    OBVIOUS
  <2>2. Bytes(ReadySet) \in Nat
    BY <2>1, ReadyBytes
  <2> QED
    BY <2>2 DEF UsedExact
<1>3. used' = used - Bytes({}) + SumOf([v \in {} |-> SizeOf[version'[v].object]], {})
  BY <1>1, <1>2
<1>4. {} \in SUBSET ReadySet /\ {} \in SUBSET Versions /\ ReadySet' = (ReadySet \ {}) \cup {}
      /\ \A v \in ReadySet \ {} : version'[v].object = version[v].object
  OBVIOUS
<1> QED
  BY <1>3, <1>4, UsedFollows

(* reserved_bytes follows the uploads: a begin adds what the upload will   *)
(* take.                                                                   *)
LEMMA ReservedBegins ==
    ASSUME ReservedExact, NEW u \in Uploads, u \notin LiveSet, LiveSet' = LiveSet \cup {u},
           reserved' = reserved + SizeOf[u]
    PROVE  ReservedExact'
<1>1. IsFiniteSet(LiveSet) /\ \A w \in Uploads : SizeOf[w] \in Int
  BY FiniteAssumption, SizeAssumption, FS_Subset DEF LiveSet
<1>2. SumOf(SizeOf, LiveSet \cup {u}) = SizeOf[u] + SumOf(SizeOf, LiveSet)
  BY <1>1, SumInsert DEF LiveSet
<1>3. SumOf(SizeOf, LiveSet) \in Int
  BY <1>1, SumType DEF LiveSet
<1> QED
  BY <1>1, <1>2, <1>3 DEF ReservedExact

(* Uploads that end give back what their rows say they reserved, which is  *)
(* their size.                                                             *)
LEMMA ReservedEnds ==
    ASSUME ReservedExact, BytesHeld, NEW ended \in SUBSET LiveSet, LiveSet' = LiveSet \ ended,
           reserved' = reserved - ReservedBytes(ended)
    PROVE  ReservedExact' /\ ReservedBytes(ended) \in Nat
<1> DEFINE held == [u \in ended |-> upload[u].bytes]
<1>1. /\ IsFiniteSet(LiveSet) /\ IsFiniteSet(ended) /\ IsFiniteSet(LiveSet \ ended)
      /\ \A w \in LiveSet : SizeOf[w] \in Nat
  BY FiniteAssumption, SizeAssumption, FS_Subset DEF LiveSet
<1>2. \A w \in ended : SizeOf[w] \in Nat /\ held[w] = SizeOf[w]
  BY <1>1 DEF BytesHeld, LiveSet
<1> HIDE DEF held
<1>3. SumOf(held, ended) = SumOf(SizeOf, ended)
  BY <1>1, <1>2, SumAgree
<1>4. SumOf(SizeOf, LiveSet) = SumOf(SizeOf, LiveSet \ ended) + SumOf(SizeOf, ended)
  BY <1>1, SumSplit
<1>5. SumOf(SizeOf, LiveSet \ ended) \in Nat
  BY <1>1, SumNat
<1>6. SumOf(SizeOf, ended) \in Nat
  BY <1>1, <1>2, SumNat
<1>7. ReservedBytes(ended) = SumOf(held, ended)
  BY DEF ReservedBytes, held
<1> QED
  BY <1>3, <1>4, <1>5, <1>6, <1>7 DEF ReservedExact

(* The same for one upload. *)
LEMMA ReservedEndsOne ==
    ASSUME ReservedExact, BytesHeld, NEW u \in LiveSet, LiveSet' = LiveSet \ {u},
           reserved' = reserved - upload[u].bytes
    PROVE  ReservedExact' /\ upload[u].bytes = SizeOf[u] /\ SizeOf[u] \in Nat
<1>1. upload[u].bytes = SizeOf[u] /\ SizeOf[u] \in Nat
  BY SizeAssumption DEF BytesHeld, LiveSet
<1> DEFINE held == [w \in {u} |-> upload[w].bytes]
<1>2. held[u] = upload[u].bytes
  OBVIOUS
<1>3. ReservedBytes({u}) = SumOf(held, {u})
  BY DEF ReservedBytes
<1> HIDE DEF held
<1>4. ReservedBytes({u}) = upload[u].bytes
  BY <1>1, <1>2, <1>3, SumOne
<1>5. {u} \in SUBSET LiveSet
  OBVIOUS
<1> QED
  BY <1>1, <1>4, <1>5, ReservedEnds

-----------------------------------------------------------------------------
(* What each kind of transaction leaves the counters. *)

(* The counters are sums of sizes, so never negative. *)
LEMMA AccountIntegers ==
    ASSUME DataInv, AccountingExact
    PROVE  used \in Nat /\ reserved \in Nat
<1>1. ReadySet \in SUBSET ReadySet
  OBVIOUS
<1>2. Bytes(ReadySet) \in Nat
  BY <1>1, ReadyBytes
<1>3. IsFiniteSet(LiveSet) /\ \A w \in LiveSet : SizeOf[w] \in Nat
  BY FiniteAssumption, SizeAssumption, FS_Subset DEF LiveSet
<1>4. SumOf(SizeOf, LiveSet) \in Nat
  BY <1>3, SumNat
<1> QED
  BY <1>2, <1>4 DEF AccountingExact, ReadySet, LiveSet

(* A step that changes neither the counters nor what they count. *)
LEMMA QuietAccounts ==
    ASSUME DataInv, DataInv', AccountInv, UNCHANGED <<used, reserved>>,
           \A v \in Versions : /\ version[v].status = "ready" <=> version'[v].status = "ready"
                               /\ version'[v].object = version[v].object,
           \A u \in Uploads : /\ upload[u].status \in Live <=> upload'[u].status \in Live
                              /\ upload'[u].bytes = upload[u].bytes
    PROVE  AccountInv'
<1>1. ReadySet' = ReadySet /\ LiveSet' = LiveSet
  BY DEF ReadySet, LiveSet
<1>2. UsedExact'
  BY <1>1, UsedStays DEF AccountInv, AccountingExact, UsedExact, ReadySet
<1> QED
  BY <1>1, <1>2 DEF AccountInv, AccountingExact, BytesHeld, WithinAllowance, UsedExact,
                    ReadySet, LiveSet

(* releaseUpload: the reservation is handed back, once. *)
LEMMA ReleaseAccounts ==
    ASSUME DataInv, DataInv', AccountInv, NEW u \in Uploads, upload[u].status \in Live,
           ReleaseUpload(u, upload[u].newNode)
    PROVE  AccountInv'
<1>1. /\ version[u].status = "pending" /\ version[u].node = upload[u].node
      /\ upload[u].node \in Files /\ upload[u].newNode \in BOOLEAN /\ u \in Versions
  BY DEF DataInv, LiveRows, RowsOK, Versions, Upload
<1>2. \A v \in Versions \ {u} : version'[v] = version[v]
  BY <1>1 DEF ReleaseUpload, Purged, DataInv, NewNodeAlone
<1>3. version'[u].status # "ready"
  BY <1>1 DEF ReleaseUpload, Purged, NoVersion, DataInv, RowsOK, Version
<1>4. ReadySet' = ReadySet /\ \A v \in ReadySet : version'[v].object = version[v].object
  BY <1>1, <1>2, <1>3 DEF ReadySet
<1>5. /\ \A w \in Uploads \ {u} : upload'[w] = upload[w]
      /\ upload'[u].status \notin Live /\ upload'[u].bytes = 0
  BY DEF ReleaseUpload, Settled, DataInv, RowsOK, Upload, Live
<1>6. LiveSet' = LiveSet \ {u} /\ u \in LiveSet
  BY <1>5 DEF LiveSet
<1>7. used' = used /\ reserved' = reserved - upload[u].bytes
  BY DEF ReleaseUpload
<1>8. UsedExact'
  BY <1>4, <1>7, UsedStays DEF AccountInv, AccountingExact, UsedExact, ReadySet
<1>9. ReservedExact' /\ upload[u].bytes = SizeOf[u] /\ SizeOf[u] \in Nat
  BY <1>6, <1>7, ReservedEndsOne DEF AccountInv, AccountingExact, ReservedExact, LiveSet
<1>10. BytesHeld'
  BY <1>5 DEF AccountInv, BytesHeld
<1>11. used \in Nat /\ reserved \in Nat
  BY AccountIntegers DEF AccountInv
<1> QED
  BY <1>7, <1>8, <1>9, <1>10, <1>11, AllowanceAssumption
     DEF AccountInv, AccountingExact, WithinAllowance, UsedExact, ReservedExact, ReadySet, LiveSet

(* publishUpload: what is reserved for the upload becomes used, and what   *)
(* the purged versions took comes back.                                    *)
LEMMA PublishAccounts ==
    ASSUME DataInv, DataInv', AccountInv, NEW u \in Uploads, NEW f, NEW d,
           upload[u].status \in Live, PublishUpload(u, f, d),
           upload'[u].status = "completed", upload'[u].bytes = 0,
           \A w \in Uploads \ {u} : upload'[w] = upload[w]
    PROVE  AccountInv'
<1> DEFINE older == IF d = None THEN {} ELSE ReadyOf(f) \ {d, u}
<1>1. /\ version[u].status = "pending" /\ version[u].object = u /\ u \in Versions
      /\ u \notin ReadySet
  BY DEF DataInv, LiveRows, Versions, ReadySet
<1>2. older \in SUBSET ReadySet /\ u \notin older
  BY <1>1 DEF ReadyOf, VersionsOf, ReadySet
<1>3. /\ used' = used + SizeOf[u] - Bytes(older)
      /\ reserved' = reserved - upload[u].bytes
      /\ version' = [v \in Versions |->
              CASE v = u -> [version[u] EXCEPT !.status = "ready", !.node = f]
                [] v # u /\ v = d -> [version[v] EXCEPT !.superseded = TRUE]
                [] OTHER -> Purged(older)[v]]
  BY DEF PublishUpload
<1> HIDE DEF older
<1>4. version'[u].status = "ready" /\ version'[u].object = u
  <2>1. version[u] \in Version /\ version'[u] = [version[u] EXCEPT !.status = "ready", !.node = f]
    BY <1>1, <1>3 DEF DataInv, RowsOK
  <2> QED
    BY <1>1, <2>1 DEF Version
<1>5. \A v \in Versions \ {u} :
         /\ version'[v].object = version[v].object
         /\ version'[v].status = IF v \in older /\ v # d THEN "purged" ELSE version[v].status
  <2> SUFFICES ASSUME NEW v \in Versions \ {u}
               PROVE  /\ version'[v].object = version[v].object
                      /\ version'[v].status = IF v \in older /\ v # d THEN "purged"
                                                                     ELSE version[v].status
    OBVIOUS
  <2>1. version[v] \in Version
    BY DEF DataInv, RowsOK
  <2>2. CASE v = d
    BY <1>3, <2>1, <2>2 DEF Version
  <2>3. CASE v # d
    BY <1>3, <2>1, <2>3 DEF Version, Purged
  <2> QED
    BY <2>2, <2>3
<1>6. d \notin older
  BY DEF older
<1>7. /\ ReadySet' = (ReadySet \ older) \cup {u} /\ {u} \cap ReadySet = {}
      /\ {u} \in SUBSET Versions
      /\ \A v \in ReadySet \ older : version'[v].object = version[v].object
  BY <1>1, <1>2, <1>4, <1>5, <1>6 DEF ReadySet
<1>8. Bytes(older) \in Nat
  BY <1>2, ReadyBytes
<1>9. SizeOf[u] \in Nat
  BY SizeAssumption
<1>10. SumOf([v \in {u} |-> SizeOf[version'[v].object]], {u}) = SizeOf[u]
  <2> DEFINE new == [v \in {u} |-> SizeOf[version'[v].object]]
  <2>1. new[u] = SizeOf[u]
    BY <1>4
  <2> HIDE DEF new
  <2> QED
    BY <1>9, <2>1, SumOne DEF new
<1>11. used \in Nat /\ reserved \in Nat
  BY AccountIntegers DEF AccountInv
<1>12. used' = used - Bytes(older) + SumOf([v \in {u} |-> SizeOf[version'[v].object]], {u})
  BY <1>3, <1>8, <1>9, <1>10, <1>11
<1>13. UsedExact'
  BY <1>2, <1>7, <1>12, UsedFollows DEF AccountInv, AccountingExact, UsedExact, ReadySet
<1>14. LiveSet' = LiveSet \ {u} /\ u \in LiveSet
  BY DEF LiveSet, Live
<1>15. ReservedExact' /\ upload[u].bytes = SizeOf[u]
  BY <1>3, <1>14, ReservedEndsOne DEF AccountInv, AccountingExact, ReservedExact, LiveSet
<1>16. BytesHeld'
  BY DEF AccountInv, BytesHeld, Live
<1>17. WithinAllowance'
  BY <1>3, <1>8, <1>9, <1>11, <1>15, AllowanceAssumption DEF AccountInv, WithinAllowance
<1> QED
  BY <1>13, <1>15, <1>16, <1>17
     DEF AccountInv, AccountingExact, UsedExact, ReservedExact, ReadySet, LiveSet

(* begin: the bytes are there when they are reserved. *)
LEMMA BeginAccounts ==
    ASSUME DataInv, DataInv', AccountInv, NEW u \in Uploads, NEW f \in Files, NEW isNew \in BOOLEAN,
           upload[u].status = "new", BeginRows(u, f, isNew), FreeBytes >= SizeOf[u], used' = used
    PROVE  AccountInv'
<1>1. version[u].status = "none" /\ u \in Versions
  BY DEF DataInv, NewIsClean, Versions
<1>2. version' = [version EXCEPT ![u] =
          [status |-> "pending", node |-> f, object |-> u, superseded |-> FALSE]]
  BY DEF BeginRows
<1>3. ReadySet' = ReadySet /\ \A v \in ReadySet : version'[v].object = version[v].object
  BY <1>1, <1>2 DEF ReadySet, DataInv, RowsOK
<1>4. UsedExact'
  BY <1>3, UsedStays DEF AccountInv, AccountingExact, UsedExact, ReadySet
<1>5. /\ upload'[u].status = "open" /\ upload'[u].bytes = SizeOf[u]
      /\ \A w \in Uploads \ {u} : upload'[w] = upload[w]
  BY DEF BeginRows, DataInv, RowsOK
<1>6. LiveSet' = LiveSet \cup {u} /\ u \notin LiveSet /\ reserved' = reserved + SizeOf[u]
  BY <1>5 DEF LiveSet, Live, BeginRows
<1>7. ReservedExact'
  BY <1>6, ReservedBegins DEF AccountInv, AccountingExact, ReservedExact, LiveSet
<1>8. BytesHeld'
  BY <1>5 DEF AccountInv, BytesHeld, Live
<1>9. used \in Nat /\ reserved \in Nat /\ SizeOf[u] \in Nat
  BY AccountIntegers, SizeAssumption DEF AccountInv
<1>10. WithinAllowance'
  BY <1>6, <1>9, AllowanceAssumption DEF WithinAllowance, FreeBytes
<1> QED
  BY <1>4, <1>7, <1>8, <1>10
     DEF AccountInv, AccountingExact, UsedExact, ReservedExact, ReadySet, LiveSet

(* copyFile pays for the object again. *)
LEMMA CopyAccounts ==
    ASSUME DataInv, DataInv', AccountInv, NEW f \in Files, NEW g \in Files, NEW c \in Copies,
           CopyFile(f, c, g)
    PROVE  AccountInv'
<1> DEFINE o == version[node[f].current].object
<1>1. o \in Uploads /\ c \in Versions
  BY NoneAssumption DEF CopyFile, DataInv, CurrentAndOneEarlier, ReadyOf, VersionsOf, VersionRows,
         Versions
<1>2. /\ version[c].status = "none"
      /\ version' = [version EXCEPT ![c] = [status |-> "ready", node |-> g, object |-> o,
                                            superseded |-> FALSE]]
      /\ used' = used + SizeOf[o] /\ UNCHANGED <<upload, reserved>> /\ FreeBytes >= SizeOf[o]
  BY DEF CopyFile
<1> HIDE DEF o
<1>3. /\ version'[c].status = "ready" /\ version'[c].object = o
      /\ \A v \in Versions \ {c} : version'[v] = version[v]
  BY <1>1, <1>2 DEF DataInv, RowsOK
<1>4. /\ ReadySet' = (ReadySet \ {}) \cup {c} /\ {c} \cap ReadySet = {}
      /\ {c} \in SUBSET Versions /\ {} \in SUBSET ReadySet
      /\ \A v \in ReadySet \ {} : version'[v].object = version[v].object
  BY <1>1, <1>2, <1>3 DEF ReadySet
<1>5. SizeOf[o] \in Nat /\ used \in Nat /\ reserved \in Nat
  BY <1>1, AccountIntegers, SizeAssumption DEF AccountInv
<1>6. SumOf([v \in {c} |-> SizeOf[version'[v].object]], {c}) = SizeOf[o]
  <2> DEFINE new == [v \in {c} |-> SizeOf[version'[v].object]]
  <2>1. new[c] = SizeOf[o]
    BY <1>3
  <2> HIDE DEF new
  <2> QED
    BY <1>5, <2>1, SumOne DEF new
<1>7. Bytes({}) = 0
  <2>1. \A h : SumOf(h, {}) = 0
    BY SumEmpty
  <2> QED
    BY <2>1 DEF Bytes
<1>8. used' = used - Bytes({}) + SumOf([v \in {c} |-> SizeOf[version'[v].object]], {c})
  BY <1>2, <1>5, <1>6, <1>7
<1>9. UsedExact'
  BY <1>4, <1>8, UsedFollows DEF AccountInv, AccountingExact, UsedExact, ReadySet
<1>10. ReservedExact' /\ BytesHeld'
  BY <1>2 DEF AccountInv, AccountingExact, ReservedExact, BytesHeld, LiveSet
<1>11. WithinAllowance'
  BY <1>2, <1>5, AllowanceAssumption DEF WithinAllowance, FreeBytes
<1> QED
  BY <1>9, <1>10, <1>11
     DEF AccountInv, AccountingExact, UsedExact, ReservedExact, ReadySet, LiveSet

(* Ready versions are purged and what they took comes back. *)
LEMMA UsedDrops ==
    ASSUME DataInv, DataInv', AccountInv, NEW gone \in SUBSET ReadySet,
           ReadySet' = ReadySet \ gone,
           \A v \in ReadySet \ gone : version'[v].object = version[v].object,
           used' = used - Bytes(gone)
    PROVE  UsedExact' /\ used' <= used
<1>1. \A h : SumOf(h, {}) = 0
  BY SumEmpty
<1>2. Bytes(gone) \in Nat /\ used \in Nat
  BY ReadyBytes, AccountIntegers DEF AccountInv
<1>3. used' = used - Bytes(gone) + SumOf([v \in {} |-> SizeOf[version'[v].object]], {})
  BY <1>1, <1>2
<1>4. {} \in SUBSET Versions /\ {} \cap ReadySet = {} /\ ReadySet' = (ReadySet \ gone) \cup {}
  OBVIOUS
<1>5. UsedExact'
  BY <1>3, <1>4, UsedFollows DEF AccountInv, AccountingExact, UsedExact, ReadySet
<1> QED
  BY <1>2, <1>5

(* purgeVersion *)
LEMMA PurgeReadyAccounts ==
    ASSUME DataInv, DataInv', AccountInv, NEW v \in Versions, PurgeReady(v),
           version[v].status = "ready"
    PROVE  AccountInv'
<1>1. /\ {v} \in SUBSET ReadySet /\ ReadySet' = ReadySet \ {v}
      /\ \A w \in ReadySet \ {v} : version'[w].object = version[w].object
  BY DEF PurgeReady, Purged, ReadySet, DataInv, RowsOK, Version
<1>2. version[v].object \in Uploads
  BY DEF DataInv, VersionRows
<1>3. Bytes({v}) = SizeOf[version[v].object]
  <2> DEFINE one == [w \in {v} |-> SizeOf[version[w].object]]
  <2>1. one[v] = SizeOf[version[v].object] /\ one[v] \in Int
    BY <1>2, SizeAssumption
  <2>2. Bytes({v}) = SumOf(one, {v})
    BY DEF Bytes
  <2> HIDE DEF one
  <2> QED
    BY <2>1, <2>2, SumOne
<1>4. used' = used - Bytes({v}) /\ UNCHANGED <<upload, reserved>>
  BY <1>3 DEF PurgeReady
<1>5. UsedExact' /\ used' <= used
  BY <1>1, <1>4, UsedDrops
<1>6. used \in Nat /\ reserved \in Nat /\ Bytes({v}) \in Nat
  BY <1>2, <1>3, AccountIntegers, SizeAssumption DEF AccountInv
<1> QED
  BY <1>4, <1>5, <1>6, AllowanceAssumption
     DEF AccountInv, AccountingExact, WithinAllowance, BytesHeld, UsedExact, ReadySet

(* purgeOne: a file's ready versions and its uploads that are not          *)
(* completing.                                                             *)
LEMMA PurgeOneAccounts ==
    ASSUME DataInv, DataInv', AccountInv, NEW f \in Files, PurgeOne(f)
    PROVE  AccountInv'
<1> DEFINE completing == {u \in VersionsOf(f) \cap Uploads :
                version[u].status = "pending" /\ upload[u].status = "completing"}
<1> DEFINE released == {u \in VersionsOf(f) \cap Uploads :
                version[u].status = "pending" /\ upload[u].status \in {"open", "conflicted"}}
<1> DEFINE going == VersionsOf(f) \ completing
<1>1. /\ version' = Purged(going) /\ used' = used - Bytes(ReadyOf(f))
      /\ reserved' = reserved - ReservedBytes(released)
      /\ upload' = [u \in Uploads |->
            IF u \in released THEN [upload[u] EXCEPT !.status = "aborted", !.bytes = 0]
                              ELSE upload[u]]
  BY DEF PurgeOne
<1>2. /\ ReadyOf(f) \in SUBSET ReadySet /\ ReadyOf(f) = going \cap ReadySet
      /\ released \in SUBSET LiveSet
  BY DEF ReadyOf, VersionsOf, ReadySet, LiveSet, Live
<1> HIDE DEF going, released, completing
<1>3. \A v \in Versions : /\ version'[v].object = version[v].object
                          /\ version'[v].status = IF v \in going THEN "purged" ELSE version[v].status
  <2> SUFFICES ASSUME NEW v \in Versions
               PROVE  /\ version'[v].object = version[v].object
                      /\ version'[v].status = IF v \in going THEN "purged" ELSE version[v].status
    OBVIOUS
  <2>1. version[v] \in Version
    BY DEF DataInv, RowsOK
  <2> QED
    BY <1>1, <2>1 DEF Purged, Version
<1>4. ReadySet' = ReadySet \ ReadyOf(f)
  BY <1>2, <1>3 DEF ReadySet
<1>5. \A v \in ReadySet \ ReadyOf(f) : version'[v].object = version[v].object
  BY <1>3 DEF ReadySet
<1>6. UsedExact' /\ used' <= used
  BY <1>1, <1>2, <1>4, <1>5, UsedDrops
<1>7. \A u \in Uploads : IF u \in released
                         THEN upload'[u].status = "aborted" /\ upload'[u].bytes = 0
                         ELSE upload'[u] = upload[u]
  <2> SUFFICES ASSUME NEW u \in Uploads
               PROVE  IF u \in released THEN upload'[u].status = "aborted" /\ upload'[u].bytes = 0
                                        ELSE upload'[u] = upload[u]
    OBVIOUS
  <2>1. upload[u] \in Upload
    BY DEF DataInv, RowsOK
  <2> QED
    BY <1>1, <2>1 DEF Upload
<1>8. LiveSet' = LiveSet \ released
  BY <1>2, <1>7 DEF LiveSet, Live
<1>9. ReservedExact' /\ ReservedBytes(released) \in Nat
  BY <1>1, <1>2, <1>8, ReservedEnds
     DEF AccountInv, AccountingExact, ReservedExact, LiveSet
<1>10. BytesHeld'
  BY <1>7 DEF AccountInv, BytesHeld, Live
<1>11. used \in Nat /\ reserved \in Nat /\ Bytes(ReadyOf(f)) \in Nat
  BY <1>2, ReadyBytes, AccountIntegers DEF AccountInv
<1>12. WithinAllowance'
  <2>1. used' = used - Bytes(ReadyOf(f)) /\ reserved' = reserved - ReservedBytes(released)
    BY <1>1
  <2>2. used + reserved <= Allowance
    BY DEF AccountInv, WithinAllowance
  <2>3. used' + reserved' <= Allowance
    BY <1>9, <1>11, <2>1, <2>2, AllowanceAssumption
  <2> QED
    BY <2>3 DEF WithinAllowance
<1> QED
  BY <1>6, <1>9, <1>10, <1>12
     DEF AccountInv, AccountingExact, UsedExact, ReservedExact, ReadySet, LiveSet

(* A completed upload's row, as publish and attach leave it. *)
LEMMA SettledBytes ==
    ASSUME DataInv, NEW u \in Uploads, upload' = Settled(u, "completed")
    PROVE  /\ upload'[u].status = "completed" /\ upload'[u].bytes = 0
           /\ \A w \in Uploads \ {u} : upload'[w] = upload[w]
<1>1. upload[u] \in Upload /\ upload \in [Uploads -> Upload]
  BY DEF DataInv, RowsOK
<1> QED
  BY <1>1 DEF Settled, Upload

(* finishCompleting *)
LEMMA FinishAccounts ==
    ASSUME DataInv, DataInv', AccountInv, NEW u \in Uploads, NEW seen, FinishCompleting(u, seen)
    PROVE  AccountInv'
<1>1. CASE UNCHANGED rows
  BY <1>1, QuietAccounts DEF rows
<1>2. CASE Finishable(u) /\ ReleaseUpload(u, upload[u].newNode)
  BY <1>2, ReleaseAccounts DEF Finishable, Live
<1>3. CASE /\ Finishable(u)
           /\ upload' = [upload EXCEPT ![u].status = "conflicted"]
           /\ UNCHANGED <<dir, node, version, object, outbox, used, reserved>>
  <2>1. \A w \in Uploads : /\ upload[w].status \in Live <=> upload'[w].status \in Live
                           /\ upload'[w].bytes = upload[w].bytes
    BY <1>3 DEF Finishable, Live, DataInv, RowsOK, Upload
  <2> QED
    BY <1>3, <2>1, QuietAccounts
<1>4. CASE /\ Publishes(u, seen)
           /\ PublishUpload(u, upload[u].node, node[upload[u].node].current)
           /\ upload' = Settled(u, "completed")
  <2>1. upload[u].status \in Live
    BY <1>4 DEF Publishes, Finishable, Live
  <2> QED
    BY <1>4, <2>1, SettledBytes, PublishAccounts
<1> QED
  BY <1>1, <1>2, <1>3, <1>4 DEF FinishCompleting

(* attachUpload *)
LEMMA AttachAccounts ==
    ASSUME DataInv, DataInv', AccountInv, NEW u \in Uploads,
           AttachSameNode(u) \/ \E g \in Files : AttachSibling(u, g)
    PROVE  AccountInv'
<1>1. CASE AttachSameNode(u)
  <2>1. upload[u].status \in Live
    BY <1>1 DEF AttachSameNode, Live
  <2>2. CASE ReleaseUpload(u, upload[u].newNode)
    BY <2>1, <2>2, ReleaseAccounts
  <2>3. CASE /\ PublishUpload(u, upload[u].node, node[upload[u].node].current)
             /\ upload' = [Settled(u, "completed") EXCEPT ![u].epoch = node[upload[u].node].epoch]
    <3>1. upload[u] \in Upload /\ upload \in [Uploads -> Upload]
      BY DEF DataInv, RowsOK
    <3>2. [upload[u] EXCEPT !.status = "completed", !.bytes = 0] \in Upload
      BY <3>1 DEF Upload
    <3>4. /\ upload'[u].status = "completed" /\ upload'[u].bytes = 0
          /\ \A w \in Uploads \ {u} : upload'[w] = upload[w]
      BY <2>3, <3>1, <3>2 DEF Upload, Settled
    <3> QED
      BY <2>1, <2>3, <3>4, PublishAccounts
  <2> QED
    BY <1>1, <2>2, <2>3 DEF AttachSameNode
<1>2. ASSUME NEW g \in Files, AttachSibling(u, g) PROVE AccountInv'
  <2>1. /\ upload[u].status \in Live /\ PublishUpload(u, g, None)
        /\ upload'[u].status = "completed" /\ upload'[u].bytes = 0
        /\ \A w \in Uploads \ {u} : upload'[w] = upload[w]
    BY <1>2 DEF AttachSibling, Live, DataInv, RowsOK
  <2> QED
    BY <2>1, PublishAccounts
<1> QED
  BY <1>1, <1>2

(* Every step keeps the counters exact and within the allowance. *)
LEMMA StepAccounts == IInv /\ AccountInv /\ [Next]_vars => AccountInv'
<1> SUFFICES ASSUME IInv, AccountInv, [Next]_vars PROVE AccountInv'
  OBVIOUS
<1>0. DataInv /\ DataInv' /\ CallTargets
  BY StepIInv DEF IInv, CallInv
<1>1. ASSUME NEW u \in Uploads, NEW f \in Files, BeginNewFile(u, f) \/ BeginVersion(u, f)
      PROVE  AccountInv'
  BY <1>0, <1>1, BeginAccounts DEF BeginNewFile, BeginVersion
<1>2. ASSUME NEW u \in Uploads, AttachSameNode(u) \/ \E g \in Files : AttachSibling(u, g)
      PROVE  AccountInv'
  BY <1>0, <1>2, AttachAccounts
<1>3. ASSUME NEW r \in Requests, NEW u \in Uploads, StartCompleting(r, u)
      PROVE  AccountInv'
  <2>1. \A w \in Uploads : /\ upload[w].status \in Live <=> upload'[w].status \in Live
                           /\ upload'[w].bytes = upload[w].bytes
    BY <1>0, <1>3 DEF StartCompleting, Live, DataInv, RowsOK, Upload
  <2> QED
    BY <1>0, <1>3, <2>1, QuietAccounts DEF StartCompleting
<1>4. ASSUME NEW r \in Requests, NEW u \in Uploads, AbortUpload(r, u)
      PROVE  AccountInv'
  BY <1>0, <1>4, ReleaseAccounts DEF AbortUpload, Live
<1>5. ASSUME NEW r \in Requests, FinishRequest(r) PROVE AccountInv'
  <2>1. req[r].upload \in Uploads
    BY <1>0, <1>5 DEF FinishRequest, CallTargets
  <2> QED
    BY <1>0, <1>5, <2>1, FinishAccounts DEF FinishRequest
<1>6. CASE FinishExpired
  <2>1. sweep.upload \in Uploads
    BY <1>0, <1>6 DEF FinishExpired, CallTargets
  <2> QED
    BY <1>0, <1>6, <2>1, FinishAccounts DEF FinishExpired
<1>7. CASE AbortExpired
  <2>1. sweep.upload \in Uploads
    BY <1>0, <1>7 DEF AbortExpired, CallTargets
  <2>2. CASE upload[sweep.upload].status \in Live
    BY <1>0, <1>7, <2>1, <2>2, ReleaseAccounts DEF AbortExpired
  <2>3. CASE UNCHANGED rows
    BY <1>0, <2>3, QuietAccounts DEF rows
  <2> QED
    BY <1>7, <2>2, <2>3 DEF AbortExpired
<1>8. ASSUME NEW f \in Files, NEW g \in Files, NEW c \in Copies, CopyFile(f, c, g)
      PROVE  AccountInv'
  BY <1>0, <1>8, CopyAccounts
<1>9. ASSUME NEW v \in Versions, RestoreVersion(v) PROVE AccountInv'
  <2>1. \A w \in Versions : /\ version'[w].status = version[w].status
                            /\ version'[w].object = version[w].object
    <3> SUFFICES ASSUME NEW w \in Versions
                 PROVE  version'[w].status = version[w].status /\ version'[w].object = version[w].object
      OBVIOUS
    <3>1. version[w] \in Version /\ version[v] \in Version /\ version \in [Versions -> Version]
      BY <1>0 DEF DataInv, RowsOK
    <3>2. version' = [version EXCEPT ![node[version[v].node].current].superseded = TRUE,
                                     ![v].superseded = FALSE]
      BY <1>9 DEF RestoreVersion
    <3> QED
      BY <3>1, <3>2 DEF Version
  <2> QED
    BY <1>0, <1>9, <2>1, QuietAccounts DEF RestoreVersion
<1>10. ASSUME NEW v \in Versions, DiscardVersion(v) \/ SweepSuperseded(v) PROVE AccountInv'
  BY <1>0, <1>10, PurgeReadyAccounts DEF DiscardVersion, SweepSuperseded
<1>11. ASSUME NEW f \in Files, PurgeFile(f) \/ PurgeDescendant(f) PROVE AccountInv'
  BY <1>0, <1>11, PurgeOneAccounts DEF PurgeFile, PurgeDescendant
<1>12. CASE UNCHANGED <<version, upload, used, reserved>>
  BY <1>0, <1>12, QuietAccounts
<1>13. \/ \E u \in Uploads, f \in Files : BeginNewFile(u, f) \/ BeginVersion(u, f)
       \/ \E u \in Uploads : AttachSameNode(u) \/ \E g \in Files : AttachSibling(u, g)
       \/ \E r \in Requests, u \in Uploads : StartCompleting(r, u) \/ AbortUpload(r, u)
       \/ \E r \in Requests : FinishRequest(r)
       \/ FinishExpired \/ AbortExpired
       \/ \E f, g \in Files, c \in Copies : CopyFile(f, c, g)
       \/ \E v \in Versions : RestoreVersion(v) \/ DiscardVersion(v) \/ SweepSuperseded(v)
       \/ \E f \in Files : PurgeFile(f) \/ PurgeDescendant(f)
       \/ UNCHANGED <<version, upload, used, reserved>>
  BY DEF Next, vars, rows, CompleteMultipart, AbortRequest, LoseRequest, ListExpired,
         ListDeletion, SweepStep, HeadExpired, AbortExpiredMultipart, DrainStep,
         DeletePrimary, MarkPrimaryDeleted, LoseWorker, TrashFile, RestoreFile, RotateFile,
         ChangeDir
<1> QED
  BY <1>1, <1>2, <1>3, <1>4, <1>5, <1>6, <1>7, <1>8, <1>9, <1>10, <1>11, <1>12, <1>13

(* Nothing is stored or reserved in an empty workspace. *)
LEMMA InitAccounts == Init => AccountInv
<1> SUFFICES ASSUME Init PROVE AccountInv
  OBVIOUS
<1>1. ReadySet = {} /\ LiveSet = {}
  BY DEF Init, ReadySet, LiveSet, NoVersion, NoUpload, Live
<1>2. \A f : SumOf(f, {}) = 0
  BY SumEmpty
<1>3. AccountingExact
  BY <1>1, <1>2 DEF Init, AccountingExact, ReadySet, LiveSet, Bytes
<1>4. BytesHeld /\ WithinAllowance
  BY AllowanceAssumption DEF Init, BytesHeld, WithinAllowance, NoUpload, Live
<1> QED
  BY <1>3, <1>4 DEF AccountInv

(* The invariant of the rows and the one of the counters hold together. *)
LEMMA AccountInvariance == Spec => [](IInv /\ AccountInv)
  BY InitIInv, StepIInv, InitAccounts, StepAccounts, PTL DEF Spec

(* drive_storage's used_bytes and reserved_bytes are what the rows of the  *)
(* versions and of the uploads add up to, after every transaction.         *)
THEOREM CountersAlwaysExact == Spec => []AccountingExact
<1>1. AccountInv => AccountingExact
  BY DEF AccountInv
<1> QED
  BY AccountInvariance, <1>1, PTL

(* What is stored and what is reserved never exceed the allowance: begin   *)
(* and copy check it, and a publish only turns one into the other.         *)
THEOREM NeverOverspends == Spec => []WithinAllowance
<1>1. AccountInv => WithinAllowance
  BY DEF AccountInv
<1> QED
  BY AccountInvariance, <1>1, PTL

(* Every row and every call in flight keeps its type, the counters         *)
(* included: neither is ever below zero.                                   *)
THEOREM TypesHold == Spec => []TypeOK
<1>1. IInv /\ AccountInv => TypeOK
  BY AccountIntegers DEF IInv, DataInv, CallInv, AccountInv, TypeOK
<1> QED
  BY AccountInvariance, <1>1, PTL
=============================================================================
