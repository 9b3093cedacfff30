------------------------------ MODULE StoragePool ------------------------------
(***************************************************************************)
(* The storage a family shares (packages/db/src/pool.ts), the uploads,     *)
(* copies and moves between workspaces that spend it (drive.ts), and what  *)
(* changes under them: people admitted, leaving, removed, held or deleting *)
(* their account (groups.ts, auth.ts) and billing's write of the plan      *)
(* (billing.ts).  One family; a person stands for their own workspace too. *)
(*                                                                         *)
(* A transaction takes its locks one step at a time, reads what it reads   *)
(* under them, and commits in a step of its own: only then do the others   *)
(* see what it wrote (read committed).  Locks are the ones the code names: *)
(* the group's row, workspace rows, the pool's advisory lock, the person's *)
(* row, storage rows.  A transaction that takes a workspace's row and its  *)
(* storage row and nothing else (an abort, a deletion) is one step.        *)
(*                                                                         *)
(* Left out: editors who are not members, rosters' signatures and seats,   *)
(* conflicts of versions and keys (DriveUploads, DriveRotation), and the   *)
(* locks PostgreSQL takes by itself for foreign keys.                      *)
(***************************************************************************)
EXTENDS PoolCount, Sequences

CONSTANTS Organizer,   \* the family's last `billing` and `members` holder: stays
          Rank,        \* a workspace's id, as ids are ordered
          Old,         \* files there from the start
          Uploads,     \* upload (and copy) ids; a new file is named after its upload
          Txs,         \* transactions that may be open at once
          Size,        \* bytes of what is there from the start and of what each upload brings
          Kinds,       \* what each upload may be: new, version, move or copy
          OldAt,       \* the workspaces the files there from the start may be in
          Attempts,    \* how often a transaction the pool moved under is tried (3 in the code)
          MaxChanges,  \* departures, deletions, holds and plan changes in a behaviour
          Nothing

Files == Old \cup Uploads
Locks == {<<"group">>, <<"pool">>}
            \cup {<<k, w>> : k \in {"ws", "store"}, w \in Workspaces}
            \cup {<<"person", p>> : p \in People}

ASSUME InstanceAssumption ==
    /\ Organizer \in People
    /\ Old \cap Uploads = {} /\ IsFiniteSet(Files) /\ IsFiniteSet(Txs)
    /\ Nothing \notin Files \cup Workspaces
    /\ Rank \in [Workspaces -> Nat] /\ \A v, w \in Workspaces : Rank[v] = Rank[w] => v = w
    /\ Size \in [Files -> Nat \ {0}]
    /\ Kinds \in [Uploads -> SUBSET {"new", "version", "move", "copy"}]
    /\ OldAt \subseteq Workspaces
    /\ Attempts \in Nat \ {0} /\ MaxChanges \in Nat

VARIABLES
    file,      \* drive_nodes and the bytes of their ready versions
    up,        \* drive_uploads, with a move's record; asked: a request not yet answered
    tx,        \* open transactions: what they do, the locks they hold and still want;
               \* live, a history: they read their figures while a plan ran
    missed,    \* members deleted by a deletion that had read them in no family
    changes    \* of these, so far

history == <<missed, changes>>
vars == <<member, plan, used, reserved, file, up, tx, missed, changes>>

NoTx == [op |-> "none", u |-> Nothing, p |-> Nothing, writer |-> FALSE, fam |-> FALSE,
         tries |-> 0, verdict |-> "none", cost |-> 0, live |-> FALSE, want |-> <<>>, have |-> {}]
NoUpload == [st |-> "none", kind |-> "new", at |-> Nothing, of |-> Nothing, by |-> Nothing,
             seq |-> 0, freed |-> 0, res |-> 0]

(***************************************************************************)
(* Locks and transactions                                                  *)
(***************************************************************************)
Group == <<"group">>
Pool == <<"pool">>
Ws(w) == <<"ws", w>>
Store(w) == <<"store", w>>
Person(p) == <<"person", p>>

Free(l) == \A t \in Txs : l \notin tx[t].have

\* Mutant: in id order, whatever they are.
BeforeById(a, b) == Rank[a] < Rank[b]

\* A group's areas in id order, then a person's own workspace
Before(a, b) == IF (a \in Areas) = (b \in Areas) THEN Rank[a] < Rank[b] ELSE a \in Areas
InOrder(ws) == CHOOSE q \in [1..Cardinality(ws) -> ws] :
                   \A i, j \in 1..Cardinality(ws) : i < j => Before(q[i], q[j])
RowLocks(ws) == [i \in 1..Cardinality(ws) |-> Ws(InOrder(ws)[i])]
AreaLocks == RowLocks(Areas)

Opens(t, r) == tx[t] = NoTx /\ tx' = [tx EXCEPT ![t] = r]
Ends(t) == tx' = [tx EXCEPT ![t] = NoTx]

\* The lock wanted next is free; taken, the rest is still wanted.
MayTake(t, kind) == tx[t].want # <<>> /\ Head(tx[t].want)[1] = kind /\ Free(Head(tx[t].want))
Took(t) == [tx[t] EXCEPT !.have = @ \cup {Head(tx[t].want)}, !.want = Tail(@)]
GoesOn(t, r) == tx' = [tx EXCEPT ![t] = r]
Ready(t, op, verdict) ==
    tx[t].op = op /\ tx[t].want = <<>> /\ tx[t].verdict = verdict


\* freeBytes takes the pool's lock when the figures are a family's, then the storage row's.
FigureLocks(r, w) ==
    LET fam == w \in People => Active(w)
    IN  [r EXCEPT !.fam = fam, !.verdict = "figures",
                  !.want = IF fam THEN <<Pool, Store(w)>> ELSE <<Store(w)>>]

\* Mutant: the membership is not read again once the storage row is held.
PoolMovedIntoUnread(t, w) == FALSE

\* A person's own workspace whose owner joined or left a family since it was resolved
PoolMovedInto(t, w) == w \in People /\ ~tx[t].fam /\ Active(w)
PoolMovedFrom(t, w) == w \in People /\ tx[t].fam /\ ~Active(w)

Source(u) == file[up[u].of].at
IsMove(u) == up[u].kind = "move"

\* lockForCompletion: the workspace, and the one a move takes its file from
CompletionLocks(u) == RowLocks({up[u].at} \cup (IF IsMove(u) THEN {Source(u)} ELSE {}))

Request(op, u, writer, tries) ==
    [NoTx EXCEPT !.op = op, !.u = u, !.writer = writer, !.tries = tries,
                 !.want = IF op = "begin" THEN <<Ws(up[u].at)>> ELSE CompletionLocks(u)]

\* An upload that is over, refused, aborted or completed, says nothing more.
Over == [NoUpload EXCEPT !.st = "over"]
Refuse(t, u) == Ends(t) /\ up' = [up EXCEPT ![u] = Over]

\* PoolMovedError: rolled back and started over, at most twice (settlingPool)
StartsOver(t) ==
    LET x == tx[t]
    IN  IF x.tries + 1 < Attempts THEN GoesOn(t, Request(x.op, x.u, x.writer, x.tries + 1)) /\ UNCHANGED up
        ELSE IF x.op = "begin" THEN Refuse(t, x.u)
        ELSE Ends(t) /\ UNCHANGED up


(***************************************************************************)
(* Begin: an upload of a new file, of a new version or of a move's copy,   *)
(* and a copy made at the server                                           *)
(***************************************************************************)
\* A request, past its route's check of access
BeginUpload(t, u, kind, w, p, f) ==
    /\ up[u] = NoUpload
    /\ HoldsWorkspace(p, w)
    /\ kind = "new" <=> f = Nothing
    /\ f # Nothing => file[f].there /\ (kind = "move" <=> file[f].at # w)
    /\ up' = [up EXCEPT ![u] = [NoUpload EXCEPT !.st = "asked", !.kind = kind, !.at = w, !.of = f,
                                  !.by = p, !.seq = IF f = Nothing THEN 0 ELSE file[f].seq]]
    /\ Opens(t, [NoTx EXCEPT !.op = "begin", !.u = u, !.want = <<Ws(w)>>])
    /\ UNCHANGED <<family, storage, file, history>>

\* Mutant: the route's check is enough.
StillWriterUnchecked(p, w) == TRUE

\* nextChangeSeq with requireStillWriter
StillWriter(p, w) == w \in Areas => MayStillRemove(p, w)

\* moveSourceAtBegin, and the file a version or a copy is made of
SourceAtBegin(r) ==
    r.of # Nothing =>
        /\ file[r.of].there /\ file[r.of].seq = r.seq
        /\ r.kind = "move" => HoldsWorkspace(r.by, r.at) /\ MayStillRemove(r.by, file[r.of].at)

BeginAtWorkspace(t) ==
    LET u == tx[t].u
        r == up[u]
    IN  /\ tx[t].op = "begin" /\ MayTake(t, "ws")
        /\ IF Alive(r.at) /\ StillWriter(r.by, r.at) /\ SourceAtBegin(r)
           THEN /\ GoesOn(t, FigureLocks(Took(t), r.at))
                /\ up' = [up EXCEPT ![u].freed = IF r.kind = "move" THEN file[r.of].bytes ELSE 0]
           ELSE Refuse(t, u)
        /\ UNCHANGED <<family, storage, file, history>>

\* The pool's lock, for a begin or a completion: under it the membership is settled.
TakePool(t) ==
    /\ tx[t].verdict = "figures" /\ MayTake(t, "pool")
    /\ IF PoolMovedFrom(t, up[tx[t].u].at) THEN StartsOver(t) ELSE GoesOn(t, Took(t)) /\ UNCHANGED up
    /\ UNCHANGED <<family, storage, file, history>>

\* Within one pool a move is charged what its copy takes beyond what its source frees.
Charge(t, u) ==
    IF IsMove(u) /\ SamePool(up[u].at, tx[t].fam, Source(u)) THEN Max({0, Size[u] - up[u].freed})
    ELSE Size[u]

BeginFigures(t) ==
    LET u == tx[t].u
        cost == Charge(t, u)
    IN  /\ tx[t].op = "begin" /\ MayTake(t, "store")
        /\ IF PoolMovedInto(t, up[u].at) THEN StartsOver(t)
           ELSE IF cost > 0 /\ Spendable(up[u].at, tx[t].fam) < cost THEN Refuse(t, u)
           ELSE /\ GoesOn(t, [Took(t) EXCEPT !.verdict = "reserve", !.cost = cost, !.live = plan.live])
                /\ UNCHANGED up
        /\ UNCHANGED <<family, storage, file, history>>

\* A file of one version: its ready versions' bytes, the current one's, its change sequence
OneVersion(f, w) == [at |-> w, there |-> TRUE, bytes |-> Size[f], cur |-> Size[f], seq |-> 1]
\* A purged file keeps its place only.
PurgedAt(w) == [at |-> w, there |-> FALSE, bytes |-> 0, cur |-> 0, seq |-> 0]

\* drive_uploads_one_move_idx: a file's bytes lower one reservation at a time.
Moving(u) == IsMove(u) /\ \E v \in Uploads \ {u} : up[v].st = "open" /\ IsMove(v) /\ up[v].of = up[u].of

\* The reservation; a copy is there at once and pays for itself.
CommitBegin(t) ==
    LET u == tx[t].u
        w == up[u].at
    IN  /\ Ready(t, "begin", "reserve") /\ ~Moving(u)
        /\ IF up[u].kind = "copy"
           THEN /\ used' = [used EXCEPT ![w] = @ + tx[t].cost]
                /\ up' = [up EXCEPT ![u] = Over]
                /\ file' = [file EXCEPT ![u] = OneVersion(u, w)]
                /\ UNCHANGED reserved
           ELSE /\ reserved' = [reserved EXCEPT ![w] = @ + tx[t].cost]
                /\ up' = [up EXCEPT ![u].st = "open", ![u].res = tx[t].cost]
                /\ UNCHANGED <<used, file>>
        /\ Ends(t)
        /\ UNCHANGED <<family, history>>

BeginMoving(t) ==
    /\ Ready(t, "begin", "reserve") /\ Moving(tx[t].u)
    /\ Refuse(t, tx[t].u)
    /\ UNCHANGED <<family, storage, file, history>>

(***************************************************************************)
(* Completion, by the person (`writer`) or by the expiry job               *)
(***************************************************************************)
FinishCompleting(t, u, writer) ==
    /\ up[u].st = "open"
    /\ Free(CompletionLocks(u)[1])
    /\ Opens(t, Request("finish", u, writer, 0))
    /\ UNCHANGED <<family, storage, file, up, history>>

Lean(u) == up[u].res < Size[u]

\* Mutant: a version on its way is not looked for.
SourceAsBegunSoFar(u) ==
    LET f == file[up[u].of]
    IN  f.there /\ f.seq = up[u].seq /\ f.bytes = up[u].freed

\* moveStillHolds: whose it is, and the file as begin found it
MoverStillHolds(u) ==
    /\ Alive(Source(u))
    /\ MayStillRemove(up[u].by, Source(u))
    /\ MayStillRemove(up[u].by, up[u].at)
SourceAsBegun(u) ==
    LET f == file[up[u].of]
    IN  /\ f.there /\ f.seq = up[u].seq /\ f.bytes = up[u].freed
        /\ ~\E v \in Uploads : up[v].st = "open" /\ up[v].kind = "version" /\ up[v].of = up[u].of

\* A move's copy settles its source too (settleMove), so its storage row is wanted next.
Publishes(r, u) ==
    [r EXCEPT !.verdict = "publish",
              !.want = @ \o IF IsMove(u) THEN <<Store(Source(u))>> ELSE <<>>]
Releases(r) == [r EXCEPT !.verdict = "release"]

\* Under every workspace lock of the completion
Decided(r, u) ==
    LET stores == [r EXCEPT !.want = <<Store(up[u].at)>>]
    IN  IF up[u].kind = "version" /\ ~file[up[u].of].there THEN Releases(stores)
        ELSE IF ~IsMove(u) THEN Publishes(stores, u)
        ELSE IF ~MoverStillHolds(u) THEN Releases(stores)
        ELSE IF Lean(u) THEN FigureLocks(r, up[u].at)
        ELSE IF SourceAsBegun(u) THEN Publishes(stores, u) ELSE Releases(stores)

\* An upload settled meanwhile, or a version whose file has a newer one, is left as it is.
NothingToFinish(u) ==
    \/ up[u].st # "open"
    \/ up[u].kind = "version" /\ file[up[u].of].there /\ file[up[u].of].seq # up[u].seq

FinishAtWorkspace(t) ==
    LET u == tx[t].u
        w == Head(tx[t].want)[2]
        last == Tail(tx[t].want) = <<>>
    IN  /\ tx[t].op = "finish" /\ MayTake(t, "ws")
        /\ IF \/ w = up[u].at /\ (~Alive(w) \/ (tx[t].writer /\ ~StillWriter(up[u].by, w)))
              \/ last /\ NothingToFinish(u)
           THEN Ends(t)
           ELSE GoesOn(t, IF last THEN Decided(Took(t), u) ELSE Took(t))
        /\ UNCHANGED <<family, storage, file, up, history>>

\* The destination's storage row: a lean move first reads whether it is still within one pool.
FinishAtStore(t) ==
    LET u == tx[t].u
    IN  /\ tx[t].op = "finish" /\ MayTake(t, "store")
        /\ IF tx[t].verdict # "figures" THEN GoesOn(t, Took(t)) /\ UNCHANGED up
           ELSE IF PoolMovedInto(t, up[u].at) THEN StartsOver(t)
           ELSE /\ LET r == [Took(t) EXCEPT !.live = plan.live]
                   IN  GoesOn(t, IF SamePool(up[u].at, tx[t].fam, Source(u)) /\ SourceAsBegun(u)
                                 THEN Publishes(r, u) ELSE Releases(r))
                /\ UNCHANGED up
        /\ UNCHANGED <<family, storage, file, history>>

\* publishUpload keeps the version it displaces and purges the one before.
Published(u) ==
    IF up[u].kind = "version"
    THEN [file[up[u].of] EXCEPT !.bytes = Size[u] + file[up[u].of].cur, !.cur = Size[u], !.seq = @ + 1]
    ELSE OneVersion(u, up[u].at)

\* Mutant: the source gives back its current version only.
CommitPublishCurrent(t) ==
    LET u == tx[t].u
        w == up[u].at
        node == IF up[u].kind = "version" THEN up[u].of ELSE u
        added == Published(u).bytes - IF node = u THEN 0 ELSE file[node].bytes
        landed == [file EXCEPT ![node] = Published(u)]
    IN  /\ Ready(t, "finish", "publish")
        /\ up' = [up EXCEPT ![u] = Over]
        /\ reserved' = [reserved EXCEPT ![w] = @ - up[u].res]
        /\ IF IsMove(u)
           THEN /\ file' = [landed EXCEPT ![up[u].of] = PurgedAt(@.at)]
                /\ used' = [used EXCEPT ![w] = @ + added, ![Source(u)] = @ - file[up[u].of].cur]
           ELSE /\ file' = landed
                /\ used' = [used EXCEPT ![w] = @ + added]
        /\ Ends(t)
        /\ UNCHANGED <<family, history>>

CommitPublish(t) ==
    LET u == tx[t].u
        w == up[u].at
        node == IF up[u].kind = "version" THEN up[u].of ELSE u
        added == Published(u).bytes - IF node = u THEN 0 ELSE file[node].bytes
        landed == [file EXCEPT ![node] = Published(u)]
    IN  /\ Ready(t, "finish", "publish")
        /\ up' = [up EXCEPT ![u] = Over]
        /\ reserved' = [reserved EXCEPT ![w] = @ - up[u].res]
        /\ IF IsMove(u)
           THEN /\ file' = [landed EXCEPT ![up[u].of] = PurgedAt(@.at)]
                /\ used' = [used EXCEPT ![w] = @ + added, ![Source(u)] = @ - file[up[u].of].bytes]
           ELSE /\ file' = landed
                /\ used' = [used EXCEPT ![w] = @ + added]
        /\ Ends(t)
        /\ UNCHANGED <<family, history>>

\* releaseUpload
CommitRelease(t) ==
    LET u == tx[t].u
    IN  /\ Ready(t, "finish", "release")
        /\ up' = [up EXCEPT ![u] = Over]
        /\ reserved' = [reserved EXCEPT ![up[u].at] = @ - up[u].res]
        /\ Ends(t)
        /\ UNCHANGED <<family, used, file, history>>

\* abortUpload, by the client or by the expiry sweep
AbortUpload(u) ==
    /\ up[u].st = "open" /\ Free(Ws(up[u].at)) /\ Free(Store(up[u].at))
    /\ up' = [up EXCEPT ![u] = Over]
    /\ reserved' = [reserved EXCEPT ![up[u].at] = @ - up[u].res]
    /\ UNCHANGED <<family, used, file, tx, history>>

\* purgeOne for a file deleted for good
DeleteFile(f) ==
    /\ file[f].there /\ Free(Ws(file[f].at)) /\ Free(Store(file[f].at))
    /\ used' = [used EXCEPT ![file[f].at] = @ - file[f].bytes]
    /\ file' = [file EXCEPT ![f] = PurgedAt(@.at)]
    /\ UNCHANGED <<family, reserved, up, tx, history>>

(***************************************************************************)
(* The family: admissions, departures, holds, deleted accounts, the plan   *)
(***************************************************************************)
\* Opened with its first lock: until then it has read nothing, and holds up nobody.
Opened(t, op, p, first, want) ==
    Free(first) /\ Opens(t, [NoTx EXCEPT !.op = op, !.p = p, !.have = {first}, !.want = want])
Changes == changes < MaxChanges /\ changes' = changes + 1

AcceptInvitation(p) ==
    /\ member[p] = "out" /\ Free(Group) /\ Free(Person(p))
    /\ member' = [member EXCEPT ![p] = "accepted"]
    /\ UNCHANGED <<plan, storage, file, up, tx, history>>

AdmitMember(t, p) ==
    /\ p # Organizer
    /\ Opened(t, "admit", p, Group, AreaLocks \o <<Pool, Person(p), Store(p)>>)
    /\ UNCHANGED <<family, storage, file, up, history>>

\* leaveGroup, and a removal by another member
LeaveFamily(t, p) ==
    /\ p # Organizer /\ Changes
    /\ Opened(t, "leave", p, Group, AreaLocks \o <<Pool>>)
    /\ UNCHANGED <<family, storage, file, up, missed>>

\* deleteAccount: the memberships are read first; no pool lock
DeleteAccount(t, p) ==
    /\ p # Organizer /\ Alive(p) /\ Changes
    /\ Opens(t, [NoTx EXCEPT !.op = "delete", !.p = p,
                 !.want = (IF member[p] = "out" THEN <<>> ELSE <<Group>> \o AreaLocks)
                              \o <<Person(p), Ws(p), Store(p)>>])
    /\ UNCHANGED <<family, storage, file, up, missed>>

\* Mutant: the plan is written without the pool's lock.
ApplyPlanUnlocked(t) ==
    /\ Changes
    /\ Opened(t, "plan", Nothing, Group, <<>>)
    /\ UNCHANGED <<family, storage, file, up, missed>>

\* applyGroupState
ApplyPlan(t) ==
    /\ Changes
    /\ Opened(t, "plan", Nothing, Group, <<Pool>>)
    /\ UNCHANGED <<family, storage, file, up, missed>>

\* A lock of these four, with nothing read under it but what the commit reads
TakeInTurn(t) ==
    /\ tx[t].op \in {"admit", "leave", "delete", "plan"}
    /\ \E kind \in {"group", "ws", "pool", "person", "store"} :
          /\ MayTake(t, kind)
          /\ ~(tx[t].op = "admit" /\ kind = "store")
    /\ GoesOn(t, Took(t))
    /\ UNCHANGED <<family, storage, file, up, history>>

\* The newcomer's storage row is locked before the pool is counted.
AdmitFigures(t) ==
    /\ tx[t].op = "admit" /\ MayTake(t, "store")
    /\ IF member[tx[t].p] = "accepted" /\ AdmissionFits(tx[t].p) THEN GoesOn(t, Took(t)) ELSE Ends(t)
    /\ UNCHANGED <<family, storage, file, up, history>>

CommitMember(t) ==
    LET p == tx[t].p
    IN  /\ \/ /\ Ready(t, "admit", "none")
              /\ member' = [member EXCEPT ![p] = "active"]
           \/ /\ Ready(t, "leave", "none")
              /\ member' = [member EXCEPT ![p] = IF @ = "gone" THEN @ ELSE "out"]
        /\ Ends(t)
        /\ UNCHANGED <<plan, storage, file, up, history>>

CommitDelete(t) ==
    LET p == tx[t].p
    IN  /\ Ready(t, "delete", "none")
        /\ member' = [member EXCEPT ![p] = "gone"]
        /\ file' = [f \in Files |-> IF file[f].at = p THEN PurgedAt(p) ELSE file[f]]
        /\ up' = [u \in Uploads |-> IF up[u].at = p /\ up[u].st = "open"
                                    THEN Over ELSE up[u]]
        /\ used' = [used EXCEPT ![p] = 0]
        /\ reserved' = [reserved EXCEPT ![p] = 0]
        /\ missed' = IF Active(p) /\ Group \notin tx[t].have THEN missed \cup {p} ELSE missed
        /\ Ends(t)
        /\ UNCHANGED <<plan, changes>>

CommitPlan(t) ==
    /\ Ready(t, "plan", "none")
    /\ plan' \in Plans
    /\ Ends(t)
    /\ UNCHANGED <<member, storage, file, up, history>>

\* The period and its grace run out: no transaction, no lock.
PlanExpires ==
    /\ plan.live /\ Changes
    /\ plan' = [plan EXCEPT !.live = FALSE]
    /\ UNCHANGED <<member, storage, file, up, tx, missed>>

\* placeHold takes the group's row only; a hold ends by its clock.
PlaceHold(p) ==
    /\ member[p] = "active" /\ p # Organizer /\ Free(Group) /\ Changes
    /\ member' = [member EXCEPT ![p] = "held"]
    /\ UNCHANGED <<plan, storage, file, up, tx, missed>>

HoldEnds(p) ==
    /\ member[p] = "held"
    /\ member' = [member EXCEPT ![p] = "active"]
    /\ UNCHANGED <<plan, storage, file, up, tx, history>>

(***************************************************************************)
BytesAt(w) == SumOf([f \in Files |-> file[f].bytes], {f \in Files : file[f].at = w})
ReservedAt(w) == SumOf([u \in Uploads |-> up[u].res], {u \in Uploads : up[u].at = w})

Init ==
    /\ \E m \in [People -> {"out", "active"}] : m[Organizer] = "active" /\ member = m
    /\ plan \in Plans
    /\ \E at \in [Old -> OldAt] :
          file = [f \in Files |-> IF f \in Old THEN OneVersion(f, at[f]) ELSE PurgedAt(Nothing)]
    /\ used = [w \in Workspaces |-> BytesAt(w)]
    /\ reserved = [w \in Workspaces |-> 0]
    /\ up = [u \in Uploads |-> NoUpload]
    /\ tx = [t \in Txs |-> NoTx]
    /\ missed = {} /\ changes = 0

Next ==
    \/ \E t \in Txs :
          \/ \E u \in Uploads, p \in People, w \in Workspaces, f \in Files \cup {Nothing} :
                \E k \in Kinds[u] : BeginUpload(t, u, k, w, p, f)
          \/ BeginAtWorkspace(t) \/ TakePool(t) \/ BeginFigures(t) \/ CommitBegin(t) \/ BeginMoving(t)
          \/ \E u \in Uploads, writer \in BOOLEAN : FinishCompleting(t, u, writer)
          \/ FinishAtWorkspace(t) \/ FinishAtStore(t) \/ CommitPublish(t) \/ CommitRelease(t)
          \/ \E p \in People : AdmitMember(t, p) \/ LeaveFamily(t, p) \/ DeleteAccount(t, p)
          \/ ApplyPlan(t)
          \/ TakeInTurn(t) \/ AdmitFigures(t)
          \/ CommitMember(t) \/ CommitDelete(t) \/ CommitPlan(t)
    \/ \E u \in Uploads : AbortUpload(u)
    \/ \E f \in Files : DeleteFile(f)
    \/ \E p \in People : AcceptInvitation(p) \/ PlaceHold(p) \/ HoldEnds(p)
    \/ PlanExpires

Spec == Init /\ [][Next]_vars

(***************************************************************************)
(* Properties                                                              *)
(***************************************************************************)
\* Memberships and counters have the values their columns allow, and a lock has one holder.
TypeOK ==
    /\ member \in [People -> {"out", "accepted", "active", "held", "gone"}]
    /\ \A w \in Workspaces : used[w] \in Nat /\ reserved[w] \in Nat
    /\ \A t \in Txs : tx[t].have \subseteq Locks
    /\ \A s, t \in Txs : s # t => tx[s].have \cap tx[t].have = {}

\* Every workspace's counters are what its files and its uploads take, through moves between them.
CountersExact ==
    \A w \in Workspaces :
        /\ used[w] = BytesAt(w)
        /\ reserved[w] = ReservedAt(w)

\* The family's rows keep their shape, no lock is held twice, and the counters are exact.
Accounted == TypeOK /\ CountersExact

\* While a plan runs, what a family stores and reserves never rises past it; nor, in no family,
\* what a person does past their own allowance.  Once it has ended, the folders take no more and
\* a member no more than their own allowance, but for what was judged while it still ran.
SpendsWithin ==
    [][/\ plan.live /\ plan'.live /\ PoolBytes' > PoolBytes => PoolBytes' <= plan'.quota
       /\ \A p \in People :
             ~Active(p) /\ ~Active(p)' /\ Total(p)' > Total(p) => Total(p)' <= Base
       /\ ~plan.live /\ (\A t \in Txs : tx[t].live => tx'[t] = tx[t]) =>
             /\ SumOver(Areas)' <= SumOver(Areas)
             /\ \A p \in People : Total(p)' > Total(p) => Total(p)' <= Base]_vars

\* Locks, retries and reads between them come to what the ledger says: every transaction takes
\* effect at its commit as if it were alone, judged by the pool as it stands then.
AtOnce == INSTANCE PoolLedger WITH Most <- Max({Size[f] : f \in Files})
KeepsLedger == AtOnce!LedgerSpec

\* Someone may act in a workspace they hold.  A deletion that found its account in no family does
\* not wait for who writes in the areas: what was under way there for a member it missed may land.
MayAct(p, w) == HoldsWorkspace(p, w) \/ (p \in missed /\ w \in Areas)

\* A move's completion deletes its source only while its mover may act in both ends, and only the
\* version they read, with no newer one there or on its way.
MoveTakesWhatWasRead ==
    [][\A t \in Txs : CommitPublish(t) /\ IsMove(tx[t].u) =>
          LET r == up[tx[t].u]
          IN  /\ MayAct(r.by, r.at) /\ MayAct(r.by, file[r.of].at)
              /\ file[r.of].there /\ file[r.of].seq = r.seq
              /\ \A v \in Uploads : up[v].st = "open" => up[v].kind # "version" \/ up[v].of # r.of]_vars

\* Nothing a person asked for lands in a family's folder once they are out of the family.
NothingAfterLeaving ==
    [][\A t \in Txs : CommitBegin(t) \/ (CommitPublish(t) /\ tx[t].writer) =>
          MayAct(up[tx[t].u].by, up[tx[t].u].at)]_vars

\* No move's completion is in a circle of transactions that wait for each other: none of a set
\* that each wait for one of it and are each waited for by one of it.
WaitsOn(s, t) == tx[s].want # <<>> /\ Head(tx[s].want) \in tx[t].have
MovesNeverDeadlock ==
    ~\E S \in SUBSET Txs :
        /\ \E t \in S : tx[t].op = "finish" /\ IsMove(tx[t].u)
        /\ \A s \in S : (\E t \in S \ {s} : WaitsOn(s, t)) /\ (\E t \in S \ {s} : WaitsOn(t, s))
=============================================================================
