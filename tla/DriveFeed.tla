----------------------------- MODULE DriveFeed -----------------------------
(***************************************************************************)
(* The change feed of a workspace and the copies clients keep of it.  The  *)
(* server lists nodes past a cursor in three statements; each tab of one   *)
(* device pulls pages into a mirror they share, each page and its cursor in*)
(* one transaction, and brings a catalogue of its own up to date from what *)
(* arrived.  What wakes it is the app, which asks for news past a cursor of*)
(* its own and hands it on once.  Tombstones are dropped after ninety days,*)
(* which the feed tells a client that may have missed one by `resync`.     *)
(*                                                                         *)
(* One workspace.  A row is the node's parent and change sequence; names,  *)
(* keys and files are left out.  A tab's pull holds what the client's local*)
(* variables hold between two awaits.                                      *)
(***************************************************************************)
EXTENDS DriveWalks

CONSTANTS
    Nodes,      \* node ids
    Folders,    \* the ids folders take
    Tree,       \* the parents of the nodes there at the start
    Tabs,       \* tabs of one device
    Page,       \* FEED_PAGE
    Polled,     \* the page the app asks for
    Own,        \* the own drive, or an area's
    Visited,    \* the device holds the rows an earlier visit left
    Events,     \* what else happens: see Write and Next
    MaxSeq,     \* bound: change sequences taken
    MaxQueued   \* bound: news handed on that waits at once

Top == 0        \* the workspace's top folder, which never changes here

ASSUME FeedAssumption ==
    /\ Nodes \subseteq Nat \ {Top} /\ IsFiniteSet(Nodes) /\ Folders \subseteq Nodes
    /\ DOMAIN Tree \subseteq Nodes
    /\ \A n \in DOMAIN Tree : Tree[n] < n /\ Tree[n] \in (DOMAIN Tree \cap Folders) \cup {Top}
    /\ Page \in Nat \ {0} /\ MaxSeq \in Nat /\ \A n \in DOMAIN Tree : n <= MaxSeq
    /\ Polled \in Nat \ {0} /\ Own \in BOOLEAN /\ Visited \in BOOLEAN /\ MaxQueued \in Nat \ {0}

VARIABLES
    node,       \* drive_nodes
    seqNo,      \* workspaces.change_seq
    dropped,    \* workspaces.tombstones_dropped_through
    old,        \* tombstones past their window
    mirror,     \* the device's mirror: rows and cursor
    tab,        \* each tab's pull, and whether its catalogue is filed
    catalogue,  \* each tab's catalogue: rows and cursor
    app,        \* each tab's own position in the feed, and the news it handed on
    lost,       \* history: what a copy dropped, and could be reached: see Strays, Orphans
    calm        \* history: one tab, no listing read across a write, no pull cut off midway

vars == <<node, seqNo, dropped, old, mirror, tab, catalogue, app, lost, calm>>
server == <<node, seqNo, dropped, old>>

NoRow == [parent |-> Top, seq |-> 0]
NoRows == [n \in Nodes |-> NoRow]
Held(rows) == {n \in Nodes : rows[n] # NoRow}
Put(rows, new) == [n \in Nodes |-> IF new[n] # NoRow THEN new[n] ELSE rows[n]]
Without(rows, gone) == [n \in Nodes |-> IF n \in gone THEN NoRow ELSE rows[n]]

(* What hangs below the nodes of S among these rows. *)
PurgedBelow(rows, S) ==
    LET up == [n \in Nodes |-> rows[n].parent] IN
    UNION {Subtree(up, Held(rows), r) \ {r} : r \in S}

(* parentsFirst: the rows a walk down from the top folder meets. *)
Ordered(rows) ==
    LET up == [n \in Nodes |-> rows[n].parent] IN
    {n \in Held(rows) : Climb(up, n) \subseteq Held(rows)}

Kept(rows) == Without(rows, Nodes \ Ordered(rows))

(* A pull as it starts. *)
NoPull == [pc |-> "idle", from |-> 0, cursor |-> 0, mirrored |-> 0, first |-> TRUE,
           refile |-> FALSE, attempt |-> 0, arrived |-> NoRows, purged |-> {}, below |-> {},
           parents |-> {}, resync |-> FALSE, ids |-> {}, changes |-> NoRows, tombs |-> {},
           next |-> 0, more |-> FALSE]
Closed == [phase |-> "closed", rebuilt |-> FALSE, pull |-> NoPull]

(* `unmet` is the history of `since`: where it stood when what was handed  *)
(* on was last not acted on.                                               *)
Away == [on |-> FALSE, since |-> 0, queued |-> 0, ready |-> FALSE, unmet |-> 0]

(* Every tab starts closed, the mirror as an earlier visit left it. *)
Init ==
    /\ node = [n \in Nodes |->
          IF n \in DOMAIN Tree THEN [state |-> "live", parent |-> Tree[n], seq |-> n]
          ELSE [state |-> "none", parent |-> Top, seq |-> 0]]
    /\ seqNo \in DOMAIN Tree /\ \A n \in DOMAIN Tree : n <= seqNo
    /\ dropped = 0 /\ old = {}
    /\ mirror = IF Visited
                THEN [rows |-> [n \in Nodes |-> IF n \in DOMAIN Tree
                                                THEN [parent |-> Tree[n], seq |-> n] ELSE NoRow],
                      cursor |-> seqNo]
                ELSE [rows |-> NoRows, cursor |-> 0]
    /\ tab = [t \in Tabs |-> Closed]
    /\ catalogue = [t \in Tabs |-> [rows |-> NoRows, cursor |-> 0]]
    /\ app = [t \in Tabs |-> Away]
    /\ lost = {} /\ calm = (\E t \in Tabs : Tabs = {t})

-----------------------------------------------------------------------------
(* The server's writes, each in one transaction. *)

Up == [n \in Nodes |-> node[n].parent]
Reached(n) == \A m \in Climb(Up, n) : node[m].state = "live"

(* What a sweep takes from a copy at `cursor` though it can be reached: a   *)
(* folder above was moved out, and the copy has not heard of it yet.        *)
Strays(rows, cursor, swept) ==
    {n \in swept : /\ Reached(n) /\ node[n].seq <= cursor
                   /\ \E a \in Climb(Up, n) \cap Held(rows) : rows[a].parent # node[a].parent}

(* What is no part of the tree of a copy at `cursor` though it can be      *)
(* reached: a folder above changed past there, or was dropped itself.      *)
Orphans(rows, cursor) ==
    {n \in Held(rows) \ Ordered(rows) :
        /\ Reached(n) /\ node[n].seq <= cursor
        /\ \E a \in Climb(Up, n) : node[a].seq > cursor \/ a \in lost}

Place(p) == p = Top \/ (p \in Folders /\ Reached(p))

(* Without "amid", nothing falls between two statements of a listing. *)
Lists(t) == tab[t].pull.pc \in {"marked", "listed"}
Listing == \E t \in Tabs : Lists(t)
Between == "amid" \in Events \/ ~Listing

Stamp(n, state, parent) ==
    /\ seqNo < MaxSeq /\ Between
    /\ seqNo' = seqNo + 1
    /\ node' = [node EXCEPT ![n] = [state |-> state, parent |-> parent, seq |-> seqNo']]
    /\ lost' = lost \ {n} /\ calm' = (calm /\ ~Listing)
    /\ UNCHANGED <<dropped, old, mirror, tab, catalogue, app>>

Create(n, p) == node[n].state = "none" /\ Place(p) /\ Stamp(n, "live", p)

(* A rename, a trash or a restore: the row and its new sequence. *)
Touch(n) == Reached(n) /\ Stamp(n, "live", node[n].parent)

MoveNode(n, p) ==
    /\ Reached(n) /\ Place(p) /\ p # node[n].parent
    /\ p # Top => n \notin Climb(Up, p)
    /\ Stamp(n, "live", p)

PurgeNode(n) == Reached(n) /\ Stamp(n, "gone", node[n].parent)

(* purgeDescendants *)
PurgeDescendant(n) ==
    /\ node[n].state = "live" /\ node[n].parent # Top /\ node[node[n].parent].state = "gone"
    /\ Stamp(n, "gone", node[n].parent)

(* Ninety days go by; no pull takes that long.  Without "asleep" no tab     *)
(* whose catalogue stands at nothing goes so long without a poll.          *)
Ninety ==
    /\ \A t \in Tabs : tab[t].pull = NoPull
    /\ "asleep" \in Events \/ \A t \in Tabs : tab[t].phase = "filed" => catalogue[t].cursor > 0
    /\ old # {n \in Nodes : node[n].state = "gone"}
    /\ old' = {n \in Nodes : node[n].state = "gone"}
    /\ UNCHANGED <<node, seqNo, dropped, mirror, tab, catalogue, app, lost, calm>>

(* deleteExpiredTombstones: leaves first. *)
DeleteTombstone(n) ==
    /\ n \in old
    /\ \A m \in Nodes : node[m].parent = n => node[m].state \in {"none", "dropped"}
    /\ Between /\ ("midpull" \in Events \/ \A t \in Tabs : tab[t].pull = NoPull)
    /\ node' = [node EXCEPT ![n].state = "dropped"]
    /\ old' = old \ {n}
    /\ dropped' = IF node[n].seq > dropped THEN node[n].seq ELSE dropped
    /\ calm' = (calm /\ ~Listing)
    /\ UNCHANGED <<seqNo, mirror, tab, catalogue, app, lost>>

-----------------------------------------------------------------------------
(* listChanges: three statements. *)

Step(t, pull) == tab' = [tab EXCEPT ![t].pull = pull]

ReadMark(t) ==
    /\ tab[t].pull.pc = "ask"
    /\ Step(t, [tab[t].pull EXCEPT !.pc = "marked",
                   !.resync = tab[t].pull.cursor > 0 /\ tab[t].pull.cursor < dropped])
    /\ UNCHANGED <<server, mirror, catalogue, app, lost, calm>>

Listed(c) == {n \in Nodes : node[n].state \in {"live", "gone"} /\ node[n].seq > c}

FirstPage(c, limit) ==
    LET all == Listed(c) IN
    {n \in all : Cardinality({m \in all : node[m].seq < node[n].seq}) < limit}

ReadIds(t) ==
    /\ tab[t].pull.pc = "marked"
    /\ LET ids == FirstPage(tab[t].pull.cursor, Page)
       IN Step(t, [tab[t].pull EXCEPT !.pc = "listed", !.ids = {<<n, node[n].seq>> : n \in ids},
                                      !.more = Listed(tab[t].pull.cursor) # ids])
    /\ UNCHANGED <<server, mirror, catalogue, app, lost, calm>>

(* A row the purge job has deleted since makes the request fail. *)
ReadNodes(t) ==
    /\ tab[t].pull.pc = "listed"
    /\ \A i \in tab[t].pull.ids : node[i[1]].state # "dropped"
    /\ LET pull == tab[t].pull
           named == {i[1] : i \in pull.ids}
       IN Step(t, [pull EXCEPT !.pc = "paged",
              !.changes = [n \in Nodes |-> IF n \in named /\ node[n].state = "live"
                              THEN [parent |-> node[n].parent, seq |-> node[n].seq] ELSE NoRow],
              !.tombs = {n \in named : node[n].state = "gone"},
              !.next = IF pull.ids = {} THEN pull.cursor
                       ELSE CHOOSE s \in {i[2] : i \in pull.ids} : \A i \in pull.ids : i[2] <= s])
    /\ UNCHANGED <<server, mirror, catalogue, app, lost, calm>>

-----------------------------------------------------------------------------
(* pullFeed, one transaction of the mirror at a time. *)

Lesser(a, b) == IF a < b THEN a ELSE b
Greater(a, b) == IF a < b THEN b ELSE a

(* A pull for a build starts at the mirror's cursor; for a catalogue, no   *)
(* later than where the catalogue stands.                                  *)
PullFrom(t, attempt) ==
    LET from == catalogue[t].cursor
        building == tab[t].phase # "filed"
        start == IF building THEN mirror.cursor ELSE Lesser(from, mirror.cursor)
    IN [NoPull EXCEPT !.pc = "ask", !.from = IF building THEN 0 ELSE from,
           !.mirrored = mirror.cursor, !.cursor = start, !.attempt = attempt,
           !.refile = ~building /\ start = 0 /\ from > 0]

-----------------------------------------------------------------------------
(* What the app does: it opens a Drive page, polls, and hands news on.     *)

client == <<mirror, tab, catalogue>>
NotActedOn(t) == [app EXCEPT ![t].unmet = Greater(@, app[t].since)]

(* A Drive page is opened, and buildCatalogue with it: the own drive's app *)
(* starts from nothing, an area's from where the server stands; after a    *)
(* build that failed or starts over, it stays where it is.                 *)
Open(t) ==
    /\ tab[t].phase = "closed"
    /\ tab' = [tab EXCEPT ![t] = [@ EXCEPT !.phase = "building", !.pull = PullFrom(t, 0)]]
    /\ app' = [app EXCEPT ![t].on = TRUE, ![t].since = IF Own \/ app[t].on THEN @ ELSE seqNo]
    /\ UNCHANGED <<server, mirror, catalogue, lost, calm>>

(* The rows of a build are opened. *)
Opened(t) ==
    /\ tab[t].phase = "filed" /\ ~app[t].ready
    /\ app' = [app EXCEPT ![t].ready = TRUE]
    /\ UNCHANGED <<server, client, lost, calm>>

(* Where the app's next page would take it, if it has any change. *)
News(t) ==
    LET heard == {node[n].seq : n \in FirstPage(app[t].since, Polled)}
    IN {s \in heard : \A r \in heard : r <= s}

(* Mutant: what comes while another ingest runs is taken as part of it. *)
HandOnOnce(t, since) ==
    \/ /\ app[t].ready /\ tab[t].pull = NoPull
       /\ app' = [app EXCEPT ![t].since = since]
       /\ Step(t, PullFrom(t, 0))
    \/ /\ app[t].ready => tab[t].pull # NoPull
       /\ app' = [app EXCEPT ![t].since = since, ![t].unmet = IF app[t].ready THEN @ ELSE since]
       /\ UNCHANGED tab

(* ingest: nothing until the catalogue is ready, and one at a time. *)
HandOn(t, since) ==
    \/ /\ ~app[t].ready
       /\ app' = [app EXCEPT ![t].since = since, ![t].unmet = since]
       /\ UNCHANGED tab
    \/ /\ app[t].ready /\ tab[t].pull = NoPull /\ app[t].queued = 0
       /\ app' = [app EXCEPT ![t].since = since]
       /\ Step(t, PullFrom(t, 0))
    \/ /\ app[t].ready /\ tab[t].pull # NoPull /\ app[t].queued < MaxQueued
       /\ app' = [app EXCEPT ![t].since = since, ![t].queued = @ + 1]
       /\ UNCHANGED tab

(* pollOwn, changesSince: news is handed on, once. *)
Hear(t) ==
    /\ app[t].on /\ \E to \in News(t) : HandOn(t, to)
    /\ UNCHANGED <<server, mirror, catalogue, lost, calm>>

(* catchUp: after a change made here. *)
CatchUp(t) ==
    /\ app[t].ready /\ HandOn(t, app[t].since)
    /\ UNCHANGED <<server, mirror, catalogue, lost, calm>>

(* What waited is taken in turn. *)
Ingest(t) ==
    /\ app[t].queued > 0 /\ tab[t].pull = NoPull
    /\ Step(t, PullFrom(t, 0))
    /\ app' = [app EXCEPT ![t].queued = @ - 1]
    /\ UNCHANGED <<server, mirror, catalogue, lost, calm>>

-----------------------------------------------------------------------------
(* A pull goes on. *)

(* Mutant: the catalogue is not told to refile. *)
StartOverUnfiled(t) ==
    LET pull == tab[t].pull IN
    /\ pull.pc = "paged" /\ pull.first /\ pull.resync /\ pull.cursor > 0
    /\ Step(t, [pull EXCEPT !.pc = "ask", !.cursor = 0, !.mirrored = 0])
    /\ mirror' = [rows |-> NoRows, cursor |-> 0]
    /\ UNCHANGED <<server, catalogue, app, lost, calm>>

(* The first page says the start was too old. *)
StartOver(t) ==
    LET pull == tab[t].pull IN
    /\ pull.pc = "paged" /\ pull.first /\ pull.resync /\ pull.cursor > 0
    /\ IF pull.cursor < pull.mirrored
       THEN /\ Step(t, [pull EXCEPT !.pc = "ask", !.refile = TRUE, !.cursor = pull.mirrored])
            /\ UNCHANGED mirror
       ELSE /\ Step(t, [pull EXCEPT !.pc = "ask", !.refile = TRUE, !.cursor = 0, !.mirrored = 0])
            /\ mirror' = [rows |-> NoRows, cursor |-> 0]
    /\ UNCHANGED <<server, catalogue, app, lost, calm>>

(* Mutant: off by one. *)
FreshLate(pull) == {i[1] : i \in {i \in pull.ids : i[2] > mirror.cursor + 1}}

(* mirror.apply: what is at or below the mirror's cursor is left alone, and*)
(* a page from past it refused.                                            *)
Fresh(pull) == {i[1] : i \in {i \in pull.ids : i[2] > mirror.cursor}}

(* What there is to sweep below, once the last page is there. *)
SweptBelow(pull) == pull.below \cup (pull.purged \cap pull.parents)

Apply(t) ==
    LET pull == tab[t].pull
        fresh == Fresh(pull)
        put == [n \in Nodes |-> IF n \in fresh THEN pull.changes[n] ELSE NoRow]
        gone == pull.tombs \cap fresh
        kept == [pull EXCEPT !.first = FALSE, !.cursor = pull.next,
                    !.arrived = Put(@, pull.changes), !.purged = @ \cup pull.tombs,
                    !.below = @ \cup (gone \cap Held(mirror.rows) \cap Folders),
                    !.parents = @ \cup {pull.changes[n].parent : n \in Held(pull.changes)}]
    IN
    /\ pull.pc = "paged" /\ ~(pull.first /\ pull.resync /\ pull.cursor > 0)
    /\ IF pull.cursor > mirror.cursor
       THEN Step(t, [pull EXCEPT !.pc = "refused", !.first = FALSE]) /\ UNCHANGED mirror
       ELSE /\ mirror' = [rows |-> Without(Put(mirror.rows, put), gone),
                          cursor |-> Greater(mirror.cursor, pull.next)]
            /\ Step(t, [kept EXCEPT !.pc = IF pull.more THEN "ask"
                                           ELSE IF SweptBelow(kept) = {} THEN "swept" ELSE "pulled"])
    /\ UNCHANGED <<server, catalogue, app, lost, calm>>

(* The mirror was cleared since the page was asked for. *)
GoBack(t) ==
    LET pull == tab[t].pull
        cursor == Lesser(pull.cursor, mirror.cursor)
    IN
    /\ pull.pc = "refused"
    /\ Step(t, [pull EXCEPT !.pc = "ask", !.cursor = cursor,
                            !.refile = @ \/ (cursor = 0 /\ pull.from > 0)])
    /\ UNCHANGED <<server, mirror, catalogue, app, lost, calm>>

(* mirror.dropBelow *)
DropBelow(pull) ==
    LET swept == PurgedBelow(mirror.rows, SweptBelow(pull)) IN
    /\ mirror' = [mirror EXCEPT !.rows = Without(@, swept)]
    /\ lost' = lost \cup Strays(mirror.rows, mirror.cursor, swept)

Sweep(t) ==
    /\ tab[t].pull.pc = "pulled"
    /\ DropBelow(tab[t].pull)
    /\ Step(t, [tab[t].pull EXCEPT !.pc = "swept"])
    /\ UNCHANGED <<server, catalogue, app, calm>>

(* A request fails: what the pages before it took off is swept below, and  *)
(* the build or the ingest ends there.                                     *)
Fail(t) ==
    /\ tab[t].pull.pc \in {"ask", "marked", "listed"}
    /\ DropBelow(tab[t].pull)
    /\ tab' = [tab EXCEPT ![t] = [@ EXCEPT !.pull = NoPull,
                  !.phase = IF tab[t].phase = "building" THEN "closed" ELSE tab[t].phase]]
    /\ app' = IF app[t].ready THEN NotActedOn(t) ELSE app
    /\ calm' = (calm /\ tab[t].pull.first)
    /\ UNCHANGED <<server, catalogue>>

(* A lock stops everything before the next write; a reload forgets whether *)
(* it has rebuilt, where its app stood.                                    *)
Close(t, reload) ==
    /\ tab[t].phase # "closed"
    /\ tab' = [tab EXCEPT ![t] = [Closed EXCEPT !.rebuilt = tab[t].rebuilt /\ ~reload]]
    /\ catalogue' = [catalogue EXCEPT ![t] = [rows |-> NoRows, cursor |-> 0]]
    /\ app' = [app EXCEPT ![t] =
                  [Away EXCEPT !.since = IF reload THEN 0 ELSE app[t].since]]
    /\ UNCHANGED <<server, mirror, lost, calm>>

-----------------------------------------------------------------------------
(* The catalogue. *)

(* What was not acted on, unless these rows hold it. *)
Standing(t, unmet, cursor) == [app EXCEPT ![t].unmet = IF unmet > cursor THEN unmet ELSE 0]

File(t, rows, cursor) ==
    /\ catalogue' = [catalogue EXCEPT ![t] = [rows |-> rows, cursor |-> cursor]]
    /\ tab' = [tab EXCEPT ![t] = [@ EXCEPT !.phase = "filed", !.pull = NoPull]]

FileKept(t) ==
    /\ File(t, Kept(mirror.rows), mirror.cursor)
    /\ lost' = lost \cup Orphans(mirror.rows, mirror.cursor)

(* A build files the mirror's rows, another tab's to clear since its pull  *)
(* ended, or starts over once on an orphan.                                *)
Build(t) ==
    /\ tab[t].phase = "building" /\ tab[t].pull.pc = "swept"
    /\ IF Ordered(mirror.rows) # Held(mirror.rows) /\ ~tab[t].rebuilt
       THEN /\ mirror' = [rows |-> NoRows, cursor |-> 0]
            /\ tab' = [tab EXCEPT ![t] = [Closed EXCEPT !.rebuilt = TRUE]]
            /\ UNCHANGED <<catalogue, app, lost>>
       ELSE /\ FileKept(t)
            /\ app' = Standing(t, IF mirror.cursor < tab[t].pull.cursor THEN app[t].since
                                  ELSE app[t].unmet, mirror.cursor)
            /\ UNCHANGED mirror
    /\ UNCHANGED <<server, calm>>

(* fileArrived *)
FileArrived(t) ==
    LET pull == tab[t].pull
        rows == Put(catalogue[t].rows, pull.arrived)
        below == PurgedBelow(rows, pull.purged)
        cursor == Greater(catalogue[t].cursor, pull.cursor)
    IN
    /\ tab[t].phase = "filed" /\ pull.pc = "swept" /\ ~pull.refile
    /\ File(t, Without(rows, pull.purged \cup below), cursor)
    /\ lost' = lost \cup Strays(rows, cursor, below)
    /\ app' = Standing(t, app[t].unmet, cursor)
    /\ UNCHANGED <<server, mirror, calm>>

(* A refile takes the mirror's rows, unless another tab has cleared it: it *)
(* pulls again then, twice at most.                                        *)
Refile(t) ==
    LET pull == tab[t].pull IN
    /\ tab[t].phase = "filed" /\ pull.pc = "swept" /\ pull.refile
    /\ IF mirror.cursor >= pull.cursor
       THEN FileKept(t) /\ app' = Standing(t, app[t].unmet, mirror.cursor)
       ELSE /\ IF pull.attempt < 2
               THEN Step(t, PullFrom(t, pull.attempt + 1)) /\ UNCHANGED app
               ELSE Step(t, NoPull) /\ app' = NotActedOn(t)
            /\ UNCHANGED <<catalogue, lost>>
    /\ UNCHANGED <<server, mirror, calm>>

-----------------------------------------------------------------------------
Write ==
    \/ \E n \in Nodes :
          \/ "touch" \in Events /\ Touch(n)
          \/ "purge" \in Events /\ (PurgeNode(n) \/ PurgeDescendant(n))
          \/ "drop" \in Events /\ DeleteTombstone(n)
    \/ \E n \in Nodes, p \in Nodes \cup {Top} :
          \/ "create" \in Events /\ Create(n, p)
          \/ "move" \in Events /\ MoveNode(n, p)
    \/ "drop" \in Events /\ Ninety

Pull(t) ==
    \/ ReadMark(t) \/ ReadIds(t) \/ ReadNodes(t)
    \/ StartOver(t) \/ Apply(t) \/ GoBack(t) \/ Sweep(t)
    \/ Build(t) \/ FileArrived(t) \/ Refile(t)

(* A tab goes on with what it has to do. *)
Proceed(t) ==
    /\ Between \/ Lists(t)
    /\ Pull(t) \/ Ingest(t) \/ Open(t) \/ Opened(t) \/ Hear(t)

Next ==
    \/ Write
    \/ \E t \in Tabs :
          \/ Proceed(t)
          \/ "local" \in Events /\ CatchUp(t)
          \/ "fail" \in Events /\ Fail(t)
          \/ "close" \in Events /\ \E reload \in BOOLEAN : Close(t, reload)

Spec == Init /\ [][Next]_vars

-----------------------------------------------------------------------------
Rows == [Nodes -> [parent : Nodes \cup {Top}, seq : Nat]]

(* Every variable has the shape its table or its store gives it. *)
TypeOK ==
    /\ node \in [Nodes -> [state : {"none", "live", "gone", "dropped"},
                           parent : Nodes \cup {Top}, seq : Nat]]
    /\ seqNo \in Nat /\ dropped \in 0..seqNo /\ old \subseteq Nodes
    /\ mirror \in [rows : Rows, cursor : 0..seqNo]
    /\ \A t \in Tabs : catalogue[t] \in [rows : Rows, cursor : 0..seqNo]
    /\ app \in [Tabs -> [on : BOOLEAN, since : Nat, queued : 0..MaxQueued, ready : BOOLEAN,
                         unmet : Nat]]
    /\ lost \subseteq Nodes /\ calm \in BOOLEAN

(* A copy that stands at a cursor holds every node that can be reached as  *)
(* its last change up to there left it, or dropped it in one of two ways   *)
(* (Strays, Orphans) ...                                                   *)
Complete(copy) ==
    \A n \in Nodes : Reached(n) /\ node[n].seq <= copy.cursor =>
        copy.rows[n].seq = node[n].seq \/ (n \in lost /\ n \notin Held(copy.rows))
(* ... and nothing deleted by then; what no tombstone names any more is    *)
(* held only by a copy that will be told to start over.                    *)
NoGhosts(copy) ==
    \A n \in Held(copy.rows) :
        /\ node[n].state = "gone" => node[n].seq > copy.cursor
        /\ node[n].state = "dropped" => copy.cursor < dropped

(* The mirror's cursor never claims a page that was not kept, and no slow  *)
(* page of one tab brings back what another moved on or deleted.           *)
MirrorComplete == Complete(mirror)
MirrorNoGhosts == NoGhosts(mirror)

(* The same of each tab's catalogue, whichever tab moved the mirror on,    *)
(* cleared it or pulled it anew.                                           *)
CatalogueComplete == \A t \in Tabs : tab[t].phase = "filed" => Complete(catalogue[t])
CatalogueNoGhosts == \A t \in Tabs : tab[t].phase = "filed" => NoGhosts(catalogue[t])

(* With one tab, and until a listing is read across a write or a pull is   *)
(* cut off between two pages, nothing that can be reached is dropped.      *)
NothingLost == calm => lost = {}

(* Each copy is what its cursor says it is: every node up to there, and    *)
(* nothing deleted by then.                                                *)
CopiesFaithful ==
    /\ TypeOK
    /\ MirrorComplete /\ MirrorNoGhosts
    /\ CatalogueComplete /\ CatalogueNoGhosts
    /\ NothingLost

-----------------------------------------------------------------------------
(* The app polls while it is open, and what it hands on is taken in turn,  *)
(* once; a pull goes on; the purge job fans out.                           *)
LiveSpec ==
    /\ Spec
    /\ WF_vars(\E t \in Tabs : Proceed(t))
    /\ WF_vars("purge" \in Events /\ \E n \in Nodes : PurgeDescendant(n))

Exact(t) ==
    \A n \in Nodes \ lost :
        catalogue[t].rows[n] = IF Reached(n) THEN [parent |-> node[n].parent, seq |-> node[n].seq]
                               ELSE NoRow

(* Once the server is quiet, its newest change not a dropped tombstone,    *)
(* every tab's catalogue opens and comes to hold exactly its tree, but for *)
(* what was dropped; or it stands before news that nothing was done with   *)
(* when it was handed on.                                                  *)
TabsCatchUp ==
    <>[](\E n \in Nodes : Reached(n) /\ node[n].seq > dropped) =>
    <>[](\A t \in Tabs : app[t].ready /\ (Exact(t) \/ catalogue[t].cursor < app[t].unmet))
=============================================================================
