----------------------------- MODULE StateCache -----------------------------
(* The SQLite stack cache and the commands that fill it: `refresh` (all    *)
(* stacks, one stack, --dry-run), `db rebuild`, `list --refresh` and the   *)
(* stack runtime observer of `observe run`.  Each runs in a process of its *)
(* own, with no lock between them; what they share is the sites root and   *)
(* the database.  A SQLite transaction is one step, everything between two *)
(* transactions can interleave.                                            *)
EXTENDS Naturals, FiniteSets

CONSTANTS
  Procs,        \* processes that run these commands
  Hosts,        \* hostnames that may have a directory in the sites root
  Contents,     \* what a stack directory may hold
  Flawed,       \* contents inspect_stack snapshots together with an issue
  Unreadable,   \* contents on which inspect_stack raises: the directory's
                \* name is not a hostname, or its stack config does not parse
  Absent,       \* no directory, and "nothing recorded"
  MaxTime,      \* bound on the clock
  MaxChanges,   \* bound on the changes of the sites root
  MaxRuns       \* bound on the number of commands started

ASSUME ContentsAssumption ==
  /\ Absent \notin Contents
  /\ Flawed \subseteq Contents
  /\ Unreadable \subseteq Contents

ASSUME BoundsAssumption == MaxTime \in Nat /\ MaxChanges \in Nat /\ MaxRuns \in Nat

VARIABLES
  clock,        \* utc_now_iso(): wall clock, one tick a second
  disk,         \* disk[h]: what the sites root holds for h
  heldUntil,    \* history: 1 + the last time c was replaced as h's content
  changes,      \* changes of the sites root so far
  rows,         \* the table stacks
  refreshed,    \* stack_observations with source local_stack_refresh
  observed,     \* hosts with a stack_observations row of the runtime observer
  runs,         \* commands started so far
  pc,           \* where each process is
  op,           \* the command each process runs
  stamp,        \* the local started_at of refresh_local_stack_state
  todo,         \* hosts the current loop has still to visit
  scan,         \* the local snapshots, Absent where there is none
  ok,           \* whether the local issues list is empty
  listing,      \* the rows the last list --refresh returned
  overtaken     \* history: some other process cleared the tables since Begin

db == <<rows, refreshed, observed>>
world == <<clock, disk, heldUntil, changes>>
local == <<op, stamp, todo, scan, ok, listing, overtaken>>
vars == <<world, db, runs, pc, local>>

Sweeping == {"refresh", "refresh_dry", "rebuild", "list"}
Refreshing == Sweeping \cup {"refresh_one"}
Commands == Refreshing \cup {"observe"}
Steps == {"idle", "cleared", "scan", "inspect", "write", "read", "done"}

NoRow == [content |-> Absent, updated |-> 0]
Rows == [content : Contents, updated : 0..MaxTime] \cup {NoRow}
Observations == [host : Hosts, content : Contents, at : 0..MaxTime]

Snapshots == [Hosts -> Contents \cup {Absent}]
NoSnapshots == [h \in Hosts |-> Absent]
NoRows == [h \in Hosts |-> NoRow]

Scanned(p) == {h \in Hosts : scan[p][h] # Absent}
HeldSince(h, c, t) == disk[h] = c \/ heldUntil[h][c] > t

-----------------------------------------------------------------------------

Init ==
  /\ clock = 0
  /\ disk \in Snapshots
  /\ heldUntil = [h \in Hosts |-> [c \in Contents |-> 0]]
  /\ changes = 0
  /\ rows = NoRows
  /\ refreshed = {}
  /\ observed = {}
  /\ runs = 0
  /\ pc = [p \in Procs |-> "idle"]
  /\ op = [p \in Procs |-> "refresh"]
  /\ stamp = [p \in Procs |-> 0]
  /\ todo = [p \in Procs |-> {}]
  /\ scan = [p \in Procs |-> NoSnapshots]
  /\ ok = [p \in Procs |-> TRUE]
  /\ listing = [p \in Procs |-> NoRows]
  /\ overtaken = [p \in Procs |-> FALSE]

Tick ==
  /\ clock < MaxTime
  /\ clock' = clock + 1
  /\ UNCHANGED <<disk, heldUntil, changes, db, runs, pc, local>>

\* Somebody scaffolds, edits or removes the directory of h.
ChangeDisk(h) ==
  /\ changes < MaxChanges
  /\ changes' = changes + 1
  /\ \E c \in Contents \cup {Absent} :
       /\ c # disk[h]
       /\ disk' = [disk EXCEPT ![h] = c]
  /\ heldUntil' = [heldUntil EXCEPT ![h] =
                     [d \in Contents |-> IF d = disk[h] THEN clock + 1 ELSE @[d]]]
  /\ UNCHANGED <<clock, db, runs, pc, local>>

-----------------------------------------------------------------------------
(* The commands.                                                           *)

Fresh(p) ==
  /\ todo' = [todo EXCEPT ![p] = {}]
  /\ scan' = [scan EXCEPT ![p] = NoSnapshots]
  /\ ok' = [ok EXCEPT ![p] = TRUE]
  /\ listing' = [listing EXCEPT ![p] = NoRows]
  /\ overtaken' = [overtaken EXCEPT ![p] = FALSE]

\* The command is over and its locals are gone.
Leave(p) ==
  /\ pc' = [pc EXCEPT ![p] = "idle"]
  /\ op' = [op EXCEPT ![p] = "refresh"]
  /\ stamp' = [stamp EXCEPT ![p] = 0]
  /\ Fresh(p)
  /\ UNCHANGED <<world, db, runs>>

\* refresh_local_stack_state takes its stamp, loads the config (a failure is
\* Abort) and creates the schema.  A rebuild comes here after its clear.
Begin(p, o) ==
  /\ IF o = "rebuild"
     THEN pc[p] = "cleared" /\ UNCHANGED runs
     ELSE pc[p] = "idle" /\ runs < MaxRuns /\ runs' = runs + 1
  /\ pc' = [pc EXCEPT ![p] = "scan"]
  /\ op' = [op EXCEPT ![p] = o]
  /\ stamp' = [stamp EXCEPT ![p] = clock]
  /\ Fresh(p)
  /\ UNCHANGED <<world, db>>

\* The rest of a clear: the process goes on to its refresh, and whoever is
\* in the middle of one has been overtaken.
ToRefresh(p) ==
  /\ pc[p] = "idle"
  /\ runs < MaxRuns
  /\ runs' = runs + 1
  /\ pc' = [pc EXCEPT ![p] = "cleared"]
  /\ op' = [op EXCEPT ![p] = "rebuild"]
  /\ overtaken' = [q \in Procs |-> q # p \/ overtaken[q]]
  /\ UNCHANGED <<world, stamp, todo, scan, ok, listing>>

\* Two faulty clears: one forgets the second table, one does not restrict the
\* deletion to the refresh's own source.
ClearRowsOnly(p) ==
  ToRefresh(p) /\ rows' = NoRows /\ UNCHANGED <<refreshed, observed>>
ClearEverySource(p) ==
  ToRefresh(p) /\ rows' = NoRows /\ refreshed' = {} /\ observed' = {}

\* db rebuild: the schema, then one transaction that empties the stacks
\* table and the refresh's own observations; the other tables stay.
Clear(p) ==
  ToRefresh(p) /\ rows' = NoRows /\ refreshed' = {} /\ UNCHANGED observed

\* The sites root is listed once, before any stack is inspected.
ListStackDirs(p) ==
  /\ pc[p] = "scan"
  /\ op[p] \in Sweeping
  /\ todo' = [todo EXCEPT ![p] = {h \in Hosts : disk[h] # Absent}]
  /\ pc' = [pc EXCEPT ![p] = "inspect"]
  /\ UNCHANGED <<world, db, runs, op, stamp, scan, ok, listing, overtaken>>

\* refresh --stack goes straight to its one stack.
ChooseStack(p) ==
  /\ pc[p] = "scan"
  /\ op[p] = "refresh_one"
  /\ \E h \in Hosts : todo' = [todo EXCEPT ![p] = {h}]
  /\ pc' = [pc EXCEPT ![p] = "inspect"]
  /\ UNCHANGED <<world, db, runs, op, stamp, scan, ok, listing, overtaken>>

\* The sites root itself is gone: an issue, and nothing to write.
NoSitesRoot(p) ==
  /\ pc[p] = "scan"
  /\ op[p] \in Sweeping
  /\ \A h \in Hosts : disk[h] = Absent
  /\ ok' = [ok EXCEPT ![p] = FALSE]
  /\ pc' = [pc EXCEPT ![p] = "write"]
  /\ UNCHANGED <<world, db, runs, op, stamp, todo, scan, listing, overtaken>>

\* inspect_stack reads one directory; an issue does not keep the snapshot out.
Inspect(p, h) ==
  /\ pc[p] = "inspect"
  /\ h \in todo[p]
  /\ disk[h] \in Contents \ Unreadable
  /\ scan' = [scan EXCEPT ![p][h] = disk[h]]
  /\ ok' = [ok EXCEPT ![p] = @ /\ disk[h] \notin Flawed]
  /\ todo' = [todo EXCEPT ![p] = @ \ {h}]
  /\ UNCHANGED <<world, db, runs, pc, op, stamp, listing, overtaken>>

\* inspect_stack raises: the directory vanished since the listing, its name is
\* not a hostname, or its config does not parse.  The whole refresh ends, and
\* what other stacks were inspected is never written.
InspectRaises(p, h) ==
  /\ pc[p] = "inspect"
  /\ h \in todo[p]
  /\ disk[h] \in Unreadable \cup {Absent}
  /\ Leave(p)

\* Every directory is inspected; unless this is a dry run, the writes follow.
BeginWrites(p) ==
  /\ pc[p] = "inspect"
  /\ todo[p] = {}
  /\ todo' = [todo EXCEPT ![p] = IF op[p] = "refresh_dry" THEN {} ELSE Scanned(p)]
  /\ pc' = [pc EXCEPT ![p] = "write"]
  /\ UNCHANGED <<world, db, runs, op, stamp, scan, ok, listing, overtaken>>

\* Two faulty forms of RowOf: a stamp taken at the write, and one rounded up
\* to the next second.
RowStampedAtWrite(p, h) == [content |-> scan[p][h], updated |-> clock]
RowStampedNextSecond(p, h) == [content |-> scan[p][h], updated |-> stamp[p] + 1]

\* What a refresh records of h: its snapshot, under its own start time.
RowOf(p, h) == [content |-> scan[p][h], updated |-> stamp[p]]

ObservationOf(p, h) == [host |-> h, content |-> scan[p][h], at |-> stamp[p]]

\* upsert_stack_snapshot: the row, and an observation of it, in one
\* transaction.  The row is overwritten whatever stamp it had.
Upsert(p, h) ==
  /\ pc[p] = "write"
  /\ op[p] # "observe"
  /\ h \in todo[p]
  /\ rows' = [rows EXCEPT ![h] = RowOf(p, h)]
  /\ refreshed' = refreshed \cup {ObservationOf(p, h)}
  /\ todo' = [todo EXCEPT ![p] = @ \ {h}]
  /\ UNCHANGED <<world, observed, runs, pc, op, stamp, scan, ok, listing, overtaken>>

\* A faulty loop that ends one stack early.
FinishEarly(p) ==
  /\ pc[p] = "write"
  /\ Cardinality(todo[p]) <= 1
  /\ pc' = [pc EXCEPT ![p] = IF op[p] = "list" /\ ok[p] THEN "read" ELSE "done"]
  /\ UNCHANGED <<world, db, runs, local>>

\* The refresh returns; list --refresh goes on to read the cache, unless the
\* refresh reported issues: then it returns an error and no sites.
Finish(p) ==
  /\ pc[p] = "write"
  /\ todo[p] = {}
  /\ pc' = [pc EXCEPT ![p] = IF op[p] = "list" /\ ok[p] THEN "read" ELSE "done"]
  /\ UNCHANGED <<world, db, runs, local>>

\* list_stacks_cached, after the refresh: the rows, or an error when there
\* are none.
ReadListing(p) ==
  /\ pc[p] = "read"
  /\ listing' = [listing EXCEPT ![p] = rows]
  /\ ok' = [ok EXCEPT ![p] = rows # NoRows]
  /\ pc' = [pc EXCEPT ![p] = "done"]
  /\ UNCHANGED <<world, db, runs, op, stamp, todo, scan, overtaken>>

\* observe run: observe_stack_runtime looks at every directory first, and
\* only then are the observations persisted, each in its own transaction.
BeginObserve(p) ==
  /\ pc[p] = "idle"
  /\ runs < MaxRuns
  /\ runs' = runs + 1
  /\ op' = [op EXCEPT ![p] = "observe"]
  /\ pc' = [pc EXCEPT ![p] = "write"]
  /\ stamp' = [stamp EXCEPT ![p] = clock]
  /\ todo' = [todo EXCEPT ![p] = {h \in Hosts : disk[h] # Absent}]
  /\ UNCHANGED <<world, db, scan, ok, listing, overtaken>>

PersistObservation(p, h) ==
  /\ pc[p] = "write"
  /\ op[p] = "observe"
  /\ h \in todo[p]
  /\ observed' = observed \cup {h}
  /\ todo' = [todo EXCEPT ![p] = @ \ {h}]
  /\ UNCHANGED <<world, rows, refreshed, runs, pc, op, stamp, scan, ok, listing, overtaken>>

\* The process dies, the config cannot be loaded, or SQLite raises (a lock
\* that is not released in time): what was committed stays.
Abort(p) ==
  /\ pc[p] \notin {"idle", "done"}
  /\ Leave(p)

\* The command has reported its result.
Exit(p) ==
  /\ pc[p] = "done"
  /\ Leave(p)

Command(p) ==
  \/ \E o \in Refreshing : Begin(p, o)
  \/ Clear(p)
  \/ ListStackDirs(p)
  \/ ChooseStack(p)
  \/ NoSitesRoot(p)
  \/ \E h \in Hosts : Inspect(p, h)
  \/ \E h \in Hosts : InspectRaises(p, h)
  \/ BeginWrites(p)
  \/ \E h \in Hosts : Upsert(p, h)
  \/ Finish(p)
  \/ ReadListing(p)
  \/ BeginObserve(p)
  \/ \E h \in Hosts : PersistObservation(p, h)
  \/ Abort(p)
  \/ Exit(p)

Next ==
  \/ Tick
  \/ \E h \in Hosts : ChangeDisk(h)
  \/ \E p \in Procs : Command(p)

Spec == Init /\ [][Next]_vars

-----------------------------------------------------------------------------
(* Properties.                                                             *)

\* Every variable ranges over what the code stores in it.
TypeOK ==
  /\ clock \in 0..MaxTime
  /\ disk \in Snapshots
  /\ heldUntil \in [Hosts -> [Contents -> 0..(MaxTime + 1)]]
  /\ changes \in 0..MaxChanges
  /\ rows \in [Hosts -> Rows]
  /\ refreshed \subseteq Observations
  /\ observed \subseteq Hosts
  /\ runs \in 0..MaxRuns
  /\ pc \in [Procs -> Steps]
  /\ op \in [Procs -> Commands]
  /\ stamp \in [Procs -> 0..MaxTime]
  /\ todo \in [Procs -> SUBSET Hosts]
  /\ scan \in [Procs -> Snapshots]
  /\ ok \in [Procs -> BOOLEAN]
  /\ listing \in [Procs -> [Hosts -> Rows]]
  /\ overtaken \in [Procs -> BOOLEAN]

\* The two tables a refresh writes tell the same story, whatever runs beside
\* it and wherever it dies: every row is backed by an observation of the same
\* content and time, and a host that was observed has a row.
RowsAgreeWithObservations ==
  /\ \A h \in Hosts : rows[h] # NoRow =>
       [host |-> h, content |-> rows[h].content, at |-> rows[h].updated] \in refreshed
  /\ \A o \in refreshed : rows[o.host] # NoRow

\* updated_at never claims too much: what a row or an observation says was in
\* the sites root at its stamp or later.  The stamp has to be the start of the
\* refresh, taken before the scan, for this to survive a directory that
\* changes between its inspection and its upsert.
StampsAreHonest ==
  /\ \A h \in Hosts : rows[h] # NoRow =>
       HeldSince(h, rows[h].content, rows[h].updated)
  /\ \A o \in refreshed : HeldSince(o.host, o.content, o.at)

\* A refresh that reports no issues has recorded every stack it inspected, and
\* list --refresh lists them all, unless a rebuild ran into it.
CompletedRefreshCovers ==
  \A p \in Procs :
    pc[p] = "done" /\ ok[p] /\ ~overtaken[p] /\ op[p] \in Refreshing \ {"refresh_dry"} =>
      \A h \in Scanned(p) :
        /\ ObservationOf(p, h) \in refreshed
        /\ rows[h] # NoRow
        /\ op[p] = "list" => listing[p][h] # NoRow

\* db rebuild rebuilds what a refresh can rebuild and nothing else: runtime
\* observations outlive it, and a row or an observation of the refresh is only
\* ever lost together with all the others.
RebuildForgetsOnlyTheIndex ==
  [][/\ observed \subseteq observed'
     /\ ~ refreshed \subseteq refreshed' => refreshed' = {} /\ rows' = NoRows]_vars

\* The stacks table is the index StackIndex promises.
Index == INSTANCE StackIndex WITH index <- rows
IndexSpec == Index!Spec
=============================================================================
