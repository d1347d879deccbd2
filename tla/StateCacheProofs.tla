-------------------------- MODULE StateCacheProofs --------------------------
(* Proofs about StateCache, for any number of processes and hosts, any     *)
(* contents and any bounds.                                                *)
EXTENDS StateCache, TLAPS

USE ContentsAssumption, BoundsAssumption

-----------------------------------------------------------------------------
(* Types.                                                                  *)

LEMMA InitType == Init => TypeOK
BY DEF Init, TypeOK, Snapshots, NoSnapshots, NoRows, Rows, NoRow, Steps,
       Commands, Refreshing, Sweeping, Observations

\* What Fresh leaves in the locals of p is of the right type.
LEMMA FreshType ==
  ASSUME TypeOK, NEW p \in Procs, Fresh(p)
  PROVE  /\ todo' \in [Procs -> SUBSET Hosts]
         /\ scan' \in [Procs -> Snapshots]
         /\ ok' \in [Procs -> BOOLEAN]
         /\ listing' \in [Procs -> [Hosts -> Rows]]
         /\ overtaken' \in [Procs -> BOOLEAN]
<1>1. NoSnapshots \in Snapshots /\ NoRows \in [Hosts -> Rows]
  BY DEF NoSnapshots, Snapshots, NoRows, Rows
<1>2. QED BY <1>1 DEF TypeOK, Fresh

LEMMA LeaveType ==
  ASSUME TypeOK, NEW p \in Procs, Leave(p)
  PROVE  TypeOK'
BY FreshType DEF TypeOK, Leave, world, db, Steps, Commands, Refreshing, Sweeping

\* A snapshot of the loop is a row and an observation.
LEMMA UpsertType ==
  ASSUME TypeOK, NEW p \in Procs, NEW h \in Hosts, scan[p][h] # Absent
  PROVE  /\ scan[p][h] \in Contents
         /\ RowOf(p, h) \in Rows
         /\ RowOf(p, h) # NoRow
         /\ ObservationOf(p, h) \in Observations
<1>1. scan[p][h] \in Contents /\ stamp[p] \in 0..MaxTime
  BY DEF TypeOK, Snapshots
<1>2. RowOf(p, h).content # NoRow.content
  BY <1>1 DEF RowOf, NoRow
<1>3. QED BY <1>1, <1>2 DEF RowOf, Rows, ObservationOf, Observations

\* An idle process is nobody's command, and in the loop of upserts every
\* host still to come has a snapshot.
LocalsFit ==
  \A p \in Procs :
    /\ pc[p] = "idle" => op[p] = "refresh"
    /\ pc[p] = "scan" => todo[p] = {}
    /\ pc[p] = "write" /\ op[p] # "observe" => \A h \in todo[p] : scan[p][h] # Absent

TypeInv == TypeOK /\ LocalsFit

LEMMA TypeStep ==
  ASSUME TypeInv, [Next]_vars
  PROVE  TypeOK'
<1> USE DEF TypeInv
<1>1. CASE UNCHANGED vars
  BY <1>1 DEF TypeOK, vars, world, db, local
<1>2. CASE Tick
  BY <1>2 DEF TypeOK, Tick, db, local
<1>3. ASSUME NEW h \in Hosts, ChangeDisk(h) PROVE TypeOK'
  <2>1. disk' \in Snapshots /\ changes' \in 0..MaxChanges
    BY <1>3 DEF TypeOK, ChangeDisk, Snapshots
  <2>2. heldUntil' \in [Hosts -> [Contents -> 0..(MaxTime + 1)]]
    BY <1>3 DEF TypeOK, ChangeDisk
  <2>3. QED BY <1>3, <2>1, <2>2 DEF TypeOK, ChangeDisk, db, local
<1>4. ASSUME NEW p \in Procs, Command(p) PROVE TypeOK'
  <2>1. ASSUME NEW o \in Refreshing, Begin(p, o) PROVE TypeOK'
    <3>1. runs' \in 0..MaxRuns /\ pc' \in [Procs -> Steps] /\ op' \in [Procs -> Commands]
      BY <2>1 DEF TypeOK, Begin, Steps, Commands
    <3>2. QED BY <2>1, <3>1, FreshType DEF TypeOK, Begin, world, db
  <2>2. CASE Clear(p)
    <3>1. NoRows \in [Hosts -> Rows]
      BY DEF NoRows, Rows
    <3>2. runs' \in 0..MaxRuns /\ pc' \in [Procs -> Steps] /\ op' \in [Procs -> Commands]
      BY <2>2 DEF TypeOK, Clear, ToRefresh, Steps, Commands, Refreshing, Sweeping
    <3>3. overtaken' \in [Procs -> BOOLEAN]
      BY <2>2 DEF TypeOK, Clear, ToRefresh
    <3>4. QED BY <2>2, <3>1, <3>2, <3>3 DEF TypeOK, Clear, ToRefresh, world
  <2>3. CASE ListStackDirs(p)
    BY <2>3 DEF TypeOK, ListStackDirs, world, db, Steps
  <2>4. CASE ChooseStack(p)
    BY <2>4 DEF TypeOK, ChooseStack, world, db, Steps
  <2>5. CASE NoSitesRoot(p)
    BY <2>5 DEF TypeOK, NoSitesRoot, world, db, Steps
  <2>6. ASSUME NEW h \in Hosts, Inspect(p, h) PROVE TypeOK'
    <3>1. scan' \in [Procs -> Snapshots]
      BY <2>6 DEF TypeOK, Inspect, Snapshots
    <3>2. QED BY <2>6, <3>1 DEF TypeOK, Inspect, world, db
  <2>7. ASSUME NEW h \in Hosts, InspectRaises(p, h) PROVE TypeOK'
    BY <2>7, LeaveType DEF InspectRaises
  <2>8. CASE BeginWrites(p)
    <3>1. todo' \in [Procs -> SUBSET Hosts]
      BY <2>8 DEF TypeOK, BeginWrites, Scanned
    <3>2. QED BY <2>8, <3>1 DEF TypeOK, BeginWrites, world, db, Steps
  <2>9. ASSUME NEW h \in Hosts, Upsert(p, h) PROVE TypeOK'
    <3>1. RowOf(p, h) \in Rows /\ ObservationOf(p, h) \in Observations
      BY <2>9, UpsertType DEF Upsert, LocalsFit
    <3>2. QED BY <2>9, <3>1 DEF TypeOK, Upsert, world
  <2>10. CASE Finish(p)
    BY <2>10 DEF TypeOK, Finish, world, db, local, Steps
  <2>11. CASE ReadListing(p)
    BY <2>11 DEF TypeOK, ReadListing, world, db, Steps
  <2>12. CASE BeginObserve(p)
    BY <2>12 DEF TypeOK, BeginObserve, world, db, Steps, Commands
  <2>13. ASSUME NEW h \in Hosts, PersistObservation(p, h) PROVE TypeOK'
    BY <2>13 DEF TypeOK, PersistObservation, world
  <2>14. CASE Abort(p)
    BY <2>14, LeaveType DEF Abort
  <2>15. CASE Exit(p)
    BY <2>15, LeaveType DEF Exit
  <2>16. QED
    BY <1>4, <2>1, <2>2, <2>3, <2>4, <2>5, <2>6, <2>7, <2>8, <2>9, <2>10,
       <2>11, <2>12, <2>13, <2>14, <2>15 DEF Command
<1>5. QED BY <1>1, <1>2, <1>3, <1>4 DEF Next

LEMMA TodoStep ==
  ASSUME TypeInv, [Next]_vars
  PROVE  LocalsFit'
<1> USE DEF TypeInv, LocalsFit, TypeOK
<1>1. CASE UNCHANGED vars
  BY <1>1 DEF vars, local
<1>2. CASE Tick
  BY <1>2 DEF Tick, local
<1>3. ASSUME NEW h \in Hosts, ChangeDisk(h) PROVE LocalsFit'
  BY <1>3 DEF ChangeDisk, local
<1>4. ASSUME NEW p \in Procs, Command(p) PROVE LocalsFit'
  <2>1. ASSUME NEW o \in Refreshing, Begin(p, o) PROVE LocalsFit'
    BY <2>1 DEF Begin, Fresh
  <2>2. CASE Clear(p)
    BY <2>2 DEF Clear, ToRefresh
  <2>3. CASE ListStackDirs(p)
    BY <2>3 DEF ListStackDirs
  <2>4. CASE ChooseStack(p)
    BY <2>4 DEF ChooseStack
  <2>5. CASE NoSitesRoot(p)
    BY <2>5 DEF NoSitesRoot
  <2>6. ASSUME NEW h \in Hosts, Inspect(p, h) PROVE LocalsFit'
    BY <2>6 DEF Inspect
  <2>7. CASE Leave(p)
    BY <2>7 DEF Leave, Fresh
  <2>8. CASE BeginWrites(p)
    BY <2>8 DEF BeginWrites, Scanned
  <2>9. ASSUME NEW h \in Hosts, Upsert(p, h) PROVE LocalsFit'
    BY <2>9 DEF Upsert
  <2>10. CASE Finish(p)
    BY <2>10 DEF Finish, local
  <2>11. CASE ReadListing(p)
    BY <2>11 DEF ReadListing
  <2>12. CASE BeginObserve(p)
    BY <2>12 DEF BeginObserve
  <2>13. ASSUME NEW h \in Hosts, PersistObservation(p, h) PROVE LocalsFit'
    BY <2>13 DEF PersistObservation
  <2>14. QED
    BY <1>4, <2>1, <2>2, <2>3, <2>4, <2>5, <2>6, <2>7, <2>8, <2>9, <2>10,
       <2>11, <2>12, <2>13 DEF Command, InspectRaises, Abort, Exit
<1>5. QED BY <1>1, <1>2, <1>3, <1>4 DEF Next

LEMMA TypeInvariant == Spec => []TypeInv
<1>1. Init => TypeInv
  BY InitType DEF TypeInv, LocalsFit, Init
<1>2. TypeInv /\ [Next]_vars => TypeInv'
  BY TypeStep, TodoStep DEF TypeInv
<1>3. QED BY <1>1, <1>2, PTL DEF Spec

\* Every reachable state is well typed.
THEOREM TypeCorrect == Spec => []TypeOK
<1>1. TypeInv => TypeOK
  BY DEF TypeInv
<1>2. QED BY <1>1, TypeInvariant, PTL

-----------------------------------------------------------------------------
(* The two tables agree.  Only Upsert and Clear write them, and each does  *)
(* so in one transaction.                                                  *)

\* A step writes both tables, empties both, or leaves both alone.
LEMMA TableWrites ==
  ASSUME TypeInv, [Next]_vars
  PROVE  \/ UNCHANGED <<rows, refreshed>>
         \/ rows' = NoRows /\ refreshed' = {}
         \/ \E p \in Procs, h \in Hosts : Upsert(p, h)
<1>1. CASE UNCHANGED vars
  BY <1>1 DEF vars, db
<1>2. ASSUME NEW h \in Hosts, ChangeDisk(h) PROVE UNCHANGED <<rows, refreshed>>
  BY <1>2 DEF ChangeDisk, db
<1>3. CASE Tick
  BY <1>3 DEF Tick, db
<1>4. ASSUME NEW p \in Procs, Command(p), ~ \E h \in Hosts : Upsert(p, h), ~ Clear(p)
      PROVE  UNCHANGED <<rows, refreshed>>
  BY <1>4 DEF Command, Begin, ListStackDirs, ChooseStack, NoSitesRoot, Inspect,
     InspectRaises, BeginWrites, Finish, ReadListing, BeginObserve,
     PersistObservation, Abort, Exit, Leave, db
<1>5. ASSUME NEW p \in Procs, Clear(p) PROVE rows' = NoRows /\ refreshed' = {}
  BY <1>5 DEF Clear
<1>6. QED BY <1>1, <1>2, <1>3, <1>4, <1>5 DEF Next

LEMMA AgreementStep ==
  ASSUME TypeInv, RowsAgreeWithObservations, [Next]_vars
  PROVE  RowsAgreeWithObservations'
<1>1. CASE UNCHANGED <<rows, refreshed>>
  BY <1>1 DEF RowsAgreeWithObservations
<1>2. CASE rows' = NoRows /\ refreshed' = {}
  BY <1>2 DEF RowsAgreeWithObservations, NoRows
<1>3. ASSUME NEW p \in Procs, NEW h \in Hosts, Upsert(p, h)
      PROVE  RowsAgreeWithObservations'
  <2>1. RowOf(p, h) # NoRow
    BY <1>3, UpsertType DEF TypeInv, LocalsFit, Upsert
  <2>2. rows' = [rows EXCEPT ![h] = RowOf(p, h)] /\ rows'[h] = RowOf(p, h)
    BY <1>3 DEF Upsert, TypeInv, TypeOK
  <2>3. refreshed' = refreshed \cup {ObservationOf(p, h)}
    BY <1>3 DEF Upsert
  <2>4. ASSUME NEW g \in Hosts, rows'[g] # NoRow
        PROVE  [host |-> g, content |-> rows'[g].content, at |-> rows'[g].updated] \in refreshed'
    <3>1. CASE g = h
      BY <3>1, <2>2, <2>3 DEF RowOf, ObservationOf
    <3>2. CASE g # h
      BY <3>2, <2>2, <2>3, <2>4 DEF TypeInv, TypeOK, RowsAgreeWithObservations
    <3>3. QED BY <3>1, <3>2
  <2>5. ASSUME NEW o \in refreshed' PROVE rows'[o.host] # NoRow
    <3>1. CASE o = ObservationOf(p, h)
      BY <3>1, <2>1, <2>2 DEF ObservationOf
    <3>2. CASE o \in refreshed
      BY <3>2, <2>1, <2>2 DEF RowsAgreeWithObservations, TypeInv, TypeOK, Observations
    <3>3. QED BY <3>1, <3>2, <2>3
  <2>6. QED BY <2>4, <2>5 DEF RowsAgreeWithObservations
<1>4. QED BY <1>1, <1>2, <1>3, TableWrites

\* Every row is backed by an observation of the same content and time, and
\* every observed host has a row.
THEOREM TablesAgree == Spec => []RowsAgreeWithObservations
<1>1. Init => RowsAgreeWithObservations
  BY DEF Init, RowsAgreeWithObservations, NoRows
<1>2. TypeInv /\ RowsAgreeWithObservations /\ [Next]_vars => RowsAgreeWithObservations'
  BY AgreementStep
<1>3. QED BY <1>1, <1>2, TypeInvariant, PTL DEF Spec

-----------------------------------------------------------------------------
(* Stamps are honest.  What makes it inductive is the scan in between: a   *)
(* snapshot was held since the stamp its refresh started with, and no      *)
(* stamp is in the future.                                                 *)

ScansAreHonest ==
  \A p \in Procs : op[p] # "observe" =>
    \A h \in Hosts : scan[p][h] # Absent => HeldSince(h, scan[p][h], stamp[p])

NoFutureStamp ==
  /\ \A p \in Procs : stamp[p] <= clock
  /\ \A h \in Hosts : rows[h].updated <= clock
  /\ \A o \in refreshed : o.at <= clock

HonestInv == ScansAreHonest /\ NoFutureStamp /\ StampsAreHonest

\* What was held since a time that is not in the future stays so: a content
\* that is replaced leaves its mark in heldUntil.
LEMMA HeldSinceStable ==
  ASSUME TypeOK, Tick \/ (\E g \in Hosts : ChangeDisk(g)) \/ UNCHANGED <<disk, heldUntil>>,
         NEW h \in Hosts, NEW c \in Contents, NEW t \in 0..MaxTime, t <= clock,
         HeldSince(h, c, t)
  PROVE  HeldSince(h, c, t)'
<1>1. CASE Tick \/ UNCHANGED <<disk, heldUntil>>
  BY <1>1 DEF Tick, HeldSince
<1>2. ASSUME NEW g \in Hosts, ChangeDisk(g) PROVE HeldSince(h, c, t)'
  <2>1. CASE g # h
    BY <2>1, <1>2 DEF ChangeDisk, HeldSince, TypeOK, Snapshots
  <2>2. CASE g = h /\ disk[h] = c
    <3>1. heldUntil'[h][c] = clock + 1
      BY <2>2, <1>2 DEF ChangeDisk, TypeOK
    <3>2. QED BY <3>1 DEF HeldSince, TypeOK
  <2>3. CASE g = h /\ disk[h] # c
    <3>1. heldUntil'[h][c] = heldUntil[h][c]
      BY <2>3, <1>2 DEF ChangeDisk, TypeOK
    <3>2. QED BY <3>1, <2>3 DEF HeldSince
  <2>4. QED BY <2>1, <2>2, <2>3
<1>3. QED BY <1>1, <1>2

\* A step either moves the world or moves a process.
LEMMA WorldMoves ==
  ASSUME [Next]_vars
  PROVE  \/ Tick /\ UNCHANGED <<rows, refreshed, scan, stamp, op>>
         \/ (\E g \in Hosts : ChangeDisk(g)) /\ UNCHANGED <<clock, rows, refreshed, scan, stamp, op>>
         \/ UNCHANGED <<clock, disk, heldUntil>>
<1>1. CASE Tick
  BY <1>1 DEF Tick, db, local
<1>2. ASSUME NEW g \in Hosts, ChangeDisk(g)
      PROVE  UNCHANGED <<clock, rows, refreshed, scan, stamp, op>>
  BY <1>2 DEF ChangeDisk, db, local
<1>3. ASSUME NEW p \in Procs, Command(p) PROVE UNCHANGED <<clock, disk, heldUntil>>
  BY <1>3 DEF Command, Begin, Clear, ToRefresh, ListStackDirs, ChooseStack, NoSitesRoot,
     Inspect, InspectRaises, BeginWrites, Upsert, Finish, ReadListing, BeginObserve,
     PersistObservation, Abort, Exit, Leave, world
<1>4. CASE UNCHANGED vars
  BY <1>4 DEF vars, world
<1>5. QED BY <1>1, <1>2, <1>3, <1>4 DEF Next

LEMMA FutureStep ==
  ASSUME TypeInv, NoFutureStamp, [Next]_vars
  PROVE  NoFutureStamp'
<1> USE DEF TypeInv, TypeOK
<1>1. CASE Tick
  <2>1. /\ clock \in Nat /\ clock' = clock + 1 /\ UNCHANGED <<rows, refreshed, stamp>>
        /\ \A p \in Procs : stamp[p] \in Nat
        /\ \A h \in Hosts : rows[h].updated \in Nat
        /\ \A o \in refreshed : o.at \in Nat
    BY <1>1 DEF Tick, db, local, Rows, NoRow, Observations
  <2>2. QED BY <2>1 DEF NoFutureStamp
<1>2. ASSUME NEW g \in Hosts, ChangeDisk(g) PROVE NoFutureStamp'
  BY <1>2 DEF ChangeDisk, NoFutureStamp, db, local
<1>3. CASE UNCHANGED vars
  BY <1>3 DEF vars, world, db, local, NoFutureStamp
<1>4. ASSUME NEW p \in Procs, Command(p) PROVE NoFutureStamp'
  <2>1. UNCHANGED clock /\ \A q \in Procs : stamp'[q] \in {stamp[q], 0, clock}
    BY <1>4 DEF Command, Begin, Clear, ToRefresh, ListStackDirs, ChooseStack, NoSitesRoot,
       Inspect, InspectRaises, BeginWrites, Upsert, Finish, ReadListing, BeginObserve,
       PersistObservation, Abort, Exit, Leave, world, local
  <2>2. \A q \in Procs : stamp'[q] <= clock'
    BY <2>1 DEF NoFutureStamp
  <2>3. CASE UNCHANGED <<rows, refreshed>>
    BY <2>1, <2>2, <2>3 DEF NoFutureStamp
  <2>4. CASE rows' = NoRows /\ refreshed' = {}
    BY <2>1, <2>2, <2>4 DEF NoFutureStamp, NoRows, NoRow
  <2>5. ASSUME NEW q \in Procs, NEW h \in Hosts, Upsert(q, h) PROVE NoFutureStamp'
    BY <2>1, <2>2, <2>5 DEF NoFutureStamp, Upsert, RowOf, ObservationOf
  <2>6. QED BY <1>4, <2>3, <2>4, <2>5, TableWrites DEF Next
<1>5. QED BY <1>1, <1>2, <1>3, <1>4 DEF Next

LEMMA ScansStep ==
  ASSUME TypeInv, ScansAreHonest, NoFutureStamp, [Next]_vars
  PROVE  ScansAreHonest'
<1> USE DEF TypeInv
<1>1. CASE UNCHANGED <<op, scan, stamp>> /\ (Tick \/ (\E g \in Hosts : ChangeDisk(g)) \/ UNCHANGED <<disk, heldUntil>>)
  <2> SUFFICES ASSUME NEW p \in Procs, op[p] # "observe", NEW h \in Hosts, scan[p][h] # Absent
               PROVE  HeldSince(h, scan[p][h], stamp[p])'
    BY <1>1 DEF ScansAreHonest
  <2>1. scan[p][h] \in Contents /\ stamp[p] \in 0..MaxTime /\ stamp[p] <= clock
    BY DEF TypeOK, Snapshots, NoFutureStamp
  <2>2. HeldSince(h, scan[p][h], stamp[p])
    BY DEF ScansAreHonest
  <2>3. DEFINE c == scan[p][h]  t == stamp[p]
  <2>4. /\ c \in Contents /\ t \in 0..MaxTime /\ t <= clock /\ HeldSince(h, c, t)
        /\ c' = c /\ t' = t
    BY <1>1, <2>1, <2>2
  <2> HIDE DEF c, t
  <2>5. disk'[h] = c \/ heldUntil'[h][c] > t
    BY <1>1, <2>4, HeldSinceStable DEF HeldSince
  <2>6. QED BY <2>5, <1>1 DEF HeldSince, c, t
<1>2. CASE UNCHANGED <<clock, disk, heldUntil>>
  <2>1. ASSUME NEW p \in Procs, NEW h \in Hosts, Inspect(p, h) PROVE ScansAreHonest'
    BY <2>1, <1>2 DEF Inspect, ScansAreHonest, HeldSince, TypeOK
  <2>2. ASSUME NEW p \in Procs, Fresh(p), \A q \in Procs \ {p} : op'[q] = op[q] /\ stamp'[q] = stamp[q]
        PROVE  ScansAreHonest'
    BY <2>2, <1>2 DEF Fresh, ScansAreHonest, HeldSince, TypeOK, NoSnapshots
  <2>3. ASSUME NEW p \in Procs, BeginObserve(p) PROVE ScansAreHonest'
    BY <2>3, <1>2 DEF BeginObserve, ScansAreHonest, HeldSince, TypeOK
  <2>4. ASSUME NEW p \in Procs, Clear(p) PROVE ScansAreHonest'
    <3>1. op[p] # "observe"
      BY <2>4 DEF Clear, ToRefresh, LocalsFit
    <3>2. QED BY <2>4, <3>1, <1>2 DEF Clear, ToRefresh, ScansAreHonest, HeldSince, TypeOK
  <2>5. ASSUME NEW p \in Procs, Command(p), UNCHANGED <<op, scan, stamp>> PROVE ScansAreHonest'
    BY <2>5, <1>1, <1>2
  <2>6. ASSUME NEW p \in Procs, NEW o \in Refreshing, Begin(p, o) PROVE ScansAreHonest'
    BY <2>2, <2>6 DEF Begin, TypeOK
  <2>7. ASSUME NEW p \in Procs, Leave(p) PROVE ScansAreHonest'
    BY <2>2, <2>7 DEF Leave, TypeOK
  <2>8. ASSUME NEW p \in Procs, Command(p) PROVE ScansAreHonest'
    <3>1. CASE ListStackDirs(p) \/ ChooseStack(p) \/ NoSitesRoot(p) \/ BeginWrites(p) \/ Finish(p) \/ ReadListing(p)
      BY <2>5, <2>8, <3>1 DEF ListStackDirs, ChooseStack, NoSitesRoot, BeginWrites, Finish, ReadListing, local
    <3>2. CASE \E h \in Hosts : Upsert(p, h) \/ PersistObservation(p, h)
      BY <2>5, <2>8, <3>2 DEF Upsert, PersistObservation
    <3>3. QED
      BY <2>1, <2>3, <2>4, <2>6, <2>7, <2>8, <3>1, <3>2 DEF Command, InspectRaises, Abort, Exit
  <2>9. CASE UNCHANGED vars
    BY <2>9, <1>1 DEF vars, local, world
  <2>10. CASE Tick \/ \E g \in Hosts : ChangeDisk(g)
    BY <2>10, <1>1 DEF Tick, ChangeDisk, local
  <2>11. QED BY <2>8, <2>9, <2>10 DEF Next
<1>3. QED BY <1>1, <1>2, WorldMoves

LEMMA StampsStep ==
  ASSUME TypeInv, HonestInv, [Next]_vars
  PROVE  StampsAreHonest'
<1> USE DEF TypeInv, HonestInv
<1>1. ASSUME UNCHANGED <<rows, refreshed>>,
             Tick \/ (\E g \in Hosts : ChangeDisk(g)) \/ UNCHANGED <<disk, heldUntil>>
      PROVE  StampsAreHonest'
  <2>1. ASSUME NEW h \in Hosts, rows[h] # NoRow
        PROVE  disk'[h] = rows[h].content \/ heldUntil'[h][rows[h].content] > rows[h].updated
    <3>1. PICK c \in Contents, t \in 0..MaxTime :
             c = rows[h].content /\ t = rows[h].updated /\ t <= clock /\ HeldSince(h, c, t)
      BY <2>1 DEF TypeOK, Rows, NoFutureStamp, StampsAreHonest
    <3>2. HeldSince(h, c, t)'
      BY <1>1, <3>1, HeldSinceStable
    <3>3. QED BY <3>1, <3>2 DEF HeldSince
  <2>2. ASSUME NEW o \in refreshed
        PROVE  disk'[o.host] = o.content \/ heldUntil'[o.host][o.content] > o.at
    <3>1. PICK h \in Hosts, c \in Contents, t \in 0..MaxTime :
             h = o.host /\ c = o.content /\ t = o.at /\ t <= clock /\ HeldSince(h, c, t)
      BY DEF TypeOK, Observations, NoFutureStamp, StampsAreHonest
    <3>2. HeldSince(h, c, t)'
      BY <1>1, <3>1, HeldSinceStable
    <3>3. QED BY <3>1, <3>2 DEF HeldSince
  <2>3. QED BY <1>1, <2>1, <2>2 DEF StampsAreHonest, HeldSince
<1>2. CASE UNCHANGED <<clock, disk, heldUntil>>
  <2>1. CASE rows' = NoRows /\ refreshed' = {}
    BY <2>1 DEF StampsAreHonest, NoRows
  <2>2. ASSUME NEW p \in Procs, NEW h \in Hosts, Upsert(p, h) PROVE StampsAreHonest'
    <3>1. scan[p][h] # Absent /\ op[p] # "observe"
      BY <2>2 DEF Upsert, LocalsFit
    <3>2. HeldSince(h, scan[p][h], stamp[p])
      BY <3>1 DEF ScansAreHonest
    <3>3. /\ rows' = [rows EXCEPT ![h] = [content |-> scan[p][h], updated |-> stamp[p]]]
          /\ refreshed' = refreshed \cup {[host |-> h, content |-> scan[p][h], at |-> stamp[p]]}
      BY <2>2 DEF Upsert, RowOf, ObservationOf
    <3>4. QED BY <1>2, <3>2, <3>3 DEF StampsAreHonest, HeldSince, TypeOK
  <2>3. QED BY <1>1, <1>2, <2>1, <2>2, TableWrites
<1>3. QED BY <1>1, <1>2, WorldMoves

\* No row and no observation claims a content that was already gone from the
\* sites root at its stamp.
THEOREM HonestStamps == Spec => []StampsAreHonest
<1>1. Init => HonestInv
  BY DEF Init, HonestInv, ScansAreHonest, NoFutureStamp, StampsAreHonest, NoRows, NoRow, NoSnapshots
<1>2. TypeInv /\ HonestInv /\ [Next]_vars => HonestInv'
  BY StampsStep, ScansStep, FutureStep DEF HonestInv
<1>3. HonestInv => StampsAreHonest
  BY DEF HonestInv
<1>4. QED BY <1>1, <1>2, <1>3, TypeInvariant, PTL DEF Spec

-----------------------------------------------------------------------------
(* The stacks table is the index of StackIndex.  Only Upsert and Clear     *)
(* move it, and an Upsert is a Record because its scan was honest.         *)

LEMMA UpsertIsRecord ==
  ASSUME TypeInv, HonestInv, NEW p \in Procs, NEW h \in Hosts, Upsert(p, h)
  PROVE  Index!Record(h)
<1>1. scan[p][h] # Absent /\ op[p] # "observe"
  BY DEF Upsert, TypeInv, LocalsFit
<1>2. /\ scan[p][h] \in Contents
      /\ stamp[p] \in 0..MaxTime
      /\ stamp[p] <= clock
      /\ HeldSince(h, scan[p][h], stamp[p])
  BY <1>1 DEF TypeInv, TypeOK, Snapshots, HonestInv, NoFutureStamp, ScansAreHonest
<1>3. RowOf(p, h) \in Index!Rows
  BY <1>2 DEF RowOf, Index!Rows
<1>4. QED
  BY <1>2, <1>3 DEF Upsert, RowOf, world, Index!Record, Index!HeldSince, HeldSince

LEMMA ChangeIsEvolve ==
  ASSUME TypeInv, NEW h \in Hosts, ChangeDisk(h)
  PROVE  Index!Evolve
<1>1. disk' \in [Hosts -> Contents \cup {Absent}]
  BY DEF ChangeDisk, TypeInv, TypeOK, Snapshots
<1>2. ASSUME NEW g \in Hosts, NEW c \in Contents
      PROVE  heldUntil'[g][c] = IF disk[g] = c /\ disk'[g] # c THEN clock + 1 ELSE heldUntil[g][c]
  BY DEF ChangeDisk, TypeInv, TypeOK, Snapshots
<1>3. heldUntil' = [g \in Hosts |-> [c \in Contents |-> heldUntil'[g][c]]]
  <2>1. heldUntil' \in [Hosts -> [Contents -> 0..(MaxTime + 1)]]
    BY TypeStep DEF Next, TypeOK
  <2>2. QED BY <2>1
<1>4. QED
  BY <1>1, <1>2, <1>3 DEF Index!Evolve, ChangeDisk, db

LEMMA StepIsIndexStep ==
  ASSUME TypeInv, HonestInv, [Next]_vars
  PROVE  [Index!Next]_(Index!vars)
<1>1. CASE Tick
  BY <1>1 DEF Tick, db, Index!Next, Index!Tick
<1>2. CASE \E g \in Hosts : ChangeDisk(g)
  BY <1>2, ChangeIsEvolve DEF Index!Next
<1>3. CASE UNCHANGED <<clock, disk, heldUntil>>
  <2>1. CASE UNCHANGED <<rows, refreshed>>
    BY <1>3, <2>1 DEF Index!vars
  <2>2. CASE rows' = NoRows /\ refreshed' = {}
    BY <1>3, <2>2 DEF NoRows, NoRow, Index!Next, Index!Forget, Index!NoRow
  <2>3. CASE \E p \in Procs, h \in Hosts : Upsert(p, h)
    BY <2>3, UpsertIsRecord DEF Index!Next
  <2>4. QED BY <2>1, <2>2, <2>3, TableWrites
<1>4. QED BY <1>1, <1>2, <1>3, WorldMoves

\* The commands implement the index: every behaviour of the cache is, seen
\* through the stacks table, a behaviour of StackIndex.
THEOREM ImplementsIndex == Spec => IndexSpec
<1>1. Init => Index!Init
  BY DEF Init, Snapshots, NoRows, NoRow, Index!Init, Index!NoRow
<1>2. Init => HonestInv
  BY DEF Init, HonestInv, ScansAreHonest, NoFutureStamp, StampsAreHonest, NoRows, NoRow, NoSnapshots
<1>3. TypeInv /\ HonestInv /\ [Next]_vars => HonestInv'
  BY StampsStep, ScansStep, FutureStep DEF HonestInv
<1>4. TypeInv /\ HonestInv /\ [Next]_vars => [Index!Next]_(Index!vars)
  BY StepIsIndexStep
<1>5. QED
  BY <1>1, <1>2, <1>3, <1>4, TypeInvariant, PTL DEF Spec, IndexSpec, Index!Spec

-----------------------------------------------------------------------------
(* A refresh that reports no issues has recorded what it inspected.  While *)
(* it writes, the snapshots that are not to do any more are recorded.      *)

Recorded(p, h) == ObservationOf(p, h) \in refreshed

RecordedSoFar(p) ==
  /\ pc[p] = "scan" => scan[p] = NoSnapshots
  /\ op[p] \in Refreshing \ {"refresh_dry"} /\ ~overtaken[p] =>
       /\ pc[p] = "write" => \A h \in Scanned(p) \ todo[p] : Recorded(p, h)
       /\ pc[p] \in {"read", "done"} => \A h \in Scanned(p) : Recorded(p, h)
       /\ pc[p] = "done" /\ op[p] = "list" /\ ok[p] => \A h \in Scanned(p) : listing[p][h] # NoRow

CoverInv == RowsAgreeWithObservations /\ \A p \in Procs : RecordedSoFar(p)

\* What a step of another process, or of the world, does to p's promise: it
\* adds observations, or it clears them and p is overtaken.
LEMMA OthersKeepRecords ==
  ASSUME TypeInv, NEW q \in Procs, RecordedSoFar(q),
         pc'[q] = pc[q], op'[q] = op[q], stamp'[q] = stamp[q], todo'[q] = todo[q],
         scan'[q] = scan[q], ok'[q] = ok[q], listing'[q] = listing[q],
         overtaken'[q] \/ (refreshed \subseteq refreshed' /\ overtaken'[q] = overtaken[q])
  PROVE  RecordedSoFar(q)'
BY DEF RecordedSoFar, Recorded, Scanned, ObservationOf

LEMMA CoverCommand ==
  ASSUME TypeInv, CoverInv, NEW p \in Procs, Command(p)
  PROVE  RecordedSoFar(p)'
<1> USE DEF TypeInv, CoverInv
<1>1. RecordedSoFar(p)
  OBVIOUS
<1> USE DEF RecordedSoFar, Recorded, Scanned, TypeOK
<1>2. ASSUME NEW o \in Refreshing, Begin(p, o) PROVE RecordedSoFar(p)'
  BY <1>2 DEF Begin, Fresh
<1>3. CASE Clear(p)
  BY <1>3 DEF Clear, ToRefresh
<1>4. CASE ListStackDirs(p) \/ ChooseStack(p)
  BY <1>4 DEF ListStackDirs, ChooseStack
<1>5. CASE NoSitesRoot(p)
  BY <1>1, <1>5 DEF NoSitesRoot, NoSnapshots
<1>6. ASSUME NEW h \in Hosts, Inspect(p, h) PROVE RecordedSoFar(p)'
  BY <1>6 DEF Inspect
<1>7. CASE Leave(p)
  BY <1>7 DEF Leave, Fresh
<1>8. CASE BeginWrites(p)
  BY <1>8 DEF BeginWrites
<1>9. ASSUME NEW h \in Hosts, Upsert(p, h) PROVE RecordedSoFar(p)'
  BY <1>1, <1>9 DEF Upsert, ObservationOf
<1>10. CASE Finish(p)
  BY <1>1, <1>10 DEF Finish, local, db, ObservationOf
<1>11. CASE ReadListing(p)
  <2>1. ASSUME ~overtaken[p], op[p] = "list", NEW h \in Scanned(p) PROVE rows[h] # NoRow
    <3>1. ObservationOf(p, h) \in refreshed
      BY <1>1, <1>11, <2>1 DEF ReadListing, Refreshing, Sweeping
    <3>2. QED BY <3>1 DEF RowsAgreeWithObservations, ObservationOf
  <2>2. QED BY <1>1, <1>11, <2>1 DEF ReadListing, db, ObservationOf
<1>12. CASE BeginObserve(p)
  BY <1>12 DEF BeginObserve, Refreshing, Sweeping
<1>13. ASSUME NEW h \in Hosts, PersistObservation(p, h) PROVE RecordedSoFar(p)'
  BY <1>13 DEF PersistObservation, Refreshing, Sweeping
<1>14. QED
  BY <1>2, <1>3, <1>4, <1>5, <1>6, <1>7, <1>8, <1>9, <1>10, <1>11, <1>12, <1>13
  DEF Command, InspectRaises, Abort, Exit

LEMMA CoverStep ==
  ASSUME TypeInv, CoverInv, [Next]_vars
  PROVE  CoverInv'
<1>1. RowsAgreeWithObservations'
  BY AgreementStep DEF CoverInv
<1>2. ASSUME NEW q \in Procs PROVE RecordedSoFar(q)'
  <2>1. RecordedSoFar(q)
    BY DEF CoverInv
  <2>2. CASE UNCHANGED vars \/ Tick \/ \E g \in Hosts : ChangeDisk(g)
    BY <2>1, <2>2, OthersKeepRecords DEF vars, Tick, ChangeDisk, db, local
  <2>3. CASE Command(q)
    BY <2>3, CoverCommand
  <2>4. ASSUME NEW p \in Procs, p # q, Command(p) PROVE RecordedSoFar(q)'
    <3>1. /\ pc'[q] = pc[q] /\ op'[q] = op[q] /\ stamp'[q] = stamp[q] /\ todo'[q] = todo[q]
          /\ scan'[q] = scan[q] /\ ok'[q] = ok[q] /\ listing'[q] = listing[q]
      BY <2>4 DEF Command, Begin, Clear, ToRefresh, ListStackDirs, ChooseStack, NoSitesRoot,
         Inspect, InspectRaises, BeginWrites, Upsert, Finish, ReadListing, BeginObserve,
         PersistObservation, Abort, Exit, Leave, Fresh, local, TypeInv, TypeOK
    <3>2. CASE Clear(p)
      BY <2>1, <2>4, <3>1, <3>2, OthersKeepRecords DEF Clear, ToRefresh
    <3>3. CASE ~Clear(p)
      <4>1. overtaken'[q] = overtaken[q] /\ refreshed \subseteq refreshed'
        BY <2>4, <3>3 DEF Command, Begin, ListStackDirs, ChooseStack, NoSitesRoot,
           Inspect, InspectRaises, BeginWrites, Upsert, Finish, ReadListing, BeginObserve,
           PersistObservation, Abort, Exit, Leave, Fresh, local, db, TypeInv, TypeOK
      <4>2. QED BY <2>1, <3>1, <4>1, OthersKeepRecords
    <3>4. QED BY <3>2, <3>3
  <2>5. QED BY <2>2, <2>3, <2>4 DEF Next
<1>3. QED BY <1>1, <1>2 DEF CoverInv

\* A refresh that reports no issues has recorded every stack it inspected, and
\* list --refresh lists them, unless a rebuild ran into it.
THEOREM RefreshCovers == Spec => []CompletedRefreshCovers
<1>1. Init => CoverInv
  BY DEF Init, CoverInv, RecordedSoFar, RowsAgreeWithObservations, NoRows
<1>2. TypeInv /\ CoverInv /\ [Next]_vars => CoverInv'
  BY CoverStep
<1>3. CoverInv => CompletedRefreshCovers
  BY DEF CoverInv, RecordedSoFar, Recorded, CompletedRefreshCovers,
     RowsAgreeWithObservations, ObservationOf
<1>4. QED BY <1>1, <1>2, <1>3, TypeInvariant, PTL DEF Spec

\* A rebuild forgets the index as a whole and nothing but the index.
THEOREM RebuildIsSelective == Spec => RebuildForgetsOnlyTheIndex
<1>1. ASSUME TypeInv, [Next]_vars
      PROVE  observed \subseteq observed'
  BY <1>1 DEF Next, Tick, ChangeDisk, Command, Begin, Clear, ToRefresh, ListStackDirs,
     ChooseStack, NoSitesRoot, Inspect, InspectRaises, BeginWrites, Upsert, Finish,
     ReadListing, BeginObserve, PersistObservation, Abort, Exit, Leave, db, vars
<1>2. ASSUME TypeInv, [Next]_vars, ~ refreshed \subseteq refreshed'
      PROVE  refreshed' = {} /\ rows' = NoRows
  BY <1>2, TableWrites DEF Upsert
<1>3. TypeInv /\ [Next]_vars =>
        [/\ observed \subseteq observed'
         /\ ~ refreshed \subseteq refreshed' => refreshed' = {} /\ rows' = NoRows]_vars
  BY <1>1, <1>2
<1>4. QED BY <1>3, TypeInvariant, PTL DEF Spec, RebuildForgetsOnlyTheIndex
=============================================================================
