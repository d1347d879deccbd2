------------------------------- MODULE Daemon -------------------------------
(* `daemon run`: a loop that refreshes the stack cache, runs the observers *)
(* it was asked for and sleeps; and the systemd unit that keeps it going,  *)
(* with the commands that install, remove, start and stop it.  One daemon  *)
(* process at a time: refreshes that interleave are StateCache's subject.  *)
(* A refresh and its transactions are one step that may fail half way.     *)
EXTENDS Naturals, FiniteSets, Observers

CONSTANTS
  Hosts,        \* stacks the sites root may hold
  Options,      \* the sets of --observe flags in use
  NoUnit,       \* no unit file, or nothing loaded
  MaxChanges,   \* bound on the changes of the sites root
  MaxCommands,  \* bound on the commands of the operator
  MaxFaults     \* bound on kills, reboots and errors of the database

Flags == {"runtime", "cloudflare", "ses"}

ASSUME OptionsAssumption == {} \in Options /\ Options \subseteq SUBSET Flags /\ NoUnit \notin Options
ASSUME BoundsAssumption == MaxChanges \in Nat /\ MaxCommands \in Nat /\ MaxFaults \in Nat

VARIABLES
  disk,         \* what the sites root holds: nothing, a stack, one with an
                \* issue, or one on which inspect_stack raises
  changes,
  schema,       \* the tables: none, only the first of them, or all
  rows,         \* hosts with a row in the table stacks
  beat,         \* turns with every event of the daemon: the time of the newest
                \* one, the heartbeat of `daemon status`, has moved
  unit,         \* the options in the unit file
  loaded,       \* the options of the unit systemd has loaded
  enabled,      \* whether the unit is wanted by the boot target
  service,      \* ActiveState of the unit; waiting is RestartSec's pause
  pc,           \* where the daemon process is
  by,           \* who started it, systemd or somebody's hand
  once,         \* its --once
  opts,         \* its --observe flags
  scanned,      \* what the one refresh of --once found
  alarmed,      \* observers whose records of --once are warnings
  cycleOk,      \* local: whether the cycle is ok
  todo,         \* local: observers still to run
  results,      \* local: the results so far
  failing,      \* local: an exception is on its way out
  exit,         \* how the last process ended
  admin,        \* where `daemon install` or `daemon uninstall` is
  report,       \* local to that command: its arguments and its result; kept,
                \* when it is done, until the operator acts again
  commands,
  faults

sites == <<disk, changes>>
db == <<schema, rows, beat>>
systemd == <<unit, loaded, enabled, service>>
locals == <<by, once, opts, scanned, alarmed, cycleOk, todo, results, failing, exit>>
operator == <<admin, report, commands>>
vars == <<sites, db, systemd, pc, locals, operator, faults>>

Contents == {"absent", "good", "flawed", "broken"}
Steps == {"off", "open", "announce", "cycle", "observe", "persist", "report", "sleep", "stop"}
InLoop == Steps \ {"off", "open", "announce", "stop"}
Observers == {"stack_runtime", "cloudflared", "traefik", "cloudflare", "ses"}

\* observe_runtime stands for three observers, the other flags for one each.
Selected(o) ==
  (IF "runtime" \in o THEN {"stack_runtime", "cloudflared", "traefik"} ELSE {})
    \cup (o \cap {"cloudflare", "ses"})

Present == {h \in Hosts : disk[h] # "absent"}

NoReport == [cmd |-> "none", opts |-> NoUnit, now |-> FALSE, ok |-> FALSE,
             stopped |-> FALSE, fresh |-> FALSE, alone |-> TRUE]

Init ==
  /\ disk \in [Hosts -> Contents]
  /\ changes = 0
  /\ schema = "none"
  /\ rows = {}
  /\ beat = FALSE
  /\ unit = NoUnit
  /\ loaded = NoUnit
  /\ enabled = FALSE
  /\ service = "inactive"
  /\ pc = "off"
  /\ by = "hand"
  /\ once = FALSE
  /\ opts = {}
  /\ scanned = {}
  /\ alarmed = {}
  /\ cycleOk = FALSE
  /\ todo = {}
  /\ results = <<>>
  /\ failing = FALSE
  /\ exit = "none"
  /\ admin = "idle"
  /\ report = NoReport
  /\ commands = 0
  /\ faults = 0

ChangeDisk(h) ==
  /\ changes < MaxChanges
  /\ changes' = changes + 1
  /\ \E c \in Contents \ {disk[h]} : disk' = [disk EXCEPT ![h] = c]
  /\ UNCHANGED <<db, systemd, pc, locals, operator, faults>>

Fault ==
  /\ faults < MaxFaults
  /\ faults' = faults + 1

-----------------------------------------------------------------------------
(* The process.                                                            *)

Launch(who, one, o) ==
  /\ pc = "off"
  /\ pc' = "open"
  /\ by' = who
  /\ once' = one
  /\ opts' = o
  /\ scanned' = {}
  /\ alarmed' = {}
  /\ cycleOk' = FALSE
  /\ todo' = {}
  /\ results' = <<>>
  /\ failing' = FALSE
  /\ exit' = "none"

\* The process is over; a shell sees how.  systemd waits to restart a service
\* that failed, unless the unit has been taken away from under it.
End(how) ==
  /\ pc' = "off"
  /\ exit' = IF by = "hand" THEN how ELSE "none"
  /\ service' = IF by # "systemd" THEN service
                ELSE IF how = "ok" THEN "inactive"
                ELSE IF loaded = NoUnit THEN "failed" ELSE "waiting"
  /\ cycleOk' = FALSE
  /\ todo' = {}
  /\ results' = <<>>
  /\ failing' = FALSE
  /\ UNCHANGED <<by, once, opts, scanned, alarmed>>

\* Every event moves the heartbeat; times are to the second, and two events of
\* the same second count as two here.
RecordEvent == beat' = ~beat

\* Somebody runs `daemon run` while the service does not.
RunByHand ==
  /\ service \notin {"active", "waiting"}
  /\ commands < MaxCommands
  /\ commands' = commands + 1
  /\ \E one \in BOOLEAN, o \in Options : Launch("hand", one, o)
  /\ UNCHANGED <<sites, db, systemd, admin, report, faults>>

\* A faulty initialization that trusts the first table; the event finds no
\* table then.
OpenTrusting ==
  /\ pc = "open"
  /\ IF schema = "partial"
     THEN End("error") /\ UNCHANGED schema
     ELSE schema' = "full" /\ pc' = "announce" /\ UNCHANGED <<service, locals>>
  /\ UNCHANGED <<sites, rows, beat, unit, loaded, enabled, operator, faults>>

\* run_daemon before its loop: the schema, then the event.  Whatever raises
\* here ends the process without a trace in the events.
Open ==
  /\ pc = "open"
  /\ schema' = "full"
  /\ pc' = "announce"
  /\ UNCHANGED <<sites, rows, beat, systemd, locals, operator, faults>>

Announce ==
  /\ pc = "announce"
  /\ RecordEvent
  /\ pc' = "cycle"
  /\ UNCHANGED <<sites, schema, rows, systemd, locals, operator, faults>>

OpenRaises ==
  /\ pc \in {"open", "announce"}
  /\ Fault
  /\ End("error")
  /\ UNCHANGED <<sites, db, unit, loaded, enabled, operator>>

\* run_daemon_cycle's refresh: every stack is recorded, a flawed one or a
\* missing sites root makes the cycle one with issues.
Refresh ==
  /\ pc = "cycle"
  /\ \A h \in Hosts : disk[h] # "broken"
  /\ scanned' = IF once THEN Present ELSE {}
  /\ rows' = rows \cup Present
  /\ \/ cycleOk' = \A h \in Hosts : disk[h] # "flawed"
     \/ Present = {} /\ cycleOk' = FALSE
  /\ todo' = Selected(opts)
  /\ results' = <<>>
  /\ pc' = IF Selected(opts) = {} THEN "report" ELSE "observe"
  /\ UNCHANGED <<sites, schema, beat, systemd, by, once, opts, alarmed, failing, exit, operator, faults>>

\* The refresh raises and the cycle has failed: before any write on a stack
\* that cannot be read, between two of them on a locked database.  The
\* observers do not run.
RefreshFails ==
  /\ pc = "cycle"
  /\ \/ \E h \in Hosts : disk[h] = "broken"
        /\ UNCHANGED <<rows, faults>>
     \/ /\ Fault
        /\ \A h \in Hosts : disk[h] # "broken"
        /\ \E part \in SUBSET Present : rows' = rows \cup part
  /\ scanned' = {}
  /\ cycleOk' = FALSE
  /\ results' = <<>>
  /\ pc' = "report"
  /\ UNCHANGED <<sites, schema, beat, systemd, by, once, opts, alarmed, todo, failing, exit, operator>>

-----------------------------------------------------------------------------
(* run_observers: one observer after the other, then their records.        *)

StackOutcomes ==
  [S \in SUBSET Hosts |->
     {StackRuntime(root, docker, facts) :
        root \in {there \in BOOLEAN : S # {} => there}, docker \in BOOLEAN, facts \in [S -> StackFacts]}]

CloudflaredOutcomes ==
  {CloudflaredRuntime(config, active, path) :
     config \in CloudflaredConfigs, active \in BOOLEAN, path \in {"none", "same", "other"}}

CloudflareOutcomes ==
  [S \in SUBSET Hosts |->
     {CloudflareProvider(token, client, tunnel, facts) :
        token \in BOOLEAN, client \in BOOLEAN, tunnel \in BOOLEAN, facts \in [S -> HostFacts]}]

\* The domains are those of the stacks, or the environment names them.
SesOutcomes ==
  {SesProvider(stage, sending, facts, records) :
     stage \in {"region", "client", "account", "identities", "none"}, sending \in BOOLEAN,
     facts \in UNION {[D -> DomainFacts] : D \in SUBSET {"domain"}},
     records \in {"not_compared", "published", "unpublished"}}

Outcomes(o) ==
  CASE o = "stack_runtime" -> StackOutcomes[Present]
    [] o = "cloudflared" -> CloudflaredOutcomes
    [] o = "traefik" -> {TraefikRuntime(answered) : answered \in BOOLEAN}
    [] o = "cloudflare" -> CloudflareOutcomes[Present]
    [] OTHER -> SesOutcomes

\* A result is what it says, without the status of its target.
Verdict(r) == [ok |-> r.ok, issues |-> r.issues]

Rank == [stack_runtime |-> 1, cloudflared |-> 2, traefik |-> 3, cloudflare |-> 4, ses |-> 5]
Turn(o) == o \in todo /\ \A q \in todo : Rank[o] <= Rank[q]

Observe(o) ==
  /\ pc = "observe"
  /\ Turn(o)
  /\ \E r \in Outcomes(o) :
       results' = [q \in DOMAIN results \cup {o} |-> IF q = o THEN Verdict(r) ELSE results[q]]
  /\ todo' = todo \ {o}
  /\ pc' = IF todo' = {} THEN "persist" ELSE "observe"
  /\ UNCHANGED <<sites, db, systemd, by, once, opts, scanned, alarmed, cycleOk, failing, exit, operator, faults>>

\* Nothing catches an observer that raises but the finally of run_daemon.
ObserverRaises ==
  /\ pc = "observe"
  /\ failing' = TRUE
  /\ pc' = "stop"
  /\ UNCHANGED <<sites, db, systemd, by, once, opts, scanned, alarmed, cycleOk, todo, results, exit, operator, faults>>

Alarming == IF once THEN {o \in DOMAIN results : Severity(results[o]) = "warning"} ELSE {}

\* A cycle that forgets its observers.
PersistOnly ==
  /\ pc = "persist"
  /\ alarmed' = Alarming
  /\ pc' = "report"
  /\ UNCHANGED <<sites, db, systemd, by, once, opts, scanned, cycleOk, todo, results, failing, exit,
                 operator, faults>>

\* The results are recorded, and the cycle is ok if the run of the observers
\* was.
Persist ==
  /\ pc = "persist"
  /\ alarmed' = Alarming
  /\ cycleOk' = (cycleOk /\ RunOk({results[o] : o \in DOMAIN results}))
  /\ pc' = "report"
  /\ UNCHANGED <<sites, db, systemd, by, once, opts, scanned, todo, results, failing, exit, operator, faults>>

\* The database fails between two records; the first of them stay.
PersistRaises ==
  /\ pc = "persist"
  /\ Fault
  /\ \E part \in SUBSET Alarming : alarmed' = part
  /\ failing' = TRUE
  /\ pc' = "stop"
  /\ UNCHANGED <<sites, db, systemd, by, once, opts, scanned, cycleOk, todo, results, exit, operator>>

-----------------------------------------------------------------------------
(* The rest of the loop.                                                   *)

\* A loop that keeps its issues to itself.
ReportSilently ==
  /\ pc = "report"
  /\ pc' = IF once THEN "stop" ELSE "sleep"
  /\ results' = <<>>
  /\ UNCHANGED <<sites, db, systemd, by, once, opts, scanned, alarmed, cycleOk, todo, failing, exit, operator, faults>>

\* A cycle that is not ok leaves a warning among the events, one that is ok
\* leaves nothing.
Report ==
  /\ pc = "report"
  /\ IF cycleOk THEN UNCHANGED beat ELSE RecordEvent
  /\ pc' = IF once THEN "stop" ELSE "sleep"
  /\ results' = <<>>
  /\ UNCHANGED <<sites, schema, rows, systemd, by, once, opts, scanned, alarmed, cycleOk, todo, failing,
                 exit, operator, faults>>

ReportRaises ==
  /\ pc = "report"
  /\ ~cycleOk
  /\ Fault
  /\ failing' = TRUE
  /\ pc' = "stop"
  /\ UNCHANGED <<sites, db, systemd, by, once, opts, scanned, alarmed, cycleOk, todo, results, exit, operator>>

Wake ==
  /\ pc = "sleep"
  /\ pc' = "cycle"
  /\ UNCHANGED <<sites, db, systemd, locals, operator, faults>>

\* Ctrl-C in a terminal: before the loop the process just ends, in it the
\* loop is left.  A cycle that was cut short is not the last cycle.
Interrupt ==
  /\ by = "hand"
  /\ pc \in InLoop
  /\ cycleOk' = (cycleOk /\ pc \in {"report", "sleep"})
  /\ pc' = "stop"
  /\ UNCHANGED <<sites, db, systemd, by, once, opts, scanned, alarmed, todo, results, failing, exit, operator, faults>>

\* The finally, and the exit code `daemon run` makes of the result: only
\* --once looks at it.
Stop ==
  /\ pc = "stop"
  /\ RecordEvent
  /\ End(IF failing \/ (once /\ ~cycleOk) THEN "error" ELSE "ok")
  /\ UNCHANGED <<sites, schema, rows, unit, loaded, enabled, operator, faults>>

StopRaises ==
  /\ pc = "stop"
  /\ Fault
  /\ End("error")
  /\ UNCHANGED <<sites, db, unit, loaded, enabled, operator>>

\* The out-of-memory killer, or a kill -9: no finally runs.  The statements
\* of the schema are committed one by one.
Kill ==
  /\ pc # "off"
  /\ Fault
  /\ schema' \in IF pc = "open" /\ schema # "full" THEN {schema, "partial"} ELSE {schema}
  /\ End("killed")
  /\ UNCHANGED <<sites, rows, beat, unit, loaded, enabled, operator>>

-----------------------------------------------------------------------------
(* systemd.                                                                *)

\* RestartSec has passed.
RestartOnFailure ==
  /\ service = "waiting"
  /\ service' = "active"
  /\ Launch("systemd", FALSE, loaded)
  /\ UNCHANGED <<sites, db, unit, loaded, enabled, operator, faults>>

\* systemctl start does nothing for a service that runs; it loads a unit
\* file it has not seen.
Startable == IF loaded = NoUnit THEN unit ELSE loaded
StartService ==
  IF service = "active" THEN UNCHANGED <<loaded, service, pc, locals>>
  ELSE /\ Startable # NoUnit
       /\ loaded' = Startable
       /\ service' = "active"
       /\ Launch("systemd", FALSE, Startable)

\* A process that is killed from outside leaves nothing of its locals.
Cut ==
  /\ pc' = "off"
  /\ exit' = IF by = "hand" /\ pc # "off" THEN "killed" ELSE exit
  /\ cycleOk' = FALSE
  /\ todo' = {}
  /\ results' = <<>>
  /\ failing' = FALSE
  /\ UNCHANGED <<by, once, opts, scanned, alarmed>>

\* systemctl stop: SIGTERM, which Python does not turn into an exception.
StopService ==
  /\ service' = "inactive"
  /\ IF service = "active" THEN Cut ELSE UNCHANGED <<pc, locals>>

\* The machine restarts: what is enabled is started, from the unit files.
Reboot ==
  /\ Fault
  /\ loaded' = unit
  /\ service' = IF enabled /\ unit # NoUnit THEN "waiting" ELSE "inactive"
  /\ Cut
  /\ admin' = "idle"
  /\ report' = IF admin = "idle" THEN report ELSE NoReport
  /\ UNCHANGED <<sites, db, unit, enabled, commands>>

-----------------------------------------------------------------------------
(* The operator.                                                           *)

\* A command that runs beside this one is not alone any more; what an
\* earlier one reported has had its time.
Interferes ==
  report' = IF admin = "idle" THEN NoReport ELSE [report EXCEPT !.alone = FALSE]

\* daemon start, stop and restart.
Systemctl ==
  /\ commands < MaxCommands
  /\ commands' = commands + 1
  /\ \/ StartService /\ UNCHANGED unit
     \/ StopService /\ UNCHANGED <<unit, loaded>>
     \/ /\ service = "active"
        /\ Startable # NoUnit
        /\ loaded' = Startable
        /\ service' = "active"
        /\ pc' = "open"
        /\ opts' = Startable
        /\ scanned' = {}
        /\ alarmed' = {}
        /\ cycleOk' = FALSE
        /\ todo' = {}
        /\ results' = <<>>
        /\ failing' = FALSE
        /\ UNCHANGED <<unit, by, once, exit>>
  /\ Interferes
  /\ UNCHANGED <<sites, db, enabled, admin, faults>>

\* The command is done; of its report only a success lasts.
Finished(r) ==
  /\ admin' = "idle"
  /\ report' = IF r.ok /\ r.alone THEN r ELSE NoReport

\* A unit file whose command line has lost --observe-ses.
InstallWritesFewer ==
  /\ admin = "idle"
  /\ commands < MaxCommands
  /\ commands' = commands + 1
  /\ \E o \in Options, now \in BOOLEAN, force \in BOOLEAN :
       IF unit # NoUnit /\ ~force
       THEN Finished(NoReport) /\ UNCHANGED unit
       ELSE /\ unit' = o \ {"ses"}
            /\ admin' = "reload"
            /\ report' = [NoReport EXCEPT !.cmd = "install", !.opts = o, !.now = now]
  /\ UNCHANGED <<sites, db, loaded, enabled, service, pc, locals, faults>>

\* daemon install refuses an existing unit without --force; else it writes
\* the file.
InstallWrites ==
  /\ admin = "idle"
  /\ commands < MaxCommands
  /\ commands' = commands + 1
  /\ \E o \in Options, now \in BOOLEAN, force \in BOOLEAN :
       IF unit # NoUnit /\ ~force
       THEN Finished(NoReport) /\ UNCHANGED unit
       ELSE /\ unit' = o
            /\ admin' = "reload"
            /\ report' = [NoReport EXCEPT !.cmd = "install", !.opts = o, !.now = now]
  /\ UNCHANGED <<sites, db, loaded, enabled, service, pc, locals, faults>>

\* A reload whose failure nobody looks at.
InstallReloadsUnchecked ==
  /\ admin = "reload"
  /\ report.cmd = "install"
  /\ loaded' \in {loaded, unit}
  /\ IF report.now
     THEN admin' = "enable" /\ UNCHANGED report
     ELSE Finished([report EXCEPT !.ok = TRUE])
  /\ UNCHANGED <<sites, db, unit, enabled, service, pc, locals, commands, faults>>

\* daemon-reload; when it fails, so does the command, and the file stays.
InstallReloads ==
  /\ admin = "reload"
  /\ report.cmd = "install"
  /\ \/ /\ loaded' = unit
        /\ IF report.now
           THEN admin' = "enable" /\ UNCHANGED report
           ELSE Finished([report EXCEPT !.ok = TRUE])
     \/ Finished(report) /\ UNCHANGED loaded
  /\ UNCHANGED <<sites, db, unit, enabled, service, pc, locals, commands, faults>>

\* enable --now: the symlink, then a start, which leaves a service that runs
\* as it is.
InstallEnables ==
  /\ admin = "enable"
  /\ enabled' = TRUE
  /\ StartService
  /\ Finished([report EXCEPT !.ok = TRUE, !.fresh = service # "active"])
  /\ UNCHANGED <<sites, db, unit, commands, faults>>

InstallEnableFails ==
  /\ admin = "enable"
  /\ enabled' \in {enabled, TRUE}
  /\ Finished(report)
  /\ UNCHANGED <<sites, db, unit, loaded, service, pc, locals, commands, faults>>

UninstallBegins ==
  /\ admin = "idle"
  /\ commands < MaxCommands
  /\ commands' = commands + 1
  /\ \E force \in BOOLEAN :
       /\ admin' = IF force THEN "halt" ELSE "unlink"
       /\ report' = [NoReport EXCEPT !.cmd = "uninstall"]
  /\ UNCHANGED <<sites, db, systemd, pc, locals, faults>>

\* A stop that is reported whatever systemctl said.
UninstallStopsUnchecked ==
  /\ admin = "halt"
  /\ StopService \/ UNCHANGED <<service, pc, locals>>
  /\ report' = [report EXCEPT !.stopped = TRUE]
  /\ admin' = "disable"
  /\ UNCHANGED <<sites, db, unit, loaded, enabled, commands, faults>>

\* With --force the unit is stopped and disabled first; whether that worked
\* is reported and changes nothing.
UninstallStops ==
  /\ admin = "halt"
  /\ \/ StopService /\ report' = [report EXCEPT !.stopped = TRUE]
     \/ UNCHANGED <<service, pc, locals, report>>
  /\ admin' = "disable"
  /\ UNCHANGED <<sites, db, unit, loaded, enabled, commands, faults>>

UninstallDisables ==
  /\ admin = "disable"
  /\ enabled' \in {enabled, FALSE}
  /\ admin' = "unlink"
  /\ UNCHANGED <<sites, db, unit, loaded, service, pc, locals, report, commands, faults>>

UninstallUnlinks ==
  /\ admin = "unlink"
  /\ unit' = NoUnit
  /\ admin' = "reload"
  /\ UNCHANGED <<sites, db, loaded, enabled, service, pc, locals, report, commands, faults>>

\* A restart that was due finds no unit any more.
UninstallReloads ==
  /\ admin = "reload"
  /\ report.cmd = "uninstall"
  /\ \/ /\ loaded' = unit
        /\ service' = IF service = "waiting" /\ unit = NoUnit THEN "failed" ELSE service
        /\ Finished([report EXCEPT !.ok = TRUE])
     \/ Finished(report) /\ UNCHANGED <<loaded, service>>
  /\ UNCHANGED <<sites, db, unit, enabled, pc, locals, commands, faults>>

\* The command is interrupted between two steps.
AdminKilled ==
  /\ admin # "idle"
  /\ Fault
  /\ admin' = "idle"
  /\ report' = NoReport
  /\ UNCHANGED <<sites, db, systemd, pc, locals, commands>>

-----------------------------------------------------------------------------
(* daemon status.                                                          *)

\* inspect_daemon_systemd: systemctl shows a state for a unit it does not
\* know as well, so with systemctl at hand the unit always counts as installed.
Supervised == service = "active"

-----------------------------------------------------------------------------

DaemonStep ==
  \/ Open
  \/ Announce
  \/ Refresh
  \/ RefreshFails
  \/ \E o \in Observers : Observe(o)
  \/ ObserverRaises
  \/ Persist
  \/ PersistRaises
  \/ Report
  \/ ReportRaises
  \/ Wake
  \/ Stop
  \/ StopRaises
  \/ OpenRaises

OperatorStep ==
  \/ Systemctl
  \/ InstallWrites
  \/ InstallReloads
  \/ InstallEnables
  \/ InstallEnableFails
  \/ UninstallBegins
  \/ UninstallStops
  \/ UninstallDisables
  \/ UninstallUnlinks
  \/ UninstallReloads
  \/ AdminKilled

Next ==
  \/ \E h \in Hosts : ChangeDisk(h)
  \/ RunByHand
  \/ DaemonStep
  \/ Interrupt
  \/ Kill
  \/ RestartOnFailure
  \/ Reboot
  \/ OperatorStep

\* The process runs on, its sleep ends, and systemd's timer does: nothing
\* else has to happen.
Fairness == WF_vars(DaemonStep) /\ WF_vars(RestartOnFailure)

Spec == Init /\ [][Next]_vars /\ Fairness

-----------------------------------------------------------------------------
(* Properties.                                                             *)

SitesOK ==
  /\ disk \in [Hosts -> Contents]
  /\ changes \in 0..MaxChanges
  /\ schema \in {"none", "partial", "full"}
  /\ rows \subseteq Hosts
  /\ beat \in BOOLEAN
  /\ faults \in 0..MaxFaults

UnitOK ==
  /\ unit \in Options \cup {NoUnit}
  /\ loaded \in Options \cup {NoUnit}
  /\ enabled \in BOOLEAN
  /\ service \in {"inactive", "active", "waiting", "failed"}

ProcessOK ==
  /\ pc \in Steps
  /\ by \in {"hand", "systemd"}
  /\ once \in BOOLEAN
  /\ opts \in Options
  /\ scanned \subseteq Hosts
  /\ alarmed \subseteq Observers
  /\ cycleOk \in BOOLEAN
  /\ todo \subseteq Observers
  /\ DOMAIN results \subseteq Observers
  /\ \A o \in DOMAIN results : results[o] \in [ok : BOOLEAN, issues : BOOLEAN]
  /\ failing \in BOOLEAN
  /\ exit \in {"none", "ok", "error", "killed"}

OperatorOK ==
  /\ admin \in {"idle", "reload", "enable", "halt", "disable", "unlink"}
  /\ report \in [cmd : {"none", "install", "uninstall"}, opts : Options \cup {NoUnit},
                 now : BOOLEAN, ok : BOOLEAN, stopped : BOOLEAN, fresh : BOOLEAN, alone : BOOLEAN]
  /\ commands \in 0..MaxCommands

\* Every variable has its type: what the unit file, the loaded unit and the
\* process hold are options that somebody asked for, and a restart always has
\* some to start with.
TypeOK == SitesOK /\ UnitOK /\ ProcessOK /\ OperatorOK

\* `daemon run --once` that exits with 0 has recorded every stack it found,
\* and recorded no warning of an observer.
OnceIsHonest ==
  pc = "off" /\ once /\ exit = "ok" =>
    /\ scanned \subseteq rows
    /\ alarmed = {}

\* The two ways an observer says that something is wrong, its ok, which gives
\* its record a severity, and its issues, which reach the cycle, agree.
ObserversAgree ==
  \A o \in DOMAIN results : results[o].ok <=> ~results[o].issues

\* What `daemon install` reports lasts, through crashes of the daemon and
\* reboots, until the operator acts again: the unit on disk is the one it wrote
\* and the one systemd uses; and after --now a daemon runs or is about to, with
\* the new options if none ran before.
InstallReportHolds ==
  report.cmd = "install" /\ report.ok /\ admin = "idle" =>
    /\ unit = report.opts
    /\ loaded = report.opts
    /\ report.now =>
         /\ enabled
         /\ service \in {"active", "waiting"}
         /\ report.fresh /\ pc # "off" => opts = report.opts

\* What `daemon uninstall` reports lasts, too: no unit, nothing that comes back
\* by itself or at boot, and nothing that runs where it says it stopped it.
UninstallReportHolds ==
  report.cmd = "uninstall" /\ report.ok /\ admin = "idle" =>
    /\ unit = NoUnit
    /\ loaded = NoUnit
    /\ service # "waiting"
    /\ report.stopped => ~Supervised /\ ~(pc # "off" /\ by = "systemd")

Watched == service \in {"active", "waiting"}

\* While the service is wanted and no stack is unreadable, a stack that stays
\* gets its row: through kills, an initialization that was cut short, a locked
\* database, and an observer that raises every time.
StacksGetRecorded ==
  \A h \in Hosts :
    []<>(Watched /\ disk[h] # "absent" /\ (\A g \in Hosts : disk[g] # "broken") => h \in rows)

\* A heartbeat that stands still means clean cycles: if the service stays wanted
\* and from some point on no event moves the heartbeat of `daemon status`, cycles
\* end well again and again.  So no failure goes on in silence, neither that of a
\* refresh, which leaves an event, nor that of an observer that raises, which
\* ends the process and leaves the events of its end and of the next start.
SilenceIsClean ==
  <>[]Watched /\ (<>[]beat \/ <>[]~beat) => []<>(pc = "report" /\ cycleOk)
=============================================================================
