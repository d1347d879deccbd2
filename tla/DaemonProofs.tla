---------------------------- MODULE DaemonProofs ----------------------------
(* Proofs about Daemon, for any stacks, any sets of observers that the      *)
(* daemon is run with, and any bounds.                                      *)
EXTENDS Daemon, TLAPS

USE OptionsAssumption, BoundsAssumption

-----------------------------------------------------------------------------
(* The observers.                                                          *)

Honest(r) == r.ok \in BOOLEAN /\ r.issues \in BOOLEAN /\ (r.ok <=> ~r.issues)

LEMMA ResultHonest ==
  ASSUME NEW ok \in BOOLEAN, NEW status, NEW issues \in BOOLEAN, ok <=> ~issues
  PROVE  Honest(Result(ok, status, issues))
BY DEF Honest, Result

LEMMA StackRuntimeHonest ==
  ASSUME NEW root \in BOOLEAN, NEW docker \in BOOLEAN, NEW facts
  PROVE  Honest(StackRuntime(root, docker, facts))
<1> DEFINE erroneous == \E h \in DOMAIN facts : StackStatus(docker, facts[h]) = "error"
<1>1. PICK e \in BOOLEAN, fine \in BOOLEAN : e = erroneous /\ fine = ~e
  OBVIOUS
<1>2. PICK yes \in {TRUE}, no \in {FALSE} : TRUE
  OBVIOUS
<1>3. StackRuntime(root, docker, facts) \in
        {Result(no, "error", yes), Result(fine, IF e THEN "issues" ELSE "ok", e)}
  BY <1>1, <1>2 DEF StackRuntime
<1>4. Honest(Result(no, "error", yes)) /\ Honest(Result(fine, IF e THEN "issues" ELSE "ok", e))
  BY <1>1, ResultHonest
<1>5. QED BY <1>3, <1>4

LEMMA CloudflaredHonest ==
  ASSUME NEW config, NEW active \in BOOLEAN, NEW path
  PROVE  Honest(CloudflaredRuntime(config, active, path))
<1>1. PICK e \in BOOLEAN, fine \in BOOLEAN :
        e = (config # "valid" \/ ~active \/ path = "other") /\ fine = ~e
  OBVIOUS
<1>2. CloudflaredRuntime(config, active, path) =
        Result(fine, IF ~active THEN "inactive" ELSE IF e THEN "issues" ELSE "active", e)
  BY <1>1 DEF CloudflaredRuntime
<1>3. QED BY <1>1, <1>2, ResultHonest

LEMMA TraefikHonest ==
  ASSUME NEW answered \in BOOLEAN
  PROVE  Honest(TraefikRuntime(answered))
BY DEF TraefikRuntime, Honest, Result

LEMMA ProviderHonest ==
  ASSUME NEW status, NEW issues \in BOOLEAN,
         status = "ready" => ~issues,
         ~issues => status \in {"ready", "unknown"}
  PROVE  Honest(ProviderResult(status, issues))
<1>1. PICK ok \in BOOLEAN : ok = (status = "ready" \/ (status = "unknown" /\ ~issues))
  OBVIOUS
<1>2. ProviderResult(status, issues) = Result(ok, status, issues)
  BY <1>1 DEF ProviderResult
<1>3. ok <=> ~issues
  BY <1>1
<1>4. QED BY <1>2, <1>3 DEF Honest, Result

LEMMA CloudflareHonest ==
  ASSUME NEW token \in BOOLEAN, NEW client \in BOOLEAN, NEW tunnel \in BOOLEAN, NEW facts
  PROVE  Honest(CloudflareProvider(token, client, tunnel, facts))
<1> DEFINE hosts == DOMAIN facts
           known == tunnel \/ \E h \in hosts : facts[h].zone /\ facts[h].account
           checked == {h \in hosts : facts[h].zone /\ facts[h].dns # "error"}
           issues == ~tunnel \/ \E h \in hosts : ~facts[h].zone \/ facts[h].dns # "match"
<1>1. PICK yes \in {TRUE}, no \in {FALSE} : TRUE
  OBVIOUS
<1>2. Honest(ProviderResult("blocked", yes)) /\ Honest(ProviderResult("unknown", no))
  BY ProviderHonest
<1>3. PICK i \in BOOLEAN, k \in BOOLEAN : i = issues /\ k = known
  OBVIOUS
<1>4. ~k => i
  BY <1>3
<1>5. Honest(ProviderResult(CloudflareStatus(k, i, checked), i))
  <2> DEFINE status == CloudflareStatus(k, i, checked)
  <2>1. status = "ready" => ~i
    BY <1>4 DEF CloudflareStatus
  <2>2. ~i => status \in {"ready", "unknown"}
    BY <1>4 DEF CloudflareStatus
  <2> HIDE DEF status
  <2>3. Honest(ProviderResult(status, i))
    BY <2>1, <2>2, ProviderHonest
  <2>4. QED BY <2>3 DEF status
<1>6. CloudflareProvider(token, client, tunnel, facts) \in
        {ProviderResult("blocked", yes), ProviderResult("unknown", no),
         ProviderResult(CloudflareStatus(k, i, checked), i)}
  BY <1>1, <1>3 DEF CloudflareProvider
<1>7. QED BY <1>2, <1>5, <1>6

LEMMA SesHonest ==
  ASSUME NEW stage \in {"region", "client", "account", "identities", "none"},
         NEW sending \in BOOLEAN, NEW facts, NEW records
  PROVE  Honest(SesProvider(stage, sending, facts, records))
<1> DEFINE targets == DOMAIN facts # {}
           domains == \E d \in DOMAIN facts : DomainIssue(facts[d])
           issues == ~sending \/ domains \/ records = "unpublished"
<1>1. PICK yes \in {TRUE}, off \in BOOLEAN : off = ~sending
  OBVIOUS
<1>2. Honest(ProviderResult("blocked", yes)) /\ Honest(ProviderResult("unknown", off))
  BY ProviderHonest
<1>3. PICK i \in BOOLEAN, k \in BOOLEAN : i = issues /\ k = targets
  OBVIOUS
<1>4. Honest(ProviderResult(SesStatus(k, i), i))
  BY ProviderHonest DEF SesStatus
<1>5. SesProvider(stage, sending, facts, records) \in
        {ProviderResult("blocked", yes), ProviderResult("unknown", off),
         ProviderResult(SesStatus(k, i), i)}
  BY <1>1, <1>3 DEF SesProvider
<1>6. QED BY <1>2, <1>4, <1>5

\* No observer contradicts itself, whatever it is told.
LEMMA OutcomesHonest ==
  ASSUME NEW o \in Observers, NEW r \in Outcomes(o), TypeOK
  PROVE  Honest(r)
<1>1. Present \in SUBSET Hosts
  BY DEF Present
<1>2. CASE o = "stack_runtime"
  <2> DEFINE of(S) == {StackRuntime(root, docker, facts) :
                         root \in {there \in BOOLEAN : S # {} => there}, docker \in BOOLEAN,
                         facts \in [S -> StackFacts]}
  <2>1. r \in StackOutcomes[Present]
    BY <1>2 DEF Outcomes
  <2>2. StackOutcomes = [S \in SUBSET Hosts |-> of(S)]
    BY DEF StackOutcomes
  <2>3. \A S : \A x \in of(S) : Honest(x)
    BY StackRuntimeHonest
  <2> HIDE DEF of
  <2>4. QED BY <1>1, <2>1, <2>2, <2>3
<1>3. CASE o = "cloudflared"
  BY <1>3, CloudflaredHonest DEF Outcomes, CloudflaredOutcomes
<1>4. CASE o = "traefik"
  BY <1>4, TraefikHonest DEF Outcomes
<1>5. CASE o = "cloudflare"
  <2>1. r \in {CloudflareProvider(token, client, tunnel, facts) :
                 token \in BOOLEAN, client \in BOOLEAN, tunnel \in BOOLEAN,
                 facts \in [Present -> HostFacts]}
    BY <1>1, <1>5 DEF Outcomes, CloudflareOutcomes
  <2>2. QED BY <2>1, CloudflareHonest
<1>6. CASE o = "ses"
  BY <1>6, SesHonest DEF Outcomes, SesOutcomes
<1>7. QED BY <1>2, <1>3, <1>4, <1>5, <1>6 DEF Observers
-----------------------------------------------------------------------------
(* The invariant.                                                          *)

\* systemd's service is active just while its process runs; it never runs with
\* --once, its loop is left by exceptions only, and what it restarts is loaded.
Supervision ==
  /\ service = "active" <=> pc # "off" /\ by = "systemd"
  /\ service = "waiting" => loaded # NoUnit
  /\ pc # "off" /\ by = "systemd" => ~once /\ (pc = "stop" => failing)

\* What --once found is recorded, and once an observer has recorded a warning
\* no way leads to an exit with 0.
Telling ==
  /\ scanned \subseteq rows
  /\ pc # "off" => exit = "none"
  /\ once /\ alarmed # {} =>
       /\ pc \in {"report", "stop", "off"}
       /\ pc # "off" => ~cycleOk \/ failing
       /\ pc = "off" => exit # "ok"

\* How far `daemon install` and `daemon uninstall` have come.
Managing ==
  /\ admin # "idle" => ~report.ok
  /\ admin = "enable" => report.cmd = "install" /\ report.now /\ loaded = report.opts
  /\ admin # "idle" /\ report.cmd = "install" => unit = report.opts /\ report.opts \in Options
  /\ admin \in {"halt", "disable", "unlink"} => report.cmd = "uninstall"
  /\ admin = "reload" => report.cmd \in {"install", "uninstall"}
  /\ admin = "reload" /\ report.cmd = "uninstall" => unit = NoUnit
  /\ admin = "halt" => ~report.stopped
  /\ admin # "idle" /\ report.cmd = "uninstall" /\ report.stopped /\ report.alone =>
       service \notin {"active", "waiting"}

\* What they have reported; a report that is kept is one of success.
Reporting ==
  /\ report.ok /\ report.cmd = "install" => report.opts \in Options
  /\ InstallReportHolds
  /\ UninstallReportHolds

Inv == TypeOK /\ Supervision /\ Telling /\ ObserversAgree /\ Managing /\ Reporting

-----------------------------------------------------------------------------
(* Types.                                                                  *)

LEMMA NothingRun == DOMAIN <<>> = {}
OBVIOUS

LEMMA EndType ==
  ASSUME TypeOK, NEW how \in {"ok", "error", "killed"}, pc' = "off", End(how)
  PROVE  ProcessOK' /\ service' \in {"inactive", "active", "waiting", "failed"}
<1>1. service' \in {"inactive", "active", "waiting", "failed"}
  BY DEF TypeOK, UnitOK, End
<1>2. exit' \in {"none", "ok", "error", "killed"}
  BY DEF End
<1>3. DOMAIN results' = {}
  BY NothingRun DEF End
<1>4. QED BY <1>1, <1>2, <1>3 DEF TypeOK, ProcessOK, End, Steps

LEMMA CutType ==
  ASSUME TypeOK, Cut
  PROVE  ProcessOK'
<1>1. DOMAIN results' = {}
  BY NothingRun DEF Cut
<1>2. exit' \in {"none", "ok", "error", "killed"}
  BY DEF Cut, TypeOK, ProcessOK
<1>3. QED BY <1>1, <1>2 DEF Cut, TypeOK, ProcessOK, Steps

LEMMA LaunchType ==
  ASSUME TypeOK, NEW who \in {"hand", "systemd"}, NEW one \in BOOLEAN, NEW o \in Options,
         Launch(who, one, o)
  PROVE  ProcessOK'
<1>1. DOMAIN results' = {}
  BY NothingRun DEF Launch
<1>2. QED BY <1>1 DEF Launch, TypeOK, ProcessOK, Steps

LEMMA StartType ==
  ASSUME TypeOK, StartService
  PROVE  /\ ProcessOK' /\ loaded' \in Options \cup {NoUnit}
         /\ service' = "active"
<1>1. CASE service = "active"
  BY <1>1 DEF StartService, TypeOK, ProcessOK, UnitOK, locals
<1>2. CASE service # "active"
  <2>1. Startable \in Options
    BY <1>2 DEF StartService, Startable, TypeOK, UnitOK
  <2>2. PICK one \in {FALSE}, o \in Options : o = Startable /\ Launch("systemd", one, o)
    BY <1>2, <2>1 DEF StartService
  <2>3. ProcessOK'
    BY <2>2, LaunchType
  <2>4. QED BY <1>2, <2>1, <2>3 DEF StartService
<1>3. QED BY <1>1, <1>2

LEMMA StopType ==
  ASSUME TypeOK, StopService
  PROVE  ProcessOK' /\ service' = "inactive"
<1>1. CASE service = "active"
  BY <1>1, CutType DEF StopService
<1>2. CASE service # "active"
  BY <1>2 DEF StopService, TypeOK, ProcessOK, locals
<1>3. QED BY <1>1, <1>2

Reports == [cmd : {"none", "install", "uninstall"}, opts : Options \cup {NoUnit},
            now : BOOLEAN, ok : BOOLEAN, stopped : BOOLEAN, fresh : BOOLEAN, alone : BOOLEAN]

LEMMA NoReportType == NoReport \in Reports
BY DEF NoReport, Reports

LEMMA FinishedType ==
  ASSUME NEW r \in Reports, Finished(r), commands' \in 0..MaxCommands
  PROVE  OperatorOK'
BY NoReportType DEF Finished, OperatorOK, Reports

LEMMA SitesTypeStep ==
  ASSUME TypeOK, Next
  PROVE  SitesOK'
<1> USE DEF TypeOK, SitesOK
<1>1. CASE \E h \in Hosts : ChangeDisk(h)
  BY <1>1 DEF ChangeDisk, db
<1>2. CASE RunByHand \/ RestartOnFailure \/ Interrupt
  BY <1>2 DEF RunByHand, RestartOnFailure, Interrupt, sites, db
<1>3. CASE Open \/ OpenRaises
  BY <1>3 DEF Open, OpenRaises, Fault, sites, db
<1>4. CASE Refresh
  <2>1. rows' = rows \cup Present /\ UNCHANGED <<sites, schema, beat, faults>>
    BY <1>4 DEF Refresh
  <2>2. QED BY <2>1 DEF Present, sites
<1>5. CASE RefreshFails
  BY <1>5 DEF RefreshFails, Fault, Present, sites
<1>6. CASE ObserverRaises \/ Persist \/ PersistRaises \/ \E o \in Observers : Observe(o)
  <2>1. UNCHANGED <<sites, db>> /\ (UNCHANGED faults \/ Fault)
    <3>1. CASE ObserverRaises \/ Persist \/ \E o \in Observers : Observe(o)
      BY <3>1 DEF ObserverRaises, Persist, Observe
    <3>2. CASE PersistRaises
      BY <3>2 DEF PersistRaises
    <3>3. QED BY <1>6, <3>1, <3>2
  <2>2. QED BY <2>1 DEF Fault, sites, db
<1>7. CASE ReportRaises \/ Wake \/ StopRaises
  BY <1>7 DEF ReportRaises, Wake, StopRaises, Fault, sites, db
<1>8. CASE Announce \/ Report \/ Stop
  <2>1. UNCHANGED <<sites, schema, rows, faults>> /\ (RecordEvent \/ UNCHANGED beat)
    BY <1>8 DEF Announce, Report, Stop
  <2>2. beat' \in BOOLEAN
    BY <2>1 DEF RecordEvent
  <2>3. QED BY <2>1, <2>2 DEF sites
<1>9. CASE Kill
  <2>1. schema' \in {schema, "partial"}
    BY <1>9 DEF Kill
  <2>2. QED BY <1>9, <2>1 DEF Kill, Fault, sites
<1>10. CASE Reboot
  BY <1>10 DEF Reboot, Fault, sites, db
<1>11. CASE OperatorStep
  <2>1. UNCHANGED <<sites, db>> /\ (UNCHANGED faults \/ Fault)
    <3>1. CASE Systemctl \/ InstallWrites \/ InstallReloads \/ InstallEnables
               \/ InstallEnableFails
      BY <3>1 DEF Systemctl, InstallWrites, InstallReloads, InstallEnables, InstallEnableFails
    <3>2. CASE UninstallBegins \/ UninstallStops \/ UninstallDisables \/ UninstallUnlinks
               \/ UninstallReloads \/ AdminKilled
      BY <3>2 DEF UninstallBegins, UninstallStops, UninstallDisables, UninstallUnlinks,
         UninstallReloads, AdminKilled
    <3>3. QED BY <1>11, <3>1, <3>2 DEF OperatorStep
  <2>2. QED BY <2>1 DEF Fault, sites, db
<1>12. QED
  BY <1>1, <1>2, <1>3, <1>4, <1>5, <1>6, <1>7, <1>8, <1>9, <1>10, <1>11 DEF Next, DaemonStep

LEMMA ProcessTypeStep ==
  ASSUME TypeOK, Supervision, ObserversAgree, Next
  PROVE  ProcessOK' /\ ObserversAgree'
<1>1. CASE UNCHANGED <<pc, locals>>
  BY <1>1 DEF TypeOK, ProcessOK, ObserversAgree, locals
<1>2. ASSUME DOMAIN results' = {}, ProcessOK' PROVE ProcessOK' /\ ObserversAgree'
  BY <1>2 DEF ObserversAgree
<1>3. ASSUME results' = <<>>, ProcessOK' PROVE ProcessOK' /\ ObserversAgree'
  BY <1>2, <1>3, NothingRun
<1>4. ASSUME NEW how \in {"ok", "error", "killed"}, End(how) PROVE ProcessOK' /\ ObserversAgree'
  BY <1>3, <1>4, EndType DEF End
<1>5. ASSUME Cut PROVE ProcessOK' /\ ObserversAgree'
  BY <1>3, <1>5, CutType DEF Cut
<1>6. ASSUME NEW who \in {"hand", "systemd"}, NEW one \in BOOLEAN, NEW o \in Options,
             Launch(who, one, o)
      PROVE  ProcessOK' /\ ObserversAgree'
  BY <1>3, <1>6, LaunchType DEF Launch
<1>7. ASSUME pc' \in Steps, UNCHANGED <<by, once, opts, exit>>, scanned' \subseteq Hosts,
             alarmed' \subseteq Observers, cycleOk' \in BOOLEAN, todo' \subseteq Observers,
             failing' \in BOOLEAN, results' = results \/ results' = <<>>
      PROVE  ProcessOK' /\ ObserversAgree'
  <2>1. CASE results' = results
    BY <1>7, <2>1 DEF TypeOK, ProcessOK, ObserversAgree
  <2>2. CASE results' = <<>>
    BY <1>3, <1>7, <2>2, NothingRun DEF TypeOK, ProcessOK
  <2>3. QED BY <1>7, <2>1, <2>2
<1>8. CASE (\E h \in Hosts : ChangeDisk(h)) \/ AdminKilled
  BY <1>1, <1>8 DEF ChangeDisk, AdminKilled
<1>9. CASE RunByHand
  BY <1>6, <1>9 DEF RunByHand
<1>10. CASE RestartOnFailure
  <2>1. loaded \in Options
    BY <1>10 DEF RestartOnFailure, Supervision, TypeOK, UnitOK
  <2>2. PICK one \in {FALSE} : Launch("systemd", one, loaded)
    BY <1>10 DEF RestartOnFailure
  <2>3. QED BY <1>6, <2>1, <2>2
<1>11. CASE Reboot
  BY <1>5, <1>11 DEF Reboot
<1>12. CASE Open \/ Announce \/ Wake
  BY <1>7, <1>12 DEF Open, Announce, Wake, locals, Steps, TypeOK, ProcessOK
<1>13. CASE OpenRaises \/ StopRaises \/ Kill
  BY <1>4, <1>13 DEF OpenRaises, StopRaises, Kill
<1>14. CASE Stop
  <2>1. PICK how \in {"ok", "error", "killed"} : End(how)
    BY <1>14 DEF Stop
  <2>2. QED BY <1>4, <2>1
<1>15. CASE Refresh
  <2>1. Present \subseteq Hosts /\ Selected(opts) \subseteq Observers
    <3>1. opts \subseteq Flags
      BY DEF TypeOK, ProcessOK
    <3>2. QED BY <3>1 DEF Present, Selected, Observers, Flags
  <2>2. cycleOk' \in BOOLEAN
    BY <1>15 DEF Refresh
  <2>3. QED BY <1>7, <1>15, <2>1, <2>2 DEF Refresh, Steps, TypeOK, ProcessOK
<1>16. CASE RefreshFails
  BY <1>7, <1>16 DEF RefreshFails, Steps, TypeOK, ProcessOK
<1>17. CASE \E o \in Observers : Observe(o)
  <2>1. PICK o \in Observers : Observe(o)
    BY <1>17
  <2>2. PICK r \in Outcomes(o) :
          results' = [q \in DOMAIN results \cup {o} |-> IF q = o THEN Verdict(r) ELSE results[q]]
    BY <2>1 DEF Observe
  <2>3. Honest(r)
    BY OutcomesHonest
  <2>4. Verdict(r) \in [ok : BOOLEAN, issues : BOOLEAN] /\ (Verdict(r).ok <=> ~Verdict(r).issues)
    BY <2>3 DEF Verdict, Honest
  <2>5. DOMAIN results' = DOMAIN results \cup {o}
    BY <2>2
  <2>6. \A q \in DOMAIN results' : results'[q] = IF q = o THEN Verdict(r) ELSE results[q]
    BY <2>2
  <2>7. /\ \A q \in DOMAIN results' : results'[q] \in [ok : BOOLEAN, issues : BOOLEAN]
        /\ \A q \in DOMAIN results' : results'[q].ok <=> ~results'[q].issues
    BY <2>4, <2>5, <2>6 DEF TypeOK, ProcessOK, ObserversAgree
  <2>8. /\ pc' \in Steps /\ todo' \subseteq Observers
        /\ UNCHANGED <<by, once, opts, scanned, alarmed, cycleOk, failing, exit>>
    BY <2>1 DEF Observe, Steps, TypeOK, ProcessOK
  <2>9. QED BY <2>5, <2>7, <2>8 DEF TypeOK, ProcessOK, ObserversAgree
<1>18. CASE ObserverRaises \/ ReportRaises \/ Report
  BY <1>7, <1>18 DEF ObserverRaises, ReportRaises, Report, Steps, TypeOK, ProcessOK
<1>19. Alarming \subseteq Observers
  BY DEF Alarming, TypeOK, ProcessOK
<1>20. CASE Persist
  <2>1. cycleOk' \in BOOLEAN
    BY <1>20 DEF Persist
  <2>2. QED BY <1>7, <1>19, <1>20, <2>1 DEF Persist, Steps, TypeOK, ProcessOK
<1>21. CASE PersistRaises
  BY <1>7, <1>19, <1>21 DEF PersistRaises, Steps, TypeOK, ProcessOK
<1>22. CASE Interrupt
  <2>1. cycleOk' \in BOOLEAN
    BY <1>22 DEF Interrupt
  <2>2. QED BY <1>7, <1>22, <2>1 DEF Interrupt, Steps, TypeOK, ProcessOK
<1>23. CASE OperatorStep
  <2>1. CASE InstallWrites \/ InstallReloads \/ InstallEnableFails \/ UninstallBegins
             \/ UninstallDisables \/ UninstallUnlinks \/ UninstallReloads \/ AdminKilled
    BY <1>1, <2>1 DEF InstallWrites, InstallReloads, InstallEnableFails, UninstallBegins,
       UninstallDisables, UninstallUnlinks, UninstallReloads, AdminKilled
  <2>2. ASSUME StartService PROVE ProcessOK' /\ ObserversAgree'
    <3>1. UNCHANGED <<pc, locals>> \/ results' = <<>>
      BY <2>2 DEF StartService, Launch
    <3>2. QED BY <1>1, <1>3, <2>2, <3>1, StartType
  <2>3. ASSUME StopService PROVE ProcessOK' /\ ObserversAgree'
    BY <1>1, <1>5, <2>3 DEF StopService
  <2>4. CASE InstallEnables
    BY <2>2, <2>4 DEF InstallEnables
  <2>5. CASE UninstallStops
    BY <1>1, <2>3, <2>5 DEF UninstallStops
  <2>6. CASE Systemctl
    <3>1. CASE StartService \/ StopService
      BY <2>2, <2>3, <3>1
    <3>2. CASE ~(StartService \/ StopService)
      <4>1. /\ Startable # NoUnit /\ pc' = "open" /\ opts' = Startable
            /\ scanned' = {} /\ alarmed' = {} /\ cycleOk' = FALSE /\ todo' = {}
            /\ results' = <<>> /\ failing' = FALSE
            /\ UNCHANGED <<by, once, exit>>
        BY <2>6, <3>2 DEF Systemctl
      <4>2. opts' \in Options
        BY <4>1 DEF Startable, TypeOK, UnitOK
      <4>3. DOMAIN results' = {}
        BY <4>1, NothingRun
      <4>4. ProcessOK'
        BY <4>1, <4>2, <4>3 DEF TypeOK, ProcessOK, Steps
      <4>5. QED BY <1>2, <4>3, <4>4
    <3>3. QED BY <3>1, <3>2
  <2>7. QED BY <1>23, <2>1, <2>4, <2>5, <2>6 DEF OperatorStep
<1>24. QED
  BY <1>8, <1>9, <1>10, <1>11, <1>12, <1>13, <1>14, <1>15, <1>16, <1>17, <1>18, <1>20, <1>21,
     <1>22, <1>23 DEF Next, DaemonStep
-----------------------------------------------------------------------------
(* What the actions are made of.                                           *)

LEMMA EndSupervised ==
  ASSUME TypeOK, Supervision, pc # "off", NEW how \in {"ok", "error", "killed"}, End(how),
         UNCHANGED loaded
  PROVE  Supervision'
<1>1. /\ pc' = "off" /\ UNCHANGED by
      /\ service' = IF by # "systemd" THEN service
                    ELSE IF how = "ok" THEN "inactive"
                    ELSE IF loaded = NoUnit THEN "failed" ELSE "waiting"
  BY DEF End
<1>2. QED BY <1>1 DEF Supervision

LEMMA StartSupervised ==
  ASSUME TypeOK, Supervision, StartService
  PROVE  Supervision'
<1>1. CASE service = "active"
  BY <1>1 DEF StartService, Supervision, locals
<1>2. CASE service # "active"
  BY <1>2 DEF StartService, Launch, Supervision
<1>3. QED BY <1>1, <1>2

LEMMA StopSupervised ==
  ASSUME TypeOK, Supervision, StopService, UNCHANGED loaded
  PROVE  Supervision'
BY DEF StopService, Cut, Supervision, locals

LEMMA SupervisionStep ==
  ASSUME TypeOK, Supervision, Managing, Next
  PROVE  UnitOK' /\ Supervision'
<1>1. CASE UNCHANGED <<pc, locals, systemd>>
  BY <1>1 DEF TypeOK, UnitOK, Supervision, locals, systemd
<1>2. CASE (\E h \in Hosts : ChangeDisk(h)) \/ AdminKilled \/ InstallWrites \/ UninstallBegins
           \/ InstallEnableFails \/ UninstallDisables \/ UninstallUnlinks
  <2>1. UNCHANGED <<pc, locals, loaded, service>>
    BY <1>2 DEF ChangeDisk, AdminKilled, InstallWrites, UninstallBegins,
       InstallEnableFails, UninstallDisables, UninstallUnlinks, systemd
  <2>2. unit' \in Options \cup {NoUnit} /\ enabled' \in BOOLEAN
    BY <1>2 DEF ChangeDisk, AdminKilled, InstallWrites, UninstallBegins,
       InstallEnableFails, UninstallDisables, UninstallUnlinks, systemd, TypeOK, UnitOK
  <2>3. QED BY <2>1, <2>2 DEF TypeOK, UnitOK, Supervision, locals
<1>3. CASE RunByHand
  BY <1>3 DEF RunByHand, Launch, systemd, TypeOK, UnitOK, Supervision
<1>4. ASSUME NEW how \in {"ok", "error", "killed"}, End(how), pc # "off",
             UNCHANGED <<unit, loaded, enabled>>
      PROVE  UnitOK' /\ Supervision'
  <2>1. pc' = "off" /\ Supervision'
    BY <1>4, EndSupervised DEF End
  <2>2. service' \in {"inactive", "active", "waiting", "failed"}
    BY <1>4, <2>1, EndType
  <2>3. QED BY <1>4, <2>1, <2>2 DEF TypeOK, UnitOK
<1>5. CASE OpenRaises \/ StopRaises \/ Kill
  BY <1>4, <1>5 DEF OpenRaises, StopRaises, Kill
<1>6. CASE Stop
  <2>1. PICK how \in {"ok", "error", "killed"} : End(how)
    BY <1>6 DEF Stop
  <2>2. QED BY <1>4, <1>6, <2>1 DEF Stop
<1>7. CASE Open \/ Announce \/ Refresh \/ RefreshFails \/ Persist \/ Wake \/ Report
           \/ \E o \in Observers : Observe(o)
  <2>1. UNCHANGED <<systemd, by, once, failing>>
    BY <1>7 DEF Open, Announce, Refresh, RefreshFails, Persist, Wake, Report, Observe, locals
  <2>2. pc # "off" /\ pc' # "off" /\ (pc' = "stop" => once)
    BY <1>7 DEF Open, Announce, Refresh, RefreshFails, Persist, Wake, Report, Observe
  <2>3. QED BY <2>1, <2>2 DEF TypeOK, UnitOK, Supervision, systemd
<1>8. CASE ObserverRaises \/ PersistRaises \/ ReportRaises
  <2>1. /\ UNCHANGED <<systemd, by, once>> /\ failing' = TRUE
        /\ pc # "off" /\ pc' = "stop"
    BY <1>8 DEF ObserverRaises, PersistRaises, ReportRaises
  <2>2. QED BY <2>1 DEF TypeOK, UnitOK, Supervision, systemd
<1>9. CASE Interrupt
  <2>1. UNCHANGED <<systemd, by, once>> /\ by = "hand" /\ pc' = "stop"
    BY <1>9 DEF Interrupt
  <2>2. QED BY <2>1 DEF TypeOK, UnitOK, Supervision, systemd
<1>10. CASE RestartOnFailure
  BY <1>10 DEF RestartOnFailure, Launch, TypeOK, UnitOK, Supervision
<1>11. CASE Reboot
  BY <1>11 DEF Reboot, Cut, TypeOK, UnitOK, Supervision
<1>12. CASE Systemctl
  <2>1. CASE StartService /\ UNCHANGED unit
    BY <1>12, <2>1, StartSupervised, StartType DEF Systemctl, TypeOK, UnitOK
  <2>2. CASE StopService /\ UNCHANGED <<unit, loaded>>
    BY <1>12, <2>2, StopSupervised, StopType DEF Systemctl, TypeOK, UnitOK
  <2>3. CASE ~(StartService /\ UNCHANGED unit) /\ ~(StopService /\ UNCHANGED <<unit, loaded>>)
    <3>1. /\ service = "active" /\ service' = "active" /\ loaded' = Startable
          /\ Startable # NoUnit /\ pc' = "open"
          /\ UNCHANGED <<unit, by, once, enabled>>
      BY <1>12, <2>3 DEF Systemctl
    <3>2. QED BY <3>1 DEF Startable, TypeOK, UnitOK, Supervision
  <2>4. QED BY <2>1, <2>2, <2>3
<1>13. CASE InstallReloads
  <2>1. /\ UNCHANGED <<pc, locals, unit, enabled, service>> /\ loaded' \in {loaded, unit}
    BY <1>13 DEF InstallReloads
  <2>2. unit \in Options
    BY <1>13 DEF InstallReloads, Managing
  <2>3. QED BY <2>1, <2>2 DEF TypeOK, UnitOK, Supervision, locals
<1>14. CASE InstallEnables
  BY <1>14, StartSupervised, StartType DEF InstallEnables, TypeOK, UnitOK
<1>15. CASE UninstallStops
  <2>1. CASE StopService
    BY <1>15, <2>1, StopSupervised, StopType DEF UninstallStops, TypeOK, UnitOK
  <2>2. CASE ~StopService
    BY <1>1, <1>15, <2>2 DEF UninstallStops, systemd
  <2>3. QED BY <2>1, <2>2
<1>16. CASE UninstallReloads
  <2>1. UNCHANGED <<pc, locals, unit, enabled>>
    BY <1>16 DEF UninstallReloads
  <2>2. CASE loaded' = unit
            /\ service' = IF service = "waiting" /\ unit = NoUnit THEN "failed" ELSE service
    BY <2>1, <2>2 DEF TypeOK, UnitOK, Supervision, locals
  <2>3. CASE UNCHANGED <<loaded, service>>
    BY <1>1, <2>1, <2>3 DEF systemd
  <2>4. QED BY <1>16, <2>2, <2>3 DEF UninstallReloads
<1>17. QED
  BY <1>2, <1>3, <1>5, <1>6, <1>7, <1>8, <1>9, <1>10, <1>11, <1>12, <1>13, <1>14, <1>15, <1>16
  DEF Next, DaemonStep, OperatorStep
-----------------------------------------------------------------------------
(* What --once tells.                                                      *)

LEMMA TellingStep ==
  ASSUME TypeOK, Supervision, ObserversAgree, Telling, Next
  PROVE  Telling'
<1>1. CASE UNCHANGED <<rows, pc, locals>>
  BY <1>1 DEF Telling, locals
<1>2. ASSUME NEW how, End(how), pc # "off", UNCHANGED rows,
             how = "ok" => ~once \/ alarmed = {}
      PROVE  Telling'
  BY <1>2 DEF End, Telling
<1>3. ASSUME Cut, UNCHANGED rows PROVE Telling'
  BY <1>3 DEF Cut, Telling
<1>4. ASSUME NEW who, NEW one, NEW o, Launch(who, one, o) PROVE Telling'
  BY <1>4 DEF Launch, Telling
<1>5. ASSUME StartService, UNCHANGED rows PROVE Telling'
  BY <1>1, <1>4, <1>5 DEF StartService
<1>6. ASSUME StopService, UNCHANGED rows PROVE Telling'
  BY <1>1, <1>3, <1>6 DEF StopService
<1>7. CASE (\E h \in Hosts : ChangeDisk(h)) \/ AdminKilled \/ InstallWrites \/ UninstallBegins
           \/ InstallReloads \/ InstallEnableFails \/ UninstallDisables \/ UninstallUnlinks
           \/ UninstallReloads
  BY <1>1, <1>7 DEF ChangeDisk, AdminKilled, InstallWrites, UninstallBegins, InstallReloads,
     InstallEnableFails, UninstallDisables, UninstallUnlinks, UninstallReloads, db
<1>8. CASE RunByHand \/ RestartOnFailure
  BY <1>4, <1>8 DEF RunByHand, RestartOnFailure
<1>9. CASE Reboot
  BY <1>3, <1>9 DEF Reboot, db
<1>10. CASE OpenRaises \/ StopRaises \/ Kill
  <2>1. PICK how \in {"error", "killed"} : End(how)
    BY <1>10 DEF OpenRaises, StopRaises, Kill
  <2>2. pc # "off" /\ UNCHANGED rows
    BY <1>10 DEF OpenRaises, StopRaises, Kill, db
  <2>3. QED BY <1>2, <2>1, <2>2
<1>11. CASE Stop
  <2>1. PICK how \in {"ok", "error"} :
          /\ End(how)
          /\ how = IF failing \/ (once /\ ~cycleOk) THEN "error" ELSE "ok"
    BY <1>11 DEF Stop
  <2>2. pc = "stop" /\ UNCHANGED rows
    BY <1>11 DEF Stop
  <2>3. how = "ok" => ~once \/ alarmed = {}
    BY <2>1, <2>2 DEF Telling
  <2>4. QED BY <1>2, <2>1, <2>2, <2>3
<1>12. CASE Open \/ Announce \/ Wake \/ \E o \in Observers : Observe(o)
  <2>1. /\ UNCHANGED <<rows, scanned, once, alarmed, exit>>
        /\ pc \in {"open", "announce", "sleep", "observe"} /\ pc' # "off"
    BY <1>12 DEF Open, Announce, Wake, Observe, locals, db
  <2>2. QED BY <2>1 DEF Telling
<1>13. CASE Refresh
  <2>1. /\ pc = "cycle" /\ pc' \in {"report", "observe"}
        /\ scanned' \subseteq Present /\ rows' = rows \cup Present
        /\ UNCHANGED <<once, alarmed, exit>>
    BY <1>13 DEF Refresh
  <2>2. QED BY <2>1 DEF Telling
<1>14. CASE RefreshFails
  <2>1. pc = "cycle" /\ pc' = "report" /\ scanned' = {} /\ UNCHANGED <<once, alarmed, exit>>
    BY <1>14 DEF RefreshFails
  <2>2. QED BY <2>1 DEF Telling
<1>15. CASE ObserverRaises \/ ReportRaises
  BY <1>15 DEF ObserverRaises, ReportRaises, Telling, db
<1>16. CASE PersistRaises
  BY <1>16 DEF PersistRaises, Telling, db
<1>17. CASE Persist
  <2>1. /\ pc = "persist" /\ pc' = "report" /\ alarmed' = Alarming
        /\ cycleOk' = (cycleOk /\ RunOk({results[o] : o \in DOMAIN results}))
        /\ UNCHANGED <<rows, scanned, once, exit>>
    BY <1>17 DEF Persist, db
  <2>2. Alarming # {} => ~RunOk({results[o] : o \in DOMAIN results})
    BY DEF Alarming, Severity, RunOk
  <2>3. alarmed' # {} => ~cycleOk'
    BY <2>1, <2>2
  <2>4. QED BY <2>1, <2>3 DEF Telling
<1>18. CASE Report
  BY <1>18 DEF Report, Telling
<1>19. CASE Interrupt
  <2>1. /\ UNCHANGED <<rows, scanned, once, alarmed, exit, failing>>
        /\ pc # "off" /\ pc' = "stop" /\ (cycleOk' => cycleOk)
    BY <1>19 DEF Interrupt, InLoop, db
  <2>2. QED BY <2>1 DEF Telling
<1>20. CASE Systemctl
  <2>1. UNCHANGED rows
    BY <1>20 DEF Systemctl, db
  <2>2. CASE ~StartService /\ ~StopService
    BY <1>20, <2>1, <2>2 DEF Systemctl, Supervision, Telling
  <2>3. QED BY <1>5, <1>6, <2>1, <2>2
<1>21. CASE InstallEnables
  BY <1>5, <1>21 DEF InstallEnables, db
<1>22. CASE UninstallStops
  BY <1>1, <1>6, <1>22 DEF UninstallStops, db
<1>23. QED
  BY <1>7, <1>8, <1>9, <1>10, <1>11, <1>12, <1>13, <1>14, <1>15, <1>16, <1>17, <1>18, <1>19,
     <1>20, <1>21, <1>22 DEF Next, DaemonStep, OperatorStep

-----------------------------------------------------------------------------
(* What `daemon install` and `daemon uninstall` report.                    *)

LEMMA OperatorTypeStep ==
  ASSUME TypeOK, Next
  PROVE  OperatorOK'
<1>0. OperatorOK /\ report \in Reports
  BY DEF TypeOK, OperatorOK, Reports
<1>1. CASE UNCHANGED operator
  BY <1>0, <1>1 DEF OperatorOK, operator
<1>2. CASE (\E h \in Hosts : ChangeDisk(h)) \/ DaemonStep \/ Interrupt \/ Kill \/ RestartOnFailure
  <2>1. CASE DaemonStep
    BY <1>1, <2>1 DEF DaemonStep, Open, Announce, Refresh, RefreshFails, Observe, ObserverRaises,
       Persist, PersistRaises, Report, ReportRaises, Wake, Stop, StopRaises, OpenRaises
  <2>2. QED BY <1>1, <1>2, <2>1 DEF ChangeDisk, Interrupt, Kill, RestartOnFailure
<1>3. CASE RunByHand
  BY <1>0, <1>3 DEF RunByHand, OperatorOK
<1>4. CASE Reboot \/ AdminKilled
  BY <1>0, <1>4, NoReportType DEF Reboot, AdminKilled, OperatorOK, Reports
<1>5. CASE Systemctl
  <2>1. report' \in Reports
    BY <1>0, <1>5, NoReportType DEF Systemctl, Interferes, Reports
  <2>2. UNCHANGED admin /\ commands' \in 0..MaxCommands
    BY <1>0, <1>5 DEF Systemctl, OperatorOK
  <2>3. QED BY <1>0, <2>1, <2>2 DEF OperatorOK, Reports
<1>6. CASE InstallWrites
  <2>1. commands' \in 0..MaxCommands
    BY <1>0, <1>6 DEF InstallWrites, OperatorOK
  <2>2. CASE Finished(NoReport)
    BY <2>1, <2>2, NoReportType, FinishedType
  <2>3. CASE ~Finished(NoReport)
    <3>1. PICK o \in Options, now \in BOOLEAN :
            /\ admin' = "reload"
            /\ report' = [NoReport EXCEPT !.cmd = "install", !.opts = o, !.now = now]
      BY <1>6, <2>3 DEF InstallWrites
    <3>2. report' \in Reports
      BY <3>1, NoReportType DEF Reports
    <3>3. QED BY <2>1, <3>1, <3>2 DEF OperatorOK, Reports
  <2>4. QED BY <2>2, <2>3
<1>7. CASE InstallReloads
  <2>1. [report EXCEPT !.ok = TRUE] \in Reports /\ commands' \in 0..MaxCommands
    BY <1>0, <1>7 DEF Reports, InstallReloads, OperatorOK
  <2>2. CASE Finished([report EXCEPT !.ok = TRUE]) \/ Finished(report)
    BY <1>0, <2>1, <2>2, FinishedType
  <2>3. CASE admin' = "enable" /\ UNCHANGED report
    BY <1>0, <2>1, <2>3 DEF OperatorOK
  <2>4. QED BY <1>7, <2>2, <2>3 DEF InstallReloads
<1>8. CASE InstallEnables
  <2>1. PICK f \in BOOLEAN : f = (service # "active")
    OBVIOUS
  <2>2. Finished([report EXCEPT !.ok = TRUE, !.fresh = f]) /\ UNCHANGED commands
    BY <1>8, <2>1 DEF InstallEnables
  <2>3. [report EXCEPT !.ok = TRUE, !.fresh = f] \in Reports
    BY <1>0 DEF Reports
  <2>4. QED BY <1>0, <2>2, <2>3, FinishedType DEF OperatorOK
<1>9. CASE InstallEnableFails
  BY <1>0, <1>9, FinishedType DEF InstallEnableFails, OperatorOK
<1>10. CASE UninstallBegins
  <2>1. [NoReport EXCEPT !.cmd = "uninstall"] \in Reports
    BY NoReportType DEF Reports
  <2>2. QED BY <1>0, <1>10, <2>1 DEF UninstallBegins, OperatorOK, Reports
<1>11. CASE UninstallStops
  BY <1>0, <1>11 DEF UninstallStops, OperatorOK, Reports
<1>12. CASE UninstallDisables \/ UninstallUnlinks
  BY <1>0, <1>12 DEF UninstallDisables, UninstallUnlinks, OperatorOK
<1>13. CASE UninstallReloads
  <2>1. [report EXCEPT !.ok = TRUE] \in Reports /\ commands' \in 0..MaxCommands
    BY <1>0, <1>13 DEF Reports, UninstallReloads, OperatorOK
  <2>2. QED BY <1>0, <1>13, <2>1, FinishedType DEF UninstallReloads
<1>14. QED
  BY <1>2, <1>3, <1>4, <1>5, <1>6, <1>7, <1>8, <1>9, <1>10, <1>11, <1>12, <1>13
  DEF Next, OperatorStep
\* What the process and its supervisor leave of a command that is under way.
LEMMA ManagingKept ==
  ASSUME TypeOK, Supervision, Managing,
         UNCHANGED <<admin, report, unit, loaded>>,
         service \notin {"active", "waiting"} => service' \notin {"active", "waiting"}
  PROVE  Managing'
BY DEF Managing

LEMMA ManagingStep ==
  ASSUME TypeOK, Supervision, Managing, Next
  PROVE  Managing'
<1>0. report \in Reports /\ NoReport \in Reports /\ loaded \in Options \cup {NoUnit}
  BY NoReportType DEF TypeOK, OperatorOK, UnitOK, Reports
<1>1. ASSUME admin' = "idle" PROVE Managing'
  BY <1>1 DEF Managing
<1>2. ASSUME NEW how, End(how), pc # "off", UNCHANGED <<admin, report, unit, loaded>>
      PROVE  Managing'
  <2>1. service \notin {"active", "waiting"} => service' \notin {"active", "waiting"}
    BY <1>2 DEF End, Supervision
  <2>2. QED BY <1>2, <2>1, ManagingKept
<1>3. CASE DaemonStep
  <2>1. CASE OpenRaises \/ StopRaises \/ Stop
    BY <1>2, <2>1 DEF OpenRaises, StopRaises, Stop, operator
  <2>2. CASE Open \/ Announce \/ Refresh \/ RefreshFails \/ (\E o \in Observers : Observe(o))
             \/ ObserverRaises \/ Persist \/ PersistRaises \/ Report \/ ReportRaises \/ Wake
    <3>1. UNCHANGED <<systemd, operator>>
      BY <2>2 DEF Open, Announce, Refresh, RefreshFails, Observe, ObserverRaises,
         Persist, PersistRaises, Report, ReportRaises, Wake
    <3>2. QED BY <3>1, ManagingKept DEF systemd, operator
  <2>3. QED BY <1>3, <2>1, <2>2 DEF DaemonStep
<1>4. CASE (\E h \in Hosts : ChangeDisk(h)) \/ Interrupt
  BY <1>4, ManagingKept DEF ChangeDisk, Interrupt, systemd, operator
<1>5. CASE Kill
  BY <1>2, <1>5 DEF Kill, operator
<1>6. CASE RestartOnFailure \/ RunByHand
  BY <1>6, ManagingKept DEF RestartOnFailure, RunByHand, operator, systemd
<1>7. CASE Reboot \/ AdminKilled
  BY <1>1, <1>7 DEF Reboot, AdminKilled
<1>8. CASE Systemctl
  <2>1. UNCHANGED <<admin, unit>>
    BY <1>8 DEF Systemctl
  <2>2. CASE admin = "idle"
    BY <1>1, <2>1, <2>2
  <2>3. CASE admin # "idle"
    <3>1. report' = [report EXCEPT !.alone = FALSE]
      BY <1>8, <2>3 DEF Systemctl, Interferes
    <3>2. /\ report'.ok = report.ok /\ report'.cmd = report.cmd /\ report'.now = report.now
          /\ report'.opts = report.opts /\ report'.stopped = report.stopped /\ ~report'.alone
      BY <1>0, <3>1 DEF Reports
    <3>3. loaded' \in {loaded, Startable}
      BY <1>8 DEF Systemctl, StartService, StopService
    <3>4. admin = "enable" => loaded' = loaded
      BY <3>3 DEF Managing, Startable
    <3>5. QED BY <2>1, <3>2, <3>4 DEF Managing
  <2>4. QED BY <2>2, <2>3
<1>9. CASE InstallWrites
  <2>1. CASE admin' = "idle"
    BY <1>1, <2>1
  <2>2. CASE admin' # "idle"
    <3>1. PICK o \in Options, now \in BOOLEAN :
            /\ unit' = o /\ admin' = "reload"
            /\ report' = [NoReport EXCEPT !.cmd = "install", !.opts = o, !.now = now]
      BY <1>9, <2>2 DEF InstallWrites, Finished
    <3>2. report'.cmd = "install" /\ report'.opts = o /\ ~report'.ok
      BY <3>1 DEF NoReport
    <3>3. QED BY <3>1, <3>2 DEF Managing
  <2>3. QED BY <2>1, <2>2
<1>10. CASE InstallReloads
  <2>1. CASE admin' = "idle"
    BY <1>1, <2>1
  <2>2. CASE admin' # "idle"
    <3>1. loaded' = unit /\ admin' = "enable" /\ UNCHANGED <<report, unit>> /\ report.now
      BY <1>10, <2>2 DEF InstallReloads, Finished
    <3>2. QED BY <1>10, <3>1 DEF InstallReloads, Managing
  <2>3. QED BY <2>1, <2>2
<1>11. CASE InstallEnables \/ InstallEnableFails \/ UninstallReloads
  BY <1>1, <1>11 DEF InstallEnables, InstallEnableFails, UninstallReloads, Finished
<1>12. CASE UninstallBegins
  <2>1. /\ admin' \in {"halt", "unlink"}
        /\ report' = [NoReport EXCEPT !.cmd = "uninstall"]
    BY <1>12 DEF UninstallBegins
  <2>2. report'.cmd = "uninstall" /\ ~report'.ok /\ ~report'.stopped
    BY <2>1 DEF NoReport
  <2>3. QED BY <2>1, <2>2 DEF Managing
<1>13. CASE UninstallStops
  <2>1. admin = "halt" /\ admin' = "disable" /\ UNCHANGED <<unit, loaded>>
    BY <1>13 DEF UninstallStops
  <2>2. CASE UNCHANGED <<service, report>>
    BY <2>1, <2>2 DEF Managing
  <2>3. CASE StopService /\ report' = [report EXCEPT !.stopped = TRUE]
    <3>1. service' = "inactive" /\ report'.cmd = report.cmd /\ report'.ok = report.ok
      BY <1>0, <2>3 DEF StopService, Reports
    <3>2. QED BY <2>1, <3>1 DEF Managing
  <2>4. QED BY <1>13, <2>2, <2>3 DEF UninstallStops
<1>14. CASE UninstallDisables \/ UninstallUnlinks
  <2>1. CASE UninstallDisables
    BY <2>1 DEF UninstallDisables, Managing
  <2>2. CASE UninstallUnlinks
    BY <2>2 DEF UninstallUnlinks, Managing
  <2>3. QED BY <1>14, <2>1, <2>2
<1>15. QED
  BY <1>3, <1>4, <1>5, <1>6, <1>7, <1>8, <1>9, <1>10, <1>11, <1>12, <1>13, <1>14
  DEF Next, OperatorStep

LEMMA ReportingStep ==
  ASSUME Inv, Managing', Next
  PROVE  Reporting'
<1>0. /\ TypeOK /\ Supervision /\ Managing /\ Reporting
      /\ report \in Reports /\ loaded \in Options \cup {NoUnit} /\ unit \in Options \cup {NoUnit}
  BY DEF Inv, TypeOK, OperatorOK, UnitOK, Reports
<1> USE DEF Reporting, InstallReportHolds, UninstallReportHolds, Supervised
<1>1. ASSUME admin' # "idle" PROVE Reporting'
  BY <1>1 DEF Managing
<1>2. ASSUME report' = NoReport PROVE Reporting'
  BY <1>2 DEF NoReport
<1>3. ASSUME UNCHANGED <<admin, report, systemd, by, opts>>, pc' # "off" => pc # "off"
      PROVE  Reporting'
  BY <1>0, <1>3 DEF systemd
<1>4. ASSUME NEW how, End(how), pc # "off", UNCHANGED <<admin, report, unit, loaded, enabled>>,
             by = "systemd" => how # "ok"
      PROVE  Reporting'
  BY <1>0, <1>4 DEF End, Supervision
<1>5. CASE DaemonStep
  <2>1. CASE OpenRaises \/ StopRaises
    BY <1>4, <2>1 DEF OpenRaises, StopRaises, operator
  <2>2. CASE Stop
    <3>1. PICK how \in {"ok", "error"} :
            /\ End(how)
            /\ how = IF failing \/ (once /\ ~cycleOk) THEN "error" ELSE "ok"
      BY <2>2 DEF Stop
    <3>2. pc = "stop" /\ UNCHANGED <<admin, report, unit, loaded, enabled>>
      BY <2>2 DEF Stop, operator
    <3>3. by = "systemd" => how # "ok"
      BY <1>0, <3>1, <3>2 DEF Supervision
    <3>4. QED BY <1>4, <3>1, <3>2, <3>3
  <2>3. CASE Open \/ Announce \/ Refresh \/ RefreshFails \/ (\E o \in Observers : Observe(o))
             \/ ObserverRaises \/ Persist \/ PersistRaises \/ Report \/ ReportRaises \/ Wake
    <3>1. UNCHANGED <<systemd, operator, by, opts>>
      BY <2>3 DEF Open, Announce, Refresh, RefreshFails, Observe, ObserverRaises,
         Persist, PersistRaises, Report, ReportRaises, Wake, locals
    <3>2. pc # "off"
      BY <2>3 DEF Open, Announce, Refresh, RefreshFails, Observe, ObserverRaises,
         Persist, PersistRaises, Report, ReportRaises, Wake
    <3>3. QED BY <1>3, <3>1, <3>2 DEF operator
  <2>4. QED BY <1>5, <2>1, <2>2, <2>3 DEF DaemonStep
<1>6. CASE (\E h \in Hosts : ChangeDisk(h)) \/ Interrupt
  <2>1. UNCHANGED <<systemd, operator, by, opts>> /\ (pc' # "off" => pc # "off")
    BY <1>6 DEF ChangeDisk, Interrupt, InLoop, locals
  <2>2. QED BY <1>3, <2>1 DEF operator
<1>7. CASE Kill
  BY <1>4, <1>7 DEF Kill, operator
<1>8. CASE RunByHand
  BY <1>0, <1>8 DEF RunByHand, Launch, systemd
<1>9. CASE RestartOnFailure
  BY <1>0, <1>9 DEF RestartOnFailure, Launch, operator
<1>10. CASE Reboot
  <2>1. CASE admin = "idle"
    BY <1>0, <1>10, <2>1 DEF Reboot, Cut
  <2>2. CASE admin # "idle"
    BY <1>2, <1>10, <2>2 DEF Reboot
  <2>3. QED BY <2>1, <2>2
<1>11. CASE Systemctl
  <2>1. CASE admin = "idle"
    BY <1>2, <1>11, <2>1 DEF Systemctl, Interferes
  <2>2. CASE admin # "idle"
    BY <1>1, <1>11, <2>2 DEF Systemctl
  <2>3. QED BY <2>1, <2>2
<1>12. CASE InstallWrites
  BY <1>1, <1>2, <1>12 DEF InstallWrites, Finished, NoReport
<1>13. CASE InstallReloads
  <2>1. CASE admin' # "idle" \/ report' = NoReport
    BY <1>1, <1>2, <2>1
  <2>2. CASE ~(admin' # "idle" \/ report' = NoReport)
    <3>1. ~report.ok /\ report.cmd = "install" /\ unit = report.opts /\ report.opts \in Options
      BY <1>0, <1>13 DEF InstallReloads, Managing
    <3>2. loaded' = unit /\ report' = [report EXCEPT !.ok = TRUE] /\ ~report.now /\ unit' = unit
      BY <1>13, <2>2, <3>1 DEF InstallReloads, Finished
    <3>3. report'.cmd = "install" /\ report'.opts = report.opts /\ ~report'.now
      BY <1>0, <3>1, <3>2 DEF Reports
    <3>4. QED BY <3>1, <3>2, <3>3
  <2>3. QED BY <2>1, <2>2
<1>14. CASE InstallEnables
  <2>1. CASE report' = NoReport
    BY <1>2, <2>1
  <2>2. CASE report' # NoReport
    <3>1. /\ report.cmd = "install" /\ unit = report.opts /\ report.opts \in Options
          /\ loaded = report.opts
      BY <1>0, <1>14 DEF InstallEnables, Managing
    <3>2. PICK f \in BOOLEAN : f = (service # "active")
      OBVIOUS
    <3>3. report' = [report EXCEPT !.ok = TRUE, !.fresh = f] /\ unit' = unit /\ enabled' = TRUE
      BY <1>14, <2>2, <3>2 DEF InstallEnables, Finished
    <3>4. report'.cmd = "install" /\ report'.opts = report.opts /\ (report'.fresh <=> f)
      BY <1>0, <3>1, <3>3 DEF Reports
    <3>5. service' = "active" /\ loaded' = loaded /\ (f => opts' = loaded)
      BY <1>14, <3>1, <3>2 DEF InstallEnables, StartService, Startable, Launch
    <3>6. QED BY <3>1, <3>3, <3>4, <3>5
  <2>3. QED BY <2>1, <2>2
<1>15. CASE InstallEnableFails
  BY <1>0, <1>2, <1>15 DEF InstallEnableFails, Finished, Managing
<1>16. CASE UninstallBegins \/ UninstallStops \/ UninstallDisables \/ UninstallUnlinks
  BY <1>1, <1>16 DEF UninstallBegins, UninstallStops, UninstallDisables, UninstallUnlinks
<1>17. CASE UninstallReloads
  <2>1. CASE report' = NoReport
    BY <1>2, <2>1
  <2>2. CASE report' # NoReport
    <3>1. /\ ~report.ok /\ report.cmd = "uninstall" /\ unit = NoUnit
          /\ report.stopped /\ report.alone => service \notin {"active", "waiting"}
      BY <1>0, <1>17 DEF UninstallReloads, Managing
    <3>2. /\ loaded' = unit /\ report' = [report EXCEPT !.ok = TRUE] /\ report'.alone
          /\ service' = IF service = "waiting" /\ unit = NoUnit THEN "failed" ELSE service
          /\ UNCHANGED <<unit, pc, by>>
      BY <1>17, <2>2, <3>1 DEF UninstallReloads, Finished, locals
    <3>3. /\ report'.cmd = "uninstall" /\ report'.stopped = report.stopped
          /\ report'.alone = report.alone
      BY <1>0, <3>1, <3>2 DEF Reports
    <3>4. QED BY <1>0, <3>1, <3>2, <3>3 DEF Supervision
  <2>3. QED BY <2>1, <2>2
<1>18. CASE AdminKilled
  BY <1>2, <1>18 DEF AdminKilled
<1>19. QED
  BY <1>5, <1>6, <1>7, <1>8, <1>9, <1>10, <1>11, <1>12, <1>13, <1>14, <1>15, <1>16, <1>17, <1>18
  DEF Next, OperatorStep

-----------------------------------------------------------------------------

LEMMA InitInv == Init => Inv
<1> SUFFICES ASSUME Init PROVE Inv
  OBVIOUS
<1>1. TypeOK
  <2>1. SitesOK /\ UnitOK
    <3>1. changes \in 0..MaxChanges /\ faults \in 0..MaxFaults
      BY DEF Init
    <3>2. QED BY <3>1 DEF Init, SitesOK, UnitOK
  <2>2. ProcessOK
    BY NothingRun DEF Init, ProcessOK, Steps
  <2>3. OperatorOK
    BY NoReportType DEF Init, OperatorOK, Reports
  <2>4. QED BY <2>1, <2>2, <2>3 DEF TypeOK
<1>2. Supervision /\ Telling
  BY DEF Init, Supervision, Telling
<1>3. ObserversAgree
  BY NothingRun DEF Init, ObserversAgree
<1>4. Managing /\ Reporting
  BY DEF Init, NoReport, Managing, Reporting, InstallReportHolds, UninstallReportHolds
<1>5. QED BY <1>1, <1>2, <1>3, <1>4 DEF Inv

LEMMA Invariant == Spec => []Inv
<1>1. Inv /\ [Next]_vars => Inv'
  <2> SUFFICES ASSUME Inv, [Next]_vars PROVE Inv'
    OBVIOUS
  <2>1. CASE Next
    <3>1. SitesOK' /\ ProcessOK' /\ ObserversAgree' /\ OperatorOK'
      BY <2>1, SitesTypeStep, ProcessTypeStep, OperatorTypeStep DEF Inv
    <3>2. UnitOK' /\ Supervision' /\ Telling' /\ Managing'
      BY <2>1, SupervisionStep, TellingStep, ManagingStep DEF Inv
    <3>3. Reporting'
      BY <2>1, <3>2, ReportingStep
    <3>4. QED BY <3>1, <3>2, <3>3 DEF Inv, TypeOK
  <2>2. CASE UNCHANGED vars
    BY <2>2 DEF vars, sites, db, systemd, locals, operator, Inv, TypeOK, SitesOK, UnitOK,
       ProcessOK, OperatorOK, Supervision, Telling, ObserversAgree, Managing, Reporting,
       InstallReportHolds, UninstallReportHolds, Supervised
  <2>3. QED BY <2>1, <2>2
<1>2. QED BY <1>1, InitInv, PTL DEF Spec

\* Every reachable state is well typed; in particular whatever starts the
\* daemon again has options to start it with.
THEOREM TypeCorrect == Spec => []TypeOK
<1>1. Inv => TypeOK
  BY DEF Inv
<1>2. QED BY <1>1, Invariant, PTL

\* An exit with 0 of --once means that every stack found is recorded and no
\* observer has recorded a warning, wherever a fault or Ctrl-C comes.
THEOREM OnceHonest == Spec => []OnceIsHonest
<1>1. Inv => OnceIsHonest
  BY DEF Inv, Telling, OnceIsHonest
<1>2. QED BY <1>1, Invariant, PTL

\* No observer reports ok with issues, or is not ok without one, whatever
\* docker, systemd, Cloudflare and SES answer.
THEOREM ObserversAgreed == Spec => []ObserversAgree
<1>1. Inv => ObserversAgree
  BY DEF Inv
<1>2. QED BY <1>1, Invariant, PTL

\* What `daemon install` has reported stays so through any number of kills,
\* restarts and reboots, until the operator acts again.
THEOREM InstallReported == Spec => []InstallReportHolds
<1>1. Inv => InstallReportHolds
  BY DEF Inv, Reporting
<1>2. QED BY <1>1, Invariant, PTL

\* So does what `daemon uninstall` has reported.
THEOREM UninstallReported == Spec => []UninstallReportHolds
<1>1. Inv => UninstallReportHolds
  BY DEF Inv, Reporting
<1>2. QED BY <1>1, Invariant, PTL
=============================================================================
