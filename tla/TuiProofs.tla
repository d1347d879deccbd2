------------------------------ MODULE TuiProofs ------------------------------
(* Proofs about Tui, for any hosts, terminals, networks and profiles and any *)
(* bounds.                                                                   *)
EXTENDS Tui, FiniteSetTheorems, TLAPS

USE NoneAssumption, NamesAssumption, StacksBoundsAssumption, PinsAssumption,
    DashboardAssumption, NamingAssumption, ToolsAssumption, ScreenAssumption

-----------------------------------------------------------------------------
(* Types.                                                                  *)

Writing == {"compose", "write compose", "settings", "write settings"}
Steps == {"up", "down", "remove", "domain", "done"} \cup Writing
USE DEF Writing

CommandKinds == {"none", "doctor", "cleanup", "scaffold"} \cup Lifecycle \cup DomainKinds

Locals ==
  [kind : CommandKinds, host : Hosts \cup {None}, force : BOOLEAN,
   profile : Profiles \cup {None}, network : Networks \cup {None}, settings : Settings,
   at : Steps, ok : BOOLEAN, error : Messages, did : SUBSET Steps, alone : BOOLEAN]

Dialogs ==
  [kind : {"none", "menu", "template", "confirm", "create", "overwrite"},
   host : Hosts \cup {None},
   does : {"none", "scaffold", "cleanup", "domain-add", "domain-remove", "hostname", "answers"}]

StacksTypes ==
  /\ dir \in [Hosts -> Dirs]
  /\ running \subseteq Hosts /\ wired \subseteq Apex /\ cached \subseteq Hosts
  /\ run \in [Terminals -> Locals]
  /\ commands \in 0..MaxCommands /\ faults \in 0..MaxFaults

ScreenTypes ==
  /\ shown \subseteq Hosts
  /\ index \in 0..(Rows(shown) - 1)
  /\ dialog \in Dialogs
  /\ pending \in Requests \cup {None}
  /\ views \in [Hosts -> {None, "current", "outdated", "elsewhere"}]
  /\ timers \subseteq Hosts
  /\ phase \in {"idle", "run"}

\* At which step a command of which kind may be, and what a scaffold has
\* settled before it writes.
Fits(c) ==
  /\ c.at # "done" => c.host \in Hosts /\ ~c.ok
  /\ c.ok \/ c.kind # "none" => c.host \in Hosts
  /\ c.at = "up" => c.kind \in {"up", "restart"}
  /\ c.at = "down" => c.kind \in {"down", "restart", "cleanup"}
  /\ c.at = "remove" => c.kind = "cleanup"
  /\ c.at \in Writing => c.kind = "scaffold"
  /\ c.at = "domain" => c.kind \in DomainKinds
  /\ c.kind \in DomainKinds => c.host \in Apex
  /\ c.kind = "scaffold" /\ (c.at # "done" \/ c.ok) =>
       /\ Base(c.profile) # None
       /\ c.network \in Networks
       /\ c.settings = Pinned(c.profile, c.network)

StacksInv == StacksTypes /\ \A t \in Terminals : Fits(run[t])

\* While the dashboard waits nothing runs in it, and no view is older than its
\* own commands.
ViewsFit == phase = "idle" => ~Busy(Dashboard) /\ \A h \in Hosts : views[h] # "outdated"

\* What a dialog has captured.
DialogFits ==
  /\ phase = "run" => dialog = NoDialog
  /\ dialog.kind = "none" => dialog = NoDialog
  /\ dialog.kind # "overwrite"
  /\ dialog.kind = "create" => dialog.host = None
  /\ dialog.kind \in {"menu", "template", "confirm"} => dialog.host \in Hosts
  /\ dialog.kind = "template" => dialog.does = "scaffold"
  /\ dialog.kind = "confirm" =>
       \/ dialog.does = "cleanup"
       \/ dialog.does \in {"domain-add", "domain-remove"} /\ dialog.host \in Apex

\* When a create is pending, and for which command.
PendingFits ==
  /\ dialog.kind = "create" /\ dialog.does = "answers" =>
       pending \in Requests /\ pending.domain \in {"to do", "none"}
  /\ pending # None =>
       /\ pending.domain = "to do" => pending.host \in Apex
       /\ pending.domain = "none" => pending.host \notin Apex
       /\ phase = "idle" => dialog.kind = "create" /\ dialog.does = "answers"
       /\ phase = "run" =>
            /\ run[Dashboard].host = pending.host
            /\ run[Dashboard].kind \in {"domain-add", "scaffold"}

ScreenFits == ViewsFit /\ DialogFits /\ PendingFits

Inv == StacksInv /\ ScreenTypes /\ ScreenFits

-----------------------------------------------------------------------------
(* Settings.                                                               *)

LEMMA BaseType ==
  ASSUME NEW p \in Profiles \cup {None}
  PROVE  Base(p) \in Networks \cup {None}
BY DEF Base

LEMMA PinnedType ==
  ASSUME NEW p \in Profiles \cup {None}, NEW n \in Networks \cup {None}
  PROVE  Pinned(p, n) \in Settings
BY DEF Pinned, Settings

\* What render_stack_settings pins for a profile that is known leads
\* load_stack_settings back to the network that the stack was rendered with,
\* whatever the config and the profile say.
THEOREM SettingsRoundTrip ==
  ASSUME NEW h, NEW p \in Profiles \cup {None}, NEW n \in Networks,
         Base(p) # None, dir[h].settings = Pinned(p, n)
  PROVE  Effective(h) = n
<1>1. dir[h].settings # None
  BY PinnedType
<1>2. dir[h].settings.profile = p
  BY DEF Pinned
<1>3. dir[h].settings.network = IF n = Base(p) THEN None ELSE n
  BY DEF Pinned
<1>4. n # None
  OBVIOUS
<1>5. QED BY <1>1, <1>2, <1>3, <1>4 DEF Effective

-----------------------------------------------------------------------------
(* Commands begin.                                                         *)

\* What a command is like that has just begun.
Fresh(c) ==
  /\ c \in Locals /\ Fits(c)
  /\ c.did = {} /\ ~c.ok
  /\ c.at \notin {"settings", "write settings"}

LEMMA IdleType == Idle \in Locals /\ Fits(Idle) /\ Fresh(Idle)
BY DEF Idle, Locals, Fits, Fresh, CommandKinds, Steps, Messages, Settings, Unpinned,
   DomainKinds, Lifecycle

LEMMA CommandType ==
  ASSUME NEW kind \in CommandKinds, NEW h \in Hosts, NEW at \in Steps
  PROVE  LET c == Command(kind, h, at)
         IN /\ c \in Locals /\ c.kind = kind /\ c.host = h /\ c.at = at
            /\ c.did = {} /\ ~c.ok
<1>1. Idle \in Locals /\ Idle.did = {} /\ ~Idle.ok
  BY IdleType DEF Idle
<1>2. (IF at = "done" THEN "failed" ELSE "") \in Messages
  BY DEF Messages
<1> HIDE DEF Idle
<1>3. QED BY <1>1, <1>2 DEF Command, Locals

LEMMA LifecycleBegins ==
  ASSUME NEW t \in Terminals, NEW kind \in Lifecycle, NEW h \in Hosts, Lifecycles(t, kind, h)
  PROVE  \E c : Begin(t, c) /\ Fresh(c) /\ c.host = h /\ c.kind = kind
<1> DEFINE at == IF Resolves(h) THEN FirstOf(kind) ELSE "done"
<1> DEFINE c == Command(kind, h, at)
<1>1. kind \in CommandKinds /\ at \in Steps
  BY DEF CommandKinds, Steps, FirstOf
<1>2. /\ kind \in {"up", "down", "restart"}
      /\ at \in {"up", "down", "done"}
      /\ at = "up" => kind = "up"
      /\ at = "down" => kind \in {"down", "restart"}
  BY DEF Lifecycle, FirstOf
<1>3. Begin(t, c)
  BY DEF Lifecycles
<1> HIDE DEF at
<1>4. c \in Locals /\ c.kind = kind /\ c.host = h /\ c.at = at /\ c.did = {} /\ ~c.ok
  BY <1>1, CommandType
<1> HIDE DEF c
<1>5. Fits(c)
  BY <1>2, <1>4 DEF Fits, DomainKinds
<1>6. QED BY <1>2, <1>3, <1>4, <1>5 DEF Fresh

LEMMA CleanBegins ==
  ASSUME NEW t \in Terminals, NEW h \in Hosts, NEW force \in BOOLEAN, Cleans(t, h, force)
  PROVE  \E c : Begin(t, c) /\ Fresh(c) /\ c.host = h /\ c.kind = "cleanup"
<1> DEFINE at == IF ~dir[h].exists \/ ~force THEN "done"
                 ELSE IF dir[h].compose # None THEN "down" ELSE "remove"
<1> DEFINE c == Command("cleanup", h, at)
<1>1. "cleanup" \in CommandKinds /\ at \in Steps /\ at \in {"done", "down", "remove"}
  BY DEF CommandKinds, Steps
<1>2. Begin(t, c)
  BY DEF Cleans
<1> HIDE DEF at
<1>3. c \in Locals /\ c.kind = "cleanup" /\ c.host = h /\ c.at = at /\ c.did = {} /\ ~c.ok
  BY <1>1, CommandType
<1> HIDE DEF c
<1>4. Fits(c)
  BY <1>1, <1>3 DEF Fits, DomainKinds
<1>5. QED BY <1>1, <1>2, <1>3, <1>4 DEF Fresh

LEMMA ScaffoldBegins ==
  ASSUME NEW t \in Terminals, NEW h \in Hosts, NEW force \in BOOLEAN,
         NEW p \in Profiles \cup {None}, NEW n \in Networks \cup {None},
         Scaffolds(t, h, force, p, n)
  PROVE  \E c : Begin(t, c) /\ Fresh(c) /\ c.host = h /\ c.kind = "scaffold"
<1> DEFINE settled == IF n = None THEN Base(p) ELSE n
<1> DEFINE at == IF Base(p) # None THEN "compose" ELSE "done"
<1> DEFINE b == Command("scaffold", h, at)
<1> DEFINE c == [b EXCEPT !.force = force, !.profile = p, !.network = settled,
                          !.settings = Pinned(p, settled)]
<1>1. settled \in Networks \cup {None} /\ Pinned(p, settled) \in Settings
  BY BaseType, PinnedType
<1>2. /\ at \in Steps /\ at \in {"compose", "done"} /\ "scaffold" \in CommandKinds
      /\ at # "done" => Base(p) # None /\ settled \in Networks
  BY BaseType DEF Steps, CommandKinds
<1>3. Begin(t, c)
  BY DEF Scaffolds
<1> HIDE DEF at, settled
<1>4. b \in Locals /\ b.kind = "scaffold" /\ b.host = h /\ b.at = at /\ b.did = {} /\ ~b.ok
  BY <1>2, CommandType
<1> HIDE DEF b
<1>5. /\ c \in Locals /\ c.kind = "scaffold" /\ c.host = h /\ c.at = at /\ c.did = {} /\ ~c.ok
      /\ c.profile = p /\ c.network = settled /\ c.settings = Pinned(p, settled)
  BY <1>1, <1>4 DEF Locals
<1> HIDE DEF c
<1>6. Fits(c)
  BY <1>2, <1>5 DEF Fits, DomainKinds
<1>7. QED BY <1>2, <1>3, <1>5, <1>6 DEF Fresh

\* What the dashboard may run.
LEMMA DoctorBegins ==
  ASSUME NEW t \in Terminals, NEW h \in Hosts, Begin(t, Command("doctor", h, "done"))
  PROVE  \E c : Begin(t, c) /\ Fresh(c) /\ c.host = h /\ c.kind = "doctor"
<1> DEFINE c == Command("doctor", h, "done")
<1>1. "doctor" \in CommandKinds /\ "done" \in Steps
  BY DEF CommandKinds, Steps
<1>2. Begin(t, c)
  OBVIOUS
<1>3. c \in Locals /\ c.kind = "doctor" /\ c.host = h /\ c.at = "done" /\ c.did = {} /\ ~c.ok
  BY <1>1, CommandType
<1> HIDE DEF c
<1>4. Fits(c)
  BY <1>3 DEF Fits, DomainKinds
<1>5. QED BY <1>2, <1>3, <1>4 DEF Fresh

LEMMA DomainBegins ==
  ASSUME NEW t \in Terminals, NEW kind \in DomainKinds, NEW h \in Apex,
         Begin(t, Command(kind, h, "domain"))
  PROVE  \E c : Begin(t, c) /\ Fresh(c) /\ c.host = h /\ c.kind = kind
<1> DEFINE c == Command(kind, h, "domain")
<1>1. kind \in CommandKinds /\ "domain" \in Steps /\ h \in Hosts
  BY DEF CommandKinds, Steps
<1>2. Begin(t, c)
  OBVIOUS
<1>3. c \in Locals /\ c.kind = kind /\ c.host = h /\ c.at = "domain" /\ c.did = {} /\ ~c.ok
  BY <1>1, CommandType
<1> HIDE DEF c
<1>4. Fits(c)
  BY <1>1, <1>3 DEF Fits, DomainKinds
<1>5. QED BY <1>2, <1>3, <1>4 DEF Fresh

LEMMA RunsBegins ==
  ASSUME NEW kind \in Lifecycle \cup DomainKinds \cup {"cleanup", "scaffold", "doctor"},
         NEW h \in Hosts, NEW force \in BOOLEAN,
         NEW p \in Profiles \cup {None}, NEW n \in Networks \cup {None},
         kind \in DomainKinds => h \in Apex,
         Runs(kind, h, force, p, n)
  PROVE  /\ phase' = "run"
         /\ \E c : Begin(Dashboard, c) /\ Fresh(c) /\ c.host = h /\ c.kind = kind
<1> USE DEF Runs, Lifecycle, DomainKinds
<1>1. phase' = "run"
  OBVIOUS
<1>2. CASE kind \in Lifecycle
  <2>1. Lifecycles(Dashboard, kind, h)
    BY <1>2
  <2>2. QED BY <1>1, <1>2, <2>1, LifecycleBegins
<1>3. CASE kind = "cleanup"
  <2>1. PICK forced \in BOOLEAN : Cleans(Dashboard, h, forced)
    BY <1>3
  <2>2. QED BY <1>1, <1>3, <2>1, CleanBegins
<1>4. CASE kind = "scaffold"
  <2>1. Scaffolds(Dashboard, h, force, p, n)
    BY <1>4
  <2>2. QED BY <1>1, <1>4, <2>1, ScaffoldBegins
<1>5. CASE kind = "doctor"
  <2>1. Begin(Dashboard, Command("doctor", h, "done"))
    BY <1>5
  <2>2. QED BY <1>1, <1>5, <2>1, DoctorBegins
<1>6. CASE kind \in DomainKinds
  <2>1. Begin(Dashboard, Command(kind, h, "domain"))
    BY <1>6
  <2>2. QED BY <1>1, <1>6, <2>1, DomainBegins
<1> HIDE DEF Runs, Lifecycle, DomainKinds
<1>7. QED BY <1>2, <1>3, <1>4, <1>5, <1>6

\* A command that begins changes of the others only whether they are alone.
LEMMA BeginRun ==
  ASSUME StacksInv, NEW t \in Terminals, NEW c, Begin(t, c), Fresh(c)
  PROVE  /\ run' \in [Terminals -> Locals]
         /\ \A u \in Terminals : Fits(run'[u])
         /\ \A u \in Terminals \ {t} :
              run'[u] = [run[u] EXCEPT !.alone = @ /\ run[u].host # c.host]
         /\ run'[t] = [c EXCEPT !.alone =
              \A v \in Terminals \ {t} : Busy(v) => run[v].host # c.host]
<1>0. c \in Locals /\ Fits(c)
  BY DEF Fresh
<1> DEFINE a == \A v \in Terminals \ {t} : Busy(v) => run[v].host # c.host
<1>1. a \in BOOLEAN
  OBVIOUS
<1>2. run' = [u \in Terminals |-> IF u = t THEN [c EXCEPT !.alone = a]
                                  ELSE [run[u] EXCEPT !.alone = @ /\ run[u].host # c.host]]
  BY DEF Begin
<1> HIDE DEF a
<1>3. [c EXCEPT !.alone = a] \in Locals /\ Fits([c EXCEPT !.alone = a])
  BY <1>0, <1>1 DEF Locals, Fits
<1>4. ASSUME NEW u \in Terminals
      PROVE  LET d == [run[u] EXCEPT !.alone = @ /\ run[u].host # c.host]
             IN d \in Locals /\ Fits(d)
  <2>1. run[u] \in Locals /\ Fits(run[u])
    BY DEF StacksInv, StacksTypes
  <2>2. (run[u].alone /\ run[u].host # c.host) \in BOOLEAN
    BY <2>1 DEF Locals
  <2>3. QED BY <2>1, <2>2 DEF Locals, Fits
<1>5. QED BY <1>2, <1>3, <1>4 DEF a

\* Of the others nothing else changes.
LEMMA BeginOthers ==
  ASSUME StacksInv, NEW t \in Terminals, NEW c, Begin(t, c), Fresh(c),
         NEW u \in Terminals \ {t}
  PROVE  /\ run'[u].kind = run[u].kind /\ run'[u].host = run[u].host
         /\ run'[u].profile = run[u].profile /\ run'[u].network = run[u].network
         /\ run'[u].settings = run[u].settings /\ run'[u].at = run[u].at
         /\ run'[u].ok = run[u].ok /\ run'[u].did = run[u].did
         /\ run'[u].alone => run[u].alone /\ run[u].host # c.host
<1>1. run[u] \in Locals
  BY DEF StacksInv, StacksTypes
<1> DEFINE a == run[u].alone /\ run[u].host # c.host
<1>2. a \in BOOLEAN /\ (a => run[u].alone /\ run[u].host # c.host)
  BY <1>1 DEF Locals
<1>3. run'[u] = [run[u] EXCEPT !.alone = a]
  BY DEF Begin
<1> HIDE DEF a
<1>4. QED BY <1>1, <1>2, <1>3 DEF Locals

-----------------------------------------------------------------------------
(* The steps of a command.                                                 *)

\* What goes on in the terminal that takes a step.
LEMMA StepRun ==
  ASSUME StacksInv, NEW t \in Terminals, StacksStep(t) \/ (t = Dashboard /\ Domain)
  PROVE  /\ run' = [run EXCEPT ![t] = run'[t]]
         /\ run'[t] \in Locals /\ Fits(run'[t])
         /\ run'[t].host = run[t].host
         /\ run'[t].kind = run[t].kind
         /\ run'[t].alone = run[t].alone
         /\ Busy(t)
<1>0. /\ run \in [Terminals -> Locals]
      /\ run[t] \in Locals /\ Fits(run[t])
  BY DEF StacksInv, StacksTypes
<1>1. /\ "failed" \in Messages /\ Refusal \in Messages
      /\ {"up", "down", "remove", "domain", "done"} \cup Writing \subseteq Steps
      /\ Writing = {"compose", "write compose", "settings", "write settings"}
  BY DEF Messages, Steps, Writing
<1>2. ASSUME NEW m \in Messages, FailsWith(t, m), run[t].at # "done"
      PROVE  /\ run' = [run EXCEPT ![t] = run'[t]]
             /\ run'[t] \in Locals /\ Fits(run'[t])
             /\ run'[t].host = run[t].host
             /\ run'[t].kind = run[t].kind
             /\ run'[t].alone = run[t].alone
  BY <1>0, <1>1, <1>2 DEF FailsWith, Locals, Fits
<1>3. ASSUME Ends(t), run[t].at # "done"
      PROVE  /\ run' = [run EXCEPT ![t] = run'[t]]
             /\ run'[t] \in Locals /\ Fits(run'[t])
             /\ run'[t].host = run[t].host
             /\ run'[t].kind = run[t].kind
             /\ run'[t].alone = run[t].alone
  BY <1>0, <1>1, <1>3 DEF Ends, Locals, Fits
<1>4. ASSUME NEW at \in Steps, Goes(t, at),
             \/ at = "up" /\ run[t].kind = "restart"
             \/ at = "remove" /\ run[t].kind = "cleanup"
             \/ at \in Writing /\ run[t].at \in Writing,
             run[t].at # "done"
      PROVE  /\ run' = [run EXCEPT ![t] = run'[t]]
             /\ run'[t] \in Locals /\ Fits(run'[t])
             /\ run'[t].host = run[t].host
             /\ run'[t].kind = run[t].kind
             /\ run'[t].alone = run[t].alone
  BY <1>0, <1>1, <1>4 DEF Goes, Locals, Fits, DomainKinds
<1>5. CASE Down(t)
  <2>1. run[t].kind \in {"down", "restart", "cleanup"} /\ run[t].at = "down"
    BY <1>0, <1>5 DEF Down, Fits
  <2>2. CASE run[t].kind = "down"
    BY <1>3, <1>5, <2>1, <2>2 DEF Down, AfterDown, Busy
  <2>3. CASE run[t].kind = "restart"
    BY <1>1, <1>4, <1>5, <2>1, <2>3 DEF Down, AfterDown, Busy
  <2>4. CASE run[t].kind = "cleanup"
    BY <1>1, <1>4, <1>5, <2>1, <2>4 DEF Down, AfterDown, Busy
  <2>5. QED BY <2>1, <2>2, <2>3, <2>4
<1>6. CASE Up(t)
  BY <1>3, <1>6 DEF Up, Busy
<1>7. CASE DockerFails(t)
  BY <1>1, <1>2, <1>7 DEF DockerFails, Busy
<1>8. CASE Remove(t)
  BY <1>3, <1>8 DEF Remove, Busy
<1>9. CASE RemoveFails(t)
  BY <1>1, <1>2, <1>9 DEF RemoveFails, Busy
<1>10. CASE WriteCompose(t)
  BY <1>1, <1>2, <1>4, <1>10 DEF WriteCompose, Busy
<1>11. CASE WriteSettings(t)
  BY <1>1, <1>2, <1>3, <1>11 DEF WriteSettings, Busy
<1>14. CASE CheckFile(t)
  <2>1. run[t].at \in {"compose", "settings"} /\ Busy(t)
    BY <1>14 DEF CheckFile, Busy
  <2>2. CASE FailsWith(t, Refusal)
    BY <1>1, <1>2, <2>1, <2>2
  <2>3. CASE ~FailsWith(t, Refusal)
    <3>1. PICK at \in {"write compose", "write settings"} : Goes(t, at)
      BY <1>14, <2>3 DEF CheckFile
    <3>2. at \in Steps /\ at \in Writing /\ run[t].at \in Writing /\ run[t].at # "done"
      BY <1>1, <2>1
    <3>3. QED BY <1>4, <2>1, <3>1, <3>2
  <2>4. QED BY <2>2, <2>3
<1>12. CASE t = Dashboard /\ Domain
  BY <1>1, <1>2, <1>3, <1>12 DEF Domain, Busy
<1>13. QED
  BY <1>5, <1>6, <1>7, <1>8, <1>9, <1>10, <1>11, <1>12, <1>14 DEF StacksStep

\* Nothing else of the commands' world changes but what lies at its host.
LEMMA StepElsewhere ==
  ASSUME StacksInv, NEW t \in Terminals, StacksStep(t)
  PROVE  /\ dir' \in [Hosts -> Dirs] /\ running' \subseteq Hosts
         /\ UNCHANGED <<wired, cached, commands>>
         /\ faults' \in 0..MaxFaults
         /\ \A h \in Hosts \ {run[t].host} :
              dir'[h] = dir[h] /\ (h \in running' <=> h \in running)
<1>0. /\ dir \in [Hosts -> Dirs] /\ running \subseteq Hosts /\ faults \in 0..MaxFaults
      /\ run[t] \in Locals /\ Fits(run[t])
  BY DEF StacksInv, StacksTypes
<1>1. CASE Down(t) \/ Up(t) \/ DockerFails(t)
  <2>1. dir' = dir /\ UNCHANGED <<wired, cached, commands>>
    BY <1>1 DEF Down, Up, DockerFails
  <2>2. run[t].host \in Hosts
    BY <1>0, <1>1 DEF Fits, Down, Up, DockerFails
  <2>3. running' \in {running, running \cup {run[t].host}, running \ {run[t].host}}
    BY <1>1 DEF Down, Up, DockerFails, Broken
  <2>4. faults' \in 0..MaxFaults
    BY <1>0, <1>1 DEF Down, Up, DockerFails, Fault
  <2>5. QED BY <1>0, <2>1, <2>2, <2>3, <2>4
<1>2. CASE Remove(t) \/ RemoveFails(t) \/ WriteCompose(t) \/ WriteSettings(t)
  <2>1. UNCHANGED <<running, wired, cached, commands>>
    BY <1>2 DEF Remove, RemoveFails, WriteCompose, WriteSettings, outside
  <2>2. run[t].host \in Hosts /\ run[t].kind = "scaffold" => run[t].network \in Networks
    BY <1>0, <1>2 DEF Fits, Remove, RemoveFails, WriteCompose, WriteSettings
  <2>3. faults' \in 0..MaxFaults
    <3>1. UNCHANGED faults \/ Fault
      BY <1>2 DEF Remove, RemoveFails, WriteCompose, WriteSettings
    <3>2. QED BY <1>0, <3>1 DEF Fault
  <2>4. PICK d \in Dirs : dir' = [dir EXCEPT ![run[t].host] = d]
    <3>1. dir[run[t].host] \in Dirs /\ NoDir \in Dirs /\ Unpinned \in Settings
      BY <1>0, <1>2 DEF Fits, Remove, RemoveFails, WriteCompose, WriteSettings, NoDir, Dirs,
         Unpinned, Settings
    <3>2. CASE Remove(t)
      BY <1>0, <3>1, <3>2 DEF Remove
    <3>3. CASE RemoveFails(t)
      <4>1. CASE dir' = dir
        BY <1>0, <3>1, <4>1
      <4>2. CASE dir' # dir
        <5>1. PICK compose \in {None, dir[run[t].host].compose},
                   settings \in {None, dir[run[t].host].settings} :
                dir' = [dir EXCEPT ![run[t].host].compose = compose,
                                   ![run[t].host].settings = settings]
          BY <3>3, <4>2 DEF RemoveFails
        <5>2. [dir[run[t].host] EXCEPT !.compose = compose, !.settings = settings] \in Dirs
          BY <3>1 DEF Dirs
        <5>3. dir' = [dir EXCEPT ![run[t].host] =
                [dir[run[t].host] EXCEPT !.compose = compose, !.settings = settings]]
          BY <1>0, <5>1
        <5>4. QED BY <5>2, <5>3
      <4>3. QED BY <4>1, <4>2
    <3>4. CASE WriteCompose(t)
      <4>1. CASE dir' = dir
        BY <1>0, <3>1, <4>1
      <4>2. CASE dir' # dir
        <5>1. PICK c \in Networks \cup {None, "emptied"} :
                dir' = [dir EXCEPT ![run[t].host].exists = TRUE, ![run[t].host].compose = c]
          BY <1>0, <3>4, <4>2 DEF WriteCompose, Locals
        <5>2. [dir[run[t].host] EXCEPT !.exists = TRUE, !.compose = c] \in Dirs
          BY <3>1 DEF Dirs
        <5>3. dir' = [dir EXCEPT ![run[t].host] =
                [dir[run[t].host] EXCEPT !.exists = TRUE, !.compose = c]]
          BY <1>0, <5>1
        <5>4. QED BY <5>2, <5>3
      <4>3. QED BY <4>1, <4>2
    <3>5. CASE WriteSettings(t)
      <4>1. CASE dir' = dir
        BY <1>0, <3>1, <4>1
      <4>2. CASE dir' # dir
        <5>1. PICK s \in Settings :
                dir' = [dir EXCEPT ![run[t].host].exists = TRUE, ![run[t].host].settings = s]
          BY <1>0, <3>1, <3>5, <4>2 DEF WriteSettings, Locals
        <5>2. [dir[run[t].host] EXCEPT !.exists = TRUE, !.settings = s] \in Dirs
          BY <3>1 DEF Dirs
        <5>3. dir' = [dir EXCEPT ![run[t].host] =
                [dir[run[t].host] EXCEPT !.exists = TRUE, !.settings = s]]
          BY <1>0, <5>1
        <5>4. QED BY <5>2, <5>3
      <4>3. QED BY <4>1, <4>2
    <3>6. QED BY <1>2, <3>2, <3>3, <3>4, <3>5
  <2>5. QED BY <1>0, <2>1, <2>2, <2>3, <2>4
<1>3. CASE CheckFile(t)
  BY <1>0, <1>3 DEF CheckFile, outside
<1>4. QED BY <1>1, <1>2, <1>3 DEF StacksStep

-----------------------------------------------------------------------------
(* Rows.                                                                   *)

\* The rows are finitely many, at least the tools, and every stack has one.
LEMMA RowsType ==
  ASSUME NEW s \in SUBSET Hosts
  PROVE  /\ Rows(s) \in Nat \ {0}
         /\ \A h \in s : Row(h, s) \in 0..(Rows(s) - 1)
         /\ \A i \in Nat : Clamped(i, s) \in 0..(Rows(s) - 1)
         /\ \A i : HostAt(i, s) \in s \cup {None}
<1>1. IsFiniteSet(s) /\ Cardinality(s) \in Nat
  BY FS_Subset, FS_CardinalityType
<1>2. Rows(s) \in Nat \ {0}
  BY <1>1 DEF Rows
<1>3. ASSUME NEW h \in s PROVE Row(h, s) \in 0..(Rows(s) - 1)
  <2> DEFINE before == {g \in s : Before(g, h, s)}
  <2>1. ~Before(h, h, s)
    <3>1. Group(h, s) \in Hosts
      BY DEF Group, Child
    <3>2. Rank[h] \in Nat /\ Rank[Group(h, s)] \in Nat
      BY <3>1
    <3>3. QED BY <3>2 DEF Before
  <2>2. before \subseteq s /\ before # s
    BY <2>1
  <2>3. IsFiniteSet(before) /\ Cardinality(before) < Cardinality(s) /\ Cardinality(before) \in Nat
    BY <1>1, <2>2, FS_Subset, FS_CardinalityType
  <2> HIDE DEF before
  <2>4. Row(h, s) = Tools + Cardinality(before)
    BY DEF Row, before
  <2>5. QED BY <1>1, <2>3, <2>4 DEF Rows
<1>4. \A i \in Nat : Clamped(i, s) \in 0..(Rows(s) - 1)
  BY <1>2 DEF Clamped
<1>5. \A i : HostAt(i, s) \in s \cup {None}
  BY DEF HostAt
<1>6. QED BY <1>2, <1>3, <1>4, <1>5

LEMMA ListedType ==
  ASSUME StacksInv
  PROVE  Listed \in SUBSET Hosts
BY DEF StacksInv, StacksTypes, Listed, Present

LEMMA SnapshotType ==
  ASSUME StacksInv, ScreenTypes, NEW host, NEW reselect \in BOOLEAN, Snapshot(host, reselect)
  PROVE  /\ shown' \in SUBSET Hosts
         /\ index' \in 0..(Rows(shown') - 1)
         /\ views' \in [Hosts -> {None, "current"}]
<1> DEFINE s == Listed
<1>1. s \in SUBSET Hosts
  BY ListedType
<1>2. /\ shown' = s
      /\ index' = IF reselect /\ host \in s THEN Row(host, s) ELSE Clamped(index, s)
      /\ views' \in [Hosts -> {None, "current"}]
  BY DEF Snapshot
<1> HIDE DEF s
<1>3. index \in Nat
  <2>1. Rows(shown) \in Nat
    BY RowsType DEF ScreenTypes
  <2>2. QED BY <2>1 DEF ScreenTypes
<1>4. index' \in 0..(Rows(s) - 1)
  <2>1. CASE reselect /\ host \in s
    BY <1>1, <1>2, <2>1, RowsType
  <2>2. CASE ~(reselect /\ host \in s)
    BY <1>1, <1>2, <1>3, <2>2, RowsType
  <2>3. QED BY <2>1, <2>2
<1>5. QED BY <1>1, <1>2, <1>4

-----------------------------------------------------------------------------
(* What the dashboard runs.                                                *)

Begun(t, h, kinds) ==
  /\ phase' = "run"
  /\ \E c : Begin(t, c) /\ Fresh(c) /\ c.host = h /\ c.kind \in kinds

LEMMA SelectedType ==
  ASSUME Inv, Selected # None
  PROVE  Selected \in Hosts
BY RowsType DEF Inv, ScreenTypes, Selected

LEMMA PressRuns ==
  ASSUME Inv, Press
  PROVE  Begun(Dashboard, Selected, CommandKinds) /\ UNCHANGED <<pending, dialog>>
<1>1. PICK kind \in Lifecycle \cup {"doctor", "scaffold", "domain-repair"} :
        /\ kind = "domain-repair" => Selected \in Apex
        /\ Runs(kind, Selected, FALSE, None, None)
  BY DEF Press
<1>2. Selected \in Hosts
  BY SelectedType DEF Press
<1>3. PICK h \in Hosts : h = Selected
  BY <1>2
<1>4. PICK force \in BOOLEAN, none \in {None} : Runs(kind, h, force, none, none)
  BY <1>1, <1>3
<1>5. /\ kind \in Lifecycle \cup DomainKinds \cup {"cleanup", "scaffold", "doctor"}
      /\ kind \in DomainKinds => h \in Apex
      /\ kind \in CommandKinds
  BY <1>1, <1>3 DEF DomainKinds, Lifecycle, CommandKinds
<1>6. QED BY <1>3, <1>4, <1>5, RunsBegins DEF Begun, Press

LEMMA ChooseRuns ==
  ASSUME Inv, Choose
  PROVE  Begun(Dashboard, dialog.host, CommandKinds) /\ UNCHANGED pending /\ dialog' = NoDialog
<1>1. PICK kind \in Lifecycle \cup {"doctor", "scaffold", "domain-repair"} :
        /\ kind = "domain-repair" => dialog.host \in Apex
        /\ Runs(kind, dialog.host, FALSE, None, None)
  BY DEF Choose
<1>2. PICK h \in Hosts : h = dialog.host
  BY DEF Choose, InDialog, Inv, ScreenFits, DialogFits, PendingFits
<1>3. PICK force \in BOOLEAN, none \in {None} : Runs(kind, h, force, none, none)
  BY <1>1, <1>2
<1>4. /\ kind \in Lifecycle \cup DomainKinds \cup {"cleanup", "scaffold", "doctor"}
      /\ kind \in DomainKinds => h \in Apex
      /\ kind \in CommandKinds
  BY <1>1, <1>2 DEF DomainKinds, Lifecycle, CommandKinds
<1>5. QED BY <1>2, <1>3, <1>4, RunsBegins DEF Begun, Choose

LEMMA ConfirmRuns ==
  ASSUME Inv, Confirm
  PROVE  Begun(Dashboard, dialog.host, CommandKinds) /\ UNCHANGED pending /\ dialog' = NoDialog
<1>1. PICK h \in Hosts : h = dialog.host
  BY DEF Confirm, Inv, ScreenFits, DialogFits, PendingFits
<1>2. PICK kind \in {"scaffold", "cleanup", "domain-add", "domain-remove"} : kind = dialog.does
  BY DEF Confirm, Inv, ScreenFits, DialogFits, PendingFits
<1>3. PICK force \in BOOLEAN, none \in {None} : Runs(kind, h, force, none, none)
  BY <1>1, <1>2 DEF Confirm
<1>4. /\ kind \in Lifecycle \cup DomainKinds \cup {"cleanup", "scaffold", "doctor"}
      /\ kind \in DomainKinds => h \in Apex
      /\ kind \in CommandKinds
  BY <1>1, <1>2 DEF DomainKinds, Lifecycle, CommandKinds, Confirm, Inv, ScreenFits, DialogFits, PendingFits
<1>5. QED BY <1>1, <1>3, <1>4, RunsBegins DEF Begun, Confirm

AddsBareDomain(r) == r.domain = "to do" => r.host \in Apex

LEMMA PendingRuns ==
  ASSUME NEW r \in Requests, AddsBareDomain(r),
         NEW force \in BOOLEAN, RunsPending(r, force)
  PROVE  Begun(Dashboard, r.host, {IF r.domain = "to do" THEN "domain-add" ELSE "scaffold"})
<1>1. PICK h \in Hosts : h = r.host
  BY DEF Requests
<1>2. r.profile \in Profiles \cup {None} /\ r.network \in Networks \cup {None}
  BY DEF Requests
<1>3. CASE r.domain = "to do"
  <2>1. PICK kind \in {"domain-add", "doctor"}, f \in BOOLEAN, none \in {None} :
          kind = "domain-add" /\ Runs(kind, h, f, none, none)
    BY <1>1, <1>3 DEF RunsPending
  <2>2. /\ kind \in Lifecycle \cup DomainKinds \cup {"cleanup", "scaffold", "doctor"}
        /\ kind \in DomainKinds => h \in Apex
    BY <1>1, <1>3, <2>1 DEF DomainKinds, AddsBareDomain
  <2>3. /\ phase' = "run"
        /\ \E c : Begin(Dashboard, c) /\ Fresh(c) /\ c.host = h /\ c.kind = kind
    BY <2>1, <2>2, RunsBegins
  <2>4. Begun(Dashboard, r.host, {"domain-add"})
    BY <1>1, <2>1, <2>3 DEF Begun
  <2>5. QED BY <1>3, <2>4
<1>4. CASE r.domain # "to do"
  <2>1. PICK kind \in {"scaffold", "doctor"}, p \in Profiles \cup {None}, n \in Networks \cup {None} :
          kind = "scaffold" /\ Runs(kind, h, force, p, n)
    BY <1>1, <1>2, <1>4 DEF RunsPending
  <2>2. /\ kind \in Lifecycle \cup DomainKinds \cup {"cleanup", "scaffold", "doctor"}
        /\ kind \in DomainKinds => h \in Apex
    BY <2>1 DEF DomainKinds
  <2>3. /\ phase' = "run"
        /\ \E c : Begin(Dashboard, c) /\ Fresh(c) /\ c.host = h /\ c.kind = kind
    BY <2>1, <2>2, RunsBegins
  <2>4. Begun(Dashboard, r.host, {"scaffold"})
    BY <1>1, <2>1, <2>3 DEF Begun
  <2>5. QED BY <1>4, <2>4
<1>5. QED BY <1>3, <1>4

LEMMA AnswersRun ==
  ASSUME Inv, CreateAnswers
  PROVE  /\ Begun(Dashboard, pending'.host,
                  {IF pending'.domain = "to do" THEN "domain-add" ELSE "scaffold"})
         /\ pending' \in Requests
         /\ pending'.host = pending.host /\ pending'.domain = pending.domain
         /\ pending.domain \in {"to do", "none"}
         /\ pending.domain = "to do" => pending.host \in Apex
         /\ pending.domain = "none" => pending.host \notin Apex
         /\ dialog' = NoDialog
<1>1. /\ pending \in Requests /\ pending.domain \in {"to do", "none"}
      /\ pending.domain = "to do" => pending.host \in Apex
      /\ pending.domain = "none" => pending.host \notin Apex
  BY DEF CreateAnswers, InDialog, Inv, ScreenFits, DialogFits, PendingFits
<1>2. PICK p \in Profiles \cup {None}, n \in Networks \cup {None} :
        pending' = [pending EXCEPT !.profile = p, !.network = n]
  BY DEF CreateAnswers
<1>3. pending' \in Requests /\ pending'.host = pending.host /\ pending'.domain = pending.domain
  BY <1>1, <1>2 DEF Requests
<1>4. dialog' = NoDialog
  BY DEF CreateAnswers
<1>5. PICK r \in Requests, force \in BOOLEAN : r = pending' /\ RunsPending(r, force)
  BY <1>3 DEF CreateAnswers
<1>6. QED BY <1>1, <1>3, <1>4, <1>5, PendingRuns DEF AddsBareDomain

LEMMA DomainAddedRuns ==
  ASSUME Inv, DomainAdded
  PROVE  /\ Begun(Dashboard, pending'.host, {"scaffold"})
         /\ pending' \in Requests
         /\ pending'.host = pending.host /\ pending'.domain = "done"
         /\ phase = "run" /\ dialog = NoDialog /\ dialog' = NoDialog
         /\ run[Dashboard].host = pending.host
         /\ run[Dashboard].kind = "domain-add" /\ run[Dashboard].ok
<1>1. /\ pending \in Requests /\ phase = "run" /\ dialog = NoDialog
      /\ run[Dashboard].host = pending.host
      /\ run[Dashboard].kind = "domain-add" /\ run[Dashboard].ok
      /\ UNCHANGED dialog
  BY DEF DomainAdded, Ran, Inv, ScreenFits, DialogFits, PendingFits, ScreenTypes
<1>2. pending' = [pending EXCEPT !.domain = "done"]
  BY DEF DomainAdded
<1>3. pending' \in Requests /\ pending'.host = pending.host /\ pending'.domain = "done"
  BY <1>1, <1>2 DEF Requests
<1>4. PICK r \in Requests, force \in BOOLEAN : r = pending' /\ RunsPending(r, force)
  BY <1>3 DEF DomainAdded
<1>5. QED BY <1>1, <1>2, <1>3, <1>4, PendingRuns DEF AddsBareDomain

-----------------------------------------------------------------------------
(* The invariant.                                                          *)

\* A command begins in a terminal, and its world stays as it is.
Starting(t) ==
  /\ \E c : Begin(t, c) /\ Fresh(c)
  /\ UNCHANGED <<dir, outside, cached, faults>>
  /\ commands' \in 0..MaxCommands

LEMMA ActsType == StacksTypes /\ Acts => commands' \in 0..MaxCommands
BY DEF StacksTypes, Acts

LEMMA OtherStarts ==
  ASSUME Inv, NEW t \in Others, OtherCommand(t)
  PROVE  Starting(t)
<1>1. t \in Terminals
  BY DEF Others
<1>2. \E c : Begin(t, c) /\ Fresh(c)
  <2>1. PICK h \in Hosts :
          \/ \E kind \in Lifecycle : Lifecycles(t, kind, h)
          \/ \E force \in BOOLEAN : Cleans(t, h, force)
          \/ \E force \in BOOLEAN : Scaffolds(t, h, force, None, None)
    BY DEF OtherCommand
  <2>2. CASE \E kind \in Lifecycle : Lifecycles(t, kind, h)
    BY <1>1, <2>2, LifecycleBegins
  <2>3. CASE \E force \in BOOLEAN : Cleans(t, h, force)
    BY <1>1, <2>3, CleanBegins
  <2>4. CASE \E force \in BOOLEAN : Scaffolds(t, h, force, None, None)
    BY <1>1, <2>4, ScaffoldBegins
  <2>5. QED BY <2>1, <2>2, <2>3, <2>4
<1>3. QED BY <1>2, ActsType DEF OtherCommand, Starting, Inv, StacksInv

LEMMA DashboardStarts ==
  ASSUME Inv, Press \/ Choose \/ Confirm \/ CreateAnswers \/ DomainAdded
  PROVE  Starting(Dashboard)
<1>1. \E c : Begin(Dashboard, c) /\ Fresh(c)
  BY PressRuns, ChooseRuns, ConfirmRuns, AnswersRun, DomainAddedRuns DEF Begun
<1>2. UNCHANGED <<dir, outside, cached, faults>>
  BY DEF Press, Choose, Confirm, CreateAnswers, DomainAdded
<1>3. commands' \in 0..MaxCommands
  <2>1. CASE DomainAdded
    BY <2>1 DEF DomainAdded, Inv, StacksInv, StacksTypes
  <2>2. CASE ~DomainAdded
    BY <2>2, ActsType DEF Press, Choose, Confirm, CreateAnswers, Inv, StacksInv
  <2>3. QED BY <2>1, <2>2
<1>4. QED BY <1>1, <1>2, <1>3 DEF Starting

\* What a step may do to the commands and their world.
LEMMA StacksNext ==
  ASSUME Inv, [Next]_vars
  PROVE  \/ UNCHANGED stacksVars
         \/ \E t \in Terminals : Starting(t)
         \/ run' = [run EXCEPT ![Dashboard] = Idle] /\ UNCHANGED <<dir, outside, cached, commands, faults>>
         \/ \E t \in Terminals : StacksStep(t)
         \/ Domain
         \/ RefreshCache
<1>1. CASE UNCHANGED vars
  BY <1>1 DEF vars
<1>2. CASE Move \/ Ask \/ ChooseDialog \/ Cancel \/ CreateStack \/ CreateHostname \/ Refresh
  BY <1>2 DEF Move, Ask, ChooseDialog, Cancel, CreateStack, CreateHostname, Refresh
<1>3. CASE \E h \in Hosts : Delay(h)
  BY <1>3 DEF Delay
<1>4. CASE Press \/ Choose \/ Confirm \/ CreateAnswers \/ DomainAdded
  BY <1>4, DashboardStarts
<1>5. CASE Finish
  BY <1>5 DEF Finish
<1>6. CASE DashboardStep
  BY <1>6 DEF DashboardStep
<1>7. CASE \E t \in Others : OtherCommand(t)
  BY <1>7, OtherStarts DEF Others
<1>8. CASE \E t \in Others : OtherStep(t)
  BY <1>8 DEF OtherStep, Others
<1>9. CASE Cache
  BY <1>9 DEF Cache
<1>10. QED
  BY <1>1, <1>2, <1>3, <1>4, <1>5, <1>6, <1>7, <1>8, <1>9 DEF Next

LEMMA StacksInvStep ==
  ASSUME Inv, [Next]_vars
  PROVE  StacksInv'
<1>0. StacksInv
  BY DEF Inv
<1>1. CASE UNCHANGED stacksVars
  BY <1>0, <1>1 DEF stacksVars, outside, StacksInv, StacksTypes
<1>2. ASSUME NEW t \in Terminals, Starting(t) PROVE StacksInv'
  <2>1. run' \in [Terminals -> Locals] /\ \A u \in Terminals : Fits(run'[u])
    BY <1>0, <1>2, BeginRun DEF Starting
  <2>2. QED BY <1>0, <1>2, <2>1 DEF Starting, outside, StacksInv, StacksTypes
<1>3. CASE run' = [run EXCEPT ![Dashboard] = Idle] /\ UNCHANGED <<dir, outside, cached, commands, faults>>
  <2>1. run' \in [Terminals -> Locals] /\ \A u \in Terminals : Fits(run'[u])
    BY <1>0, <1>3, IdleType DEF StacksInv, StacksTypes
  <2>2. QED BY <1>0, <1>3, <2>1 DEF outside, StacksInv, StacksTypes
<1>4. ASSUME NEW t \in Terminals, StacksStep(t) PROVE StacksInv'
  <2>1. run' \in [Terminals -> Locals] /\ \A u \in Terminals : Fits(run'[u])
    BY <1>0, <1>4, StepRun DEF StacksInv, StacksTypes
  <2>2. QED BY <1>0, <1>4, <2>1, StepElsewhere DEF StacksInv, StacksTypes
<1>5. CASE Domain
  <2>1. run' \in [Terminals -> Locals] /\ \A u \in Terminals : Fits(run'[u])
    BY <1>0, <1>5, StepRun DEF StacksInv, StacksTypes
  <2>2. run[Dashboard].host \in Apex
    BY <1>0, <1>5 DEF Domain, StacksInv, Fits
  <2>3. wired' \subseteq Apex
    BY <1>0, <1>5, <2>2 DEF Domain, StacksInv, StacksTypes
  <2>4. QED BY <1>0, <1>5, <2>1, <2>3 DEF Domain, StacksInv, StacksTypes
<1>6. CASE RefreshCache
  BY <1>0, <1>6, ActsType DEF RefreshCache, Present, outside, StacksInv, StacksTypes
<1>7. QED BY <1>1, <1>2, <1>3, <1>4, <1>5, <1>6, StacksNext

\* The dashboard never finds the words it looks for in an error.
LEMMA NeverAsks ==
  ASSUME StacksInv
  PROVE  ~AsksToOverwrite
<1>1. run[Dashboard].error \in Messages
  BY DEF StacksInv, StacksTypes, Locals
<1>2. QED BY <1>1 DEF AsksToOverwrite, MentionsExisting, Messages, Refusal

LEMMA AgesType ==
  ASSUME ScreenTypes, NEW how \in {"outdated", "elsewhere"}, Ages(how)
  PROVE  /\ ScreenTypes'
         /\ how = "elsewhere" => \A h \in Hosts : views[h] # "outdated" => views'[h] # "outdated"
BY DEF Ages, ScreenTypes, Rows

LEMMA ScreenTypesStep ==
  ASSUME Inv, [Next]_vars
  PROVE  ScreenTypes'
<1>0. ScreenTypes /\ StacksInv
  BY DEF Inv
<1> USE DEF ScreenTypes
<1>1. CASE UNCHANGED vars
  BY <1>0, <1>1 DEF vars, screen, Rows
<1>2. CASE Move
  BY <1>0, <1>2 DEF Move, Shows, Rows
<1>3. CASE Press \/ Choose \/ Confirm
  <2>1. UNCHANGED <<shown, index, pending, views, timers>>
    BY <1>3 DEF Press, Choose, Confirm
  <2>2. phase' = "run" /\ dialog' \in Dialogs
    BY <1>0, <1>3, PressRuns, ChooseRuns, ConfirmRuns DEF Begun, NoDialog, Dialogs
  <2>3. QED BY <1>0, <2>1, <2>2 DEF Rows
<1>4. CASE CreateAnswers \/ DomainAdded
  <2>1. UNCHANGED <<shown, index, views, timers>>
    BY <1>4 DEF CreateAnswers, DomainAdded
  <2>2. phase' = "run" /\ dialog' = NoDialog /\ pending' \in Requests
    BY <1>4, AnswersRun, DomainAddedRuns DEF Begun
  <2>3. NoDialog \in Dialogs
    BY DEF NoDialog, Dialogs
  <2>4. QED BY <1>0, <2>1, <2>2, <2>3 DEF Rows
<1>5. CASE Ask
  <2>1. Selected \in Hosts
    BY <1>5, SelectedType DEF Ask
  <2>2. dialog' \in Dialogs
    BY <1>5, <2>1 DEF Ask, Opens, Dialogs
  <2>3. QED BY <1>0, <1>5, <2>2 DEF Ask, Rows
<1>6. CASE ChooseDialog
  <2>1. dialog' \in Dialogs
    BY <1>0, <1>6 DEF ChooseDialog, Opens, Dialogs
  <2>2. QED BY <1>0, <1>6, <2>1 DEF ChooseDialog, Rows
<1>7. CASE Cancel
  BY <1>0, <1>7 DEF Cancel, NoDialog, Dialogs, Rows
<1>8. CASE CreateStack
  BY <1>0, <1>8 DEF CreateStack, Opens, Dialogs, Rows
<1>9. CASE CreateHostname
  <2>1. dialog' \in Dialogs
    BY <1>9 DEF CreateHostname, Opens, Dialogs
  <2>2. PICK h \in Hosts : pending' =
          [host |-> h, domain |-> IF h \in Apex THEN "to do" ELSE "none",
           profile |-> None, network |-> None]
    BY <1>9 DEF CreateHostname
  <2>3. pending' \in Requests
    BY <2>2 DEF Requests
  <2>4. QED BY <1>0, <1>9, <2>1, <2>3 DEF CreateHostname, Rows
<1>10. ASSUME NEW host, NEW reselect \in BOOLEAN, Snapshot(host, reselect),
              UNCHANGED dialog, pending' \in {None, pending}, timers' \subseteq Hosts,
              phase' \in {"idle", "run"}
       PROVE  ScreenTypes'
  BY <1>0, <1>10, SnapshotType
<1>11. CASE Refresh
  <2>1. PICK reselect \in BOOLEAN : Snapshot(None, reselect)
    BY <1>11 DEF Refresh
  <2>2. QED BY <1>0, <1>10, <1>11, <2>1 DEF Refresh
<1>12. ASSUME NEW h \in Hosts, Delay(h) PROVE ScreenTypes'
  <2>1. PICK reselect \in BOOLEAN : Snapshot(h, reselect)
    BY <1>12 DEF Delay
  <2>2. QED BY <1>0, <1>10, <1>12, <2>1 DEF Delay
<1>13. CASE Finish
  <2>1. PICK reselect \in BOOLEAN : Snapshot(run[Dashboard].host, reselect)
    BY <1>0, <1>13, NeverAsks DEF Finish
  <2>2. run[Dashboard].kind \in Delayed => run[Dashboard].host \in Hosts
    BY <1>0 DEF Delayed, Lifecycle, DomainKinds, StacksInv, Fits
  <2>3. /\ UNCHANGED dialog /\ pending' = None /\ phase' = "idle"
        /\ timers' \subseteq Hosts
    BY <1>0, <1>13, <2>2, NeverAsks DEF Finish
  <2>4. QED BY <1>10, <2>1, <2>3
<1>14. CASE DashboardStep \/ Domain
  <2>1. PICK how \in {"outdated", "elsewhere"} : Ages(how)
    BY <1>14 DEF DashboardStep, Domain
  <2>2. QED BY <1>0, <2>1, AgesType
<1>15. CASE Cache \/ \E t \in Others : OtherCommand(t) \/ OtherStep(t)
  <2>1. PICK how \in {"outdated", "elsewhere"} : Ages(how)
    BY <1>15 DEF Cache, OtherCommand, OtherStep
  <2>2. QED BY <1>0, <2>1, AgesType
<1>16. QED
  BY <1>1, <1>2, <1>3, <1>4, <1>5, <1>6, <1>7, <1>8, <1>9, <1>11, <1>12, <1>13, <1>14,
     <1>15 DEF Next

LEMMA ViewsFitStep ==
  ASSUME Inv, [Next]_vars
  PROVE  ViewsFit'
<1>0. /\ phase = "idle" => ~Busy(Dashboard) /\ \A h \in Hosts : views[h] # "outdated"
      /\ StacksInv /\ ScreenTypes
  BY DEF Inv, ScreenFits, ViewsFit
<1>1. CASE UNCHANGED vars
  BY <1>0, <1>1 DEF vars, stacksVars, screen, ViewsFit, Busy
<1>2. CASE phase' = "run"
  BY <1>2 DEF ViewsFit
<1>3. CASE Move
  BY <1>0, <1>3 DEF Move, Free, Shows, stacksVars, ViewsFit, Busy
<1>4. CASE Ask \/ ChooseDialog \/ Cancel \/ CreateStack \/ CreateHostname
  BY <1>0, <1>4 DEF Ask, ChooseDialog, Cancel, CreateStack, CreateHostname, stacksVars, ViewsFit,
     Busy
<1>5. ASSUME NEW host, NEW reselect \in BOOLEAN, Snapshot(host, reselect), ~Busy(Dashboard)'
      PROVE  ViewsFit'
  <2>1. views' \in [Hosts -> {None, "current"}] /\ None # "outdated"
    BY <1>0, <1>5, SnapshotType
  <2>2. QED BY <1>5, <2>1 DEF ViewsFit
<1>6. CASE Refresh
  <2>1. PICK reselect \in BOOLEAN : Snapshot(None, reselect)
    BY <1>6 DEF Refresh
  <2>2. QED BY <1>0, <1>5, <1>6, <2>1 DEF Refresh, stacksVars, Busy
<1>7. ASSUME NEW h \in Hosts, Delay(h) PROVE ViewsFit'
  <2>1. PICK reselect \in BOOLEAN : Snapshot(h, reselect)
    BY <1>7 DEF Delay
  <2>2. QED BY <1>0, <1>5, <1>7, <2>1 DEF Delay, stacksVars, Busy
<1>8. CASE Finish
  <2>1. PICK reselect \in BOOLEAN : Snapshot(run[Dashboard].host, reselect)
    BY <1>0, <1>8, NeverAsks DEF Finish
  <2>2. run'[Dashboard] = Idle
    BY <1>0, <1>8 DEF Finish, StacksInv, StacksTypes
  <2>3. ~Busy(Dashboard)'
    <3>1. Idle.at = "done"
      BY DEF Idle
    <3>2. QED BY <2>2, <3>1 DEF Busy
  <2>4. QED BY <1>5, <2>1, <2>3
<1>9. CASE DashboardStep \/ Domain
  <2>1. Busy(Dashboard)
    BY <1>0, <1>9, StepRun DEF DashboardStep
  <2>2. UNCHANGED phase
    BY <1>9 DEF DashboardStep, Domain, Ages
  <2>3. QED BY <1>0, <2>1, <2>2 DEF ViewsFit
<1>10. CASE Cache \/ \E t \in Others : OtherCommand(t) \/ OtherStep(t)
  <2>1. UNCHANGED phase
    BY <1>10 DEF Cache, OtherCommand, OtherStep, Ages
  <2>2. PICK how \in {"elsewhere", "outdated"} : how = "elsewhere" /\ Ages(how)
    BY <1>10 DEF Cache, OtherCommand, OtherStep
  <2>3. \A h \in Hosts : views[h] # "outdated" => views'[h] # "outdated"
    BY <1>0, <2>2, AgesType
  <2>4. Busy(Dashboard)' <=> Busy(Dashboard)
    <3>1. CASE Cache
      BY <3>1 DEF Cache, RefreshCache, Busy
    <3>2. ASSUME NEW t \in Others, OtherCommand(t) PROVE Busy(Dashboard)' <=> Busy(Dashboard)
      <4>1. PICK c : Begin(t, c) /\ Fresh(c)
        BY <3>2, OtherStarts DEF Starting
      <4>2. t \in Terminals /\ Dashboard \in Terminals \ {t}
        BY DEF Others
      <4>3. run'[Dashboard].at = run[Dashboard].at
        BY <1>0, <4>1, <4>2, BeginOthers
      <4>4. QED BY <4>3 DEF Busy
    <3>3. ASSUME NEW t \in Others, OtherStep(t) PROVE Busy(Dashboard)' <=> Busy(Dashboard)
      <4>1. t \in Terminals /\ t # Dashboard
        BY DEF Others
      <4>2. run' = [run EXCEPT ![t] = run'[t]]
        BY <1>0, <3>3, <4>1, StepRun DEF OtherStep
      <4>3. QED BY <1>0, <4>1, <4>2 DEF Busy, StacksInv, StacksTypes
    <3>4. QED BY <1>10, <3>1, <3>2, <3>3
  <2>5. QED BY <1>0, <2>1, <2>3, <2>4 DEF ViewsFit
<1>11. QED
  <2>1. CASE Press \/ Choose \/ Confirm \/ CreateAnswers \/ DomainAdded
    BY <1>2, <2>1, PressRuns, ChooseRuns, ConfirmRuns, AnswersRun, DomainAddedRuns DEF Begun
  <2>2. QED
    BY <1>1, <1>3, <1>4, <1>6, <1>7, <1>8, <1>9, <1>10, <2>1 DEF Next

LEMMA DialogFitsStep ==
  ASSUME Inv, [Next]_vars
  PROVE  DialogFits'
<1>0. DialogFits /\ StacksInv /\ ScreenTypes
  BY DEF Inv, ScreenFits
<1>1. CASE UNCHANGED <<dialog, phase>>
  BY <1>0, <1>1 DEF DialogFits
<1>2. CASE dialog' = NoDialog
  BY <1>2 DEF DialogFits, NoDialog
<1>3. CASE Ask
  <2>1. Selected \in Hosts /\ phase' = "idle"
    BY <1>3, SelectedType DEF Ask, Free
  <2>2. QED BY <1>3, <2>1 DEF Ask, Opens, DialogFits
<1>4. CASE ChooseDialog
  <2>1. dialog.host \in Hosts /\ phase' = "idle"
    BY <1>0, <1>4 DEF ChooseDialog, InDialog, DialogFits
  <2>2. QED BY <1>4, <2>1 DEF ChooseDialog, Opens, DialogFits
<1>5. CASE CreateStack \/ CreateHostname
  <2>1. phase' = "idle"
    BY <1>5 DEF CreateStack, CreateHostname, Free, InDialog
  <2>2. PICK does \in {"hostname", "answers"} :
          dialog' = [kind |-> "create", host |-> None, does |-> does]
    BY <1>5 DEF CreateStack, CreateHostname, Opens
  <2>3. QED BY <2>1, <2>2 DEF DialogFits
<1>6. CASE Refresh \/ \E h \in Hosts : Delay(h)
  BY <1>1, <1>6 DEF Refresh, Delay
<1>7. CASE Finish
  <2>1. dialog' = NoDialog
    BY <1>0, <1>7, NeverAsks DEF Finish, Ran, DialogFits
  <2>2. QED BY <1>2, <2>1
<1>8. CASE DashboardStep \/ Domain \/ Cache
  BY <1>1, <1>8 DEF DashboardStep, Domain, Cache, Ages
<1>9. CASE \E t \in Others : OtherCommand(t) \/ OtherStep(t)
  BY <1>1, <1>9 DEF OtherCommand, OtherStep, Ages
<1>10. CASE Press
  <2>1. dialog' = NoDialog
    BY <1>10, PressRuns DEF Press, Free
  <2>2. QED BY <1>2, <2>1
<1>11. CASE Choose \/ Confirm \/ CreateAnswers \/ DomainAdded
  BY <1>2, <1>11, ChooseRuns, ConfirmRuns, AnswersRun, DomainAddedRuns
<1>12. CASE Move
  BY <1>1, <1>12 DEF Move
<1>13. CASE Cancel
  BY <1>2, <1>13 DEF Cancel
<1>14. QED
  <2>1. CASE UNCHANGED vars
    BY <1>1, <2>1 DEF vars, screen
  <2>2. QED
    BY <1>3, <1>4, <1>5, <1>6, <1>7, <1>8, <1>9, <1>10, <1>11, <1>12, <1>13, <2>1 DEF Next

\* What a command of another terminal leaves of the dashboard's.
LEMMA OthersLeave ==
  ASSUME Inv, NEW t \in Others, OtherCommand(t) \/ OtherStep(t)
  PROVE  /\ run'[Dashboard].host = run[Dashboard].host
         /\ run'[Dashboard].kind = run[Dashboard].kind
         /\ UNCHANGED <<dialog, pending, phase>>
<1>0. StacksInv /\ t \in Terminals /\ t # Dashboard
  BY DEF Inv, Others
<1>1. UNCHANGED <<dialog, pending, phase>>
  BY DEF OtherCommand, OtherStep, Ages
<1>2. CASE OtherCommand(t)
  <2>1. PICK c : Begin(t, c) /\ Fresh(c)
    BY <1>2, OtherStarts DEF Starting
  <2>2. QED BY <1>0, <1>1, <2>1, BeginOthers
<1>3. CASE OtherStep(t)
  <2>1. run' = [run EXCEPT ![t] = run'[t]]
    BY <1>0, <1>3, StepRun DEF OtherStep
  <2>2. QED BY <1>0, <1>1, <2>1 DEF StacksInv, StacksTypes
<1>4. QED BY <1>2, <1>3

LEMMA PendingFitsStep ==
  ASSUME Inv, [Next]_vars
  PROVE  PendingFits'
<1>0. DialogFits /\ PendingFits /\ StacksInv /\ ScreenTypes
  BY DEF Inv, ScreenFits
<1>1. ASSUME UNCHANGED <<dialog, pending, phase>>,
             run'[Dashboard].host = run[Dashboard].host,
             run'[Dashboard].kind = run[Dashboard].kind
      PROVE  PendingFits'
  BY <1>0, <1>1 DEF PendingFits
<1>2. ASSUME pending' = None, dialog'.kind # "create" \/ dialog'.does # "answers"
      PROVE  PendingFits'
  BY <1>2 DEF PendingFits
<1>3. ASSUME phase = "idle", dialog.kind # "create" PROVE pending = None
  BY <1>0, <1>3 DEF PendingFits
<1>4. NoDialog.kind = "none"
  BY DEF NoDialog
<1>5. CASE UNCHANGED vars
  BY <1>1, <1>5 DEF vars, stacksVars, screen
<1>6. CASE Move \/ Refresh \/ Cache \/ \E h \in Hosts : Delay(h)
  BY <1>1, <1>6 DEF Move, Refresh, Delay, Cache, Ages, RefreshCache, stacksVars
<1>7. CASE Press
  BY <1>2, <1>3, <1>4, <1>7 DEF Press, Free
<1>8. CASE Choose \/ Confirm
  <2>1. pending = None
    BY <1>3, <1>8 DEF Choose, Confirm, InDialog
  <2>2. QED BY <1>2, <1>4, <1>8, <2>1, ChooseRuns, ConfirmRuns
<1>9. CASE Ask \/ ChooseDialog
  <2>1. pending' = None
    BY <1>3, <1>4, <1>9 DEF Ask, ChooseDialog, Free, InDialog
  <2>2. PICK kind \in {"menu", "template", "confirm"} : \E h, does : Opens(kind, h, does)
    BY <1>9 DEF Ask, ChooseDialog
  <2>3. dialog'.kind # "create"
    BY <2>2 DEF Opens
  <2>4. QED BY <1>2, <2>1, <2>3
<1>10. CASE Cancel
  <2>1. pending' = None /\ dialog' = NoDialog
    BY <1>3, <1>10 DEF Cancel
  <2>2. QED BY <1>2, <1>4, <2>1
<1>11. CASE CreateStack
  <2>1. pending' = None /\ dialog'.does = "hostname"
    BY <1>11 DEF CreateStack, Opens
  <2>2. QED BY <1>2, <2>1
<1>12. CASE CreateHostname
  <2>1. phase' = "idle" /\ dialog'.kind = "create" /\ dialog'.does = "answers"
    BY <1>12 DEF CreateHostname, InDialog, Opens
  <2>2. PICK h \in Hosts, d \in {"to do", "none"} :
          /\ pending' = [host |-> h, domain |-> d, profile |-> None, network |-> None]
          /\ d = IF h \in Apex THEN "to do" ELSE "none"
    BY <1>12 DEF CreateHostname
  <2>3. pending' \in Requests /\ pending'.host = h /\ pending'.domain = d
    BY <2>2 DEF Requests
  <2>4. QED BY <2>1, <2>2, <2>3 DEF PendingFits
<1>13. ASSUME NEW kinds \in SUBSET {"domain-add", "scaffold"},
              Begun(Dashboard, pending'.host, kinds), dialog' = NoDialog,
              pending' \in Requests,
              pending'.domain = "to do" => pending'.host \in Apex,
              pending'.domain = "none" => pending'.host \notin Apex
       PROVE  PendingFits'
  <2>1. PICK c : Begin(Dashboard, c) /\ Fresh(c) /\ c.host = pending'.host /\ c.kind \in kinds
    BY <1>13 DEF Begun
  <2>2. run'[Dashboard].host = c.host /\ run'[Dashboard].kind = c.kind
    <3> DEFINE a == \A v \in Terminals \ {Dashboard} : Busy(v) => run[v].host # c.host
    <3>1. c \in Locals
      BY <2>1 DEF Fresh
    <3>2. run'[Dashboard] = [c EXCEPT !.alone = a]
      BY <1>0, <2>1, BeginRun
    <3> HIDE DEF a
    <3>3. QED BY <3>1, <3>2 DEF Locals
  <2>3. phase' = "run"
    BY <1>13 DEF Begun
  <2>4. QED BY <1>4, <1>13, <2>1, <2>2, <2>3 DEF PendingFits
<1>14. CASE CreateAnswers
  <2>1. /\ {IF pending'.domain = "to do" THEN "domain-add" ELSE "scaffold"}
             \in SUBSET {"domain-add", "scaffold"}
        /\ pending'.domain = "to do" => pending'.host \in Apex
        /\ pending'.domain = "none" => pending'.host \notin Apex
    BY <1>14, AnswersRun
  <2>2. QED BY <1>13, <1>14, <2>1, AnswersRun
<1>15. CASE DomainAdded
  <2>1. /\ {"scaffold"} \in SUBSET {"domain-add", "scaffold"}
        /\ pending'.domain # "to do" /\ pending'.domain # "none"
    BY <1>15, DomainAddedRuns
  <2>2. QED BY <1>13, <1>15, <2>1, DomainAddedRuns
<1>16. CASE Finish
  <2>1. pending' = None /\ dialog' = NoDialog
    BY <1>0, <1>16, NeverAsks DEF Finish, Ran, DialogFits
  <2>2. QED BY <1>2, <1>4, <2>1
<1>17. CASE DashboardStep \/ Domain
  <2>1. run'[Dashboard].host = run[Dashboard].host /\ run'[Dashboard].kind = run[Dashboard].kind
    BY <1>0, <1>17, StepRun DEF DashboardStep
  <2>2. UNCHANGED <<dialog, pending, phase>>
    BY <1>17 DEF DashboardStep, Domain, Ages
  <2>3. QED BY <1>1, <2>1, <2>2
<1>18. CASE \E t \in Others : OtherCommand(t) \/ OtherStep(t)
  BY <1>1, <1>18, OthersLeave
<1>19. QED
  BY <1>5, <1>6, <1>7, <1>8, <1>9, <1>10, <1>11, <1>12, <1>14, <1>15, <1>16, <1>17, <1>18
  DEF Next

LEMMA InitInv == Init => Inv
<1> SUFFICES ASSUME Init PROVE Inv
  OBVIOUS
<1>1. StacksTypes
  <2>1. PICK made \in SUBSET Hosts :
          /\ dir = [h \in Hosts |->
               IF h \in made THEN [exists |-> TRUE, compose |-> Global, settings |-> Unpinned]
               ELSE NoDir]
          /\ running \in SUBSET made
    BY DEF Init, StacksInit
  <2>2. Unpinned \in Settings
    BY DEF Unpinned, Settings
  <2>3. NoDir \in Dirs /\ [exists |-> TRUE, compose |-> Global, settings |-> Unpinned] \in Dirs
    BY <2>2 DEF NoDir, Dirs
  <2>4. dir \in [Hosts -> Dirs]
    BY <2>1, <2>3
  <2>5. run \in [Terminals -> Locals]
    BY IdleType DEF Init, StacksInit
  <2>6. running \subseteq Hosts
    BY <2>1
  <2>7. wired \subseteq Apex /\ cached \subseteq Hosts
    BY DEF Init, StacksInit
  <2>8. commands \in 0..MaxCommands /\ faults \in 0..MaxFaults
    BY DEF Init, StacksInit
  <2>9. QED BY <2>4, <2>5, <2>6, <2>7, <2>8 DEF StacksTypes
<1>2. \A t \in Terminals : run[t] = Idle
  BY DEF Init, StacksInit
<1>3. StacksInv
  BY <1>1, <1>2, IdleType DEF StacksInv
<1>4. shown \in SUBSET Hosts /\ NoDialog \in Dialogs /\ Rows(shown) \in Nat \ {0}
  BY <1>3, ListedType, RowsType DEF Init, NoDialog, Dialogs
<1>5. ScreenTypes
  BY <1>4 DEF Init, ScreenTypes
<1>6. ~Busy(Dashboard)
  <2>1. Idle.at = "done"
    BY DEF Idle
  <2>2. QED BY <1>2, <2>1 DEF Busy
<1>7. ScreenFits
  BY <1>6 DEF Init, ScreenFits, ViewsFit, DialogFits, PendingFits, NoDialog
<1>8. QED BY <1>3, <1>5, <1>7 DEF Inv

LEMMA Invariant == Spec => []Inv
<1>1. Inv /\ [Next]_vars => Inv'
  BY StacksInvStep, ScreenTypesStep, ViewsFitStep, DialogFitsStep, PendingFitsStep
  DEF Inv, ScreenFits
<1>2. QED BY <1>1, InitInv, PTL DEF Spec

\* Every reachable state is well typed; in particular the highlighted row is
\* always one of the rows that are shown, however the list has shrunk.
THEOREM TypeCorrect == Spec => []TypeOK
<1>1. Inv => TypeOK
  BY DEF Inv, StacksInv, StacksTypes, ScreenTypes, TypeOK, Locals, Dialogs
<1>2. QED BY <1>1, Invariant, PTL

\* A view that the dashboard shows while it waits is not older than what its
\* own commands have done.
THEOREM ViewsCurrent == Spec => []ViewsAreCurrent
<1>1. Inv => ViewsAreCurrent
  BY DEF Inv, ScreenFits, ViewsFit, ViewsAreCurrent
<1>2. QED BY <1>1, Invariant, PTL

-----------------------------------------------------------------------------
(* What is asked for.                                                      *)

Asked ==
  Starts =>
    LET c == run'[Dashboard] IN
    /\ Free => c.host = Selected
    /\ phase = "idle" /\ dialog.host # None => c.host = dialog.host
    /\ pending' # None => c.host = pending'.host
    /\ pending' # None /\ c.kind = "scaffold" /\ c.host \in Apex =>
         LET before == run[Dashboard] IN
         \/ pending.domain = "done"
         \/ before.kind = "domain-add" /\ before.host = c.host /\ before.ok

\* What Begun leaves in the terminal of the dashboard.
LEMMA BegunRun ==
  ASSUME StacksInv, NEW h, NEW kinds, Begun(Dashboard, h, kinds)
  PROVE  run'[Dashboard].host = h /\ run'[Dashboard].kind \in kinds
<1>1. PICK c : Begin(Dashboard, c) /\ Fresh(c) /\ c.host = h /\ c.kind \in kinds
  BY DEF Begun
<1> DEFINE a == \A v \in Terminals \ {Dashboard} : Busy(v) => run[v].host # c.host
<1>2. c \in Locals
  BY <1>1 DEF Fresh
<1>3. run'[Dashboard] = [c EXCEPT !.alone = a]
  BY <1>1, BeginRun
<1> HIDE DEF a
<1>4. QED BY <1>1, <1>2, <1>3 DEF Locals

LEMMA AskedStep ==
  ASSUME Inv, [Next]_vars
  PROVE  Asked
<1>0. /\ StacksInv /\ DialogFits /\ PendingFits /\ NoDialog.host = None
      /\ NoDialog.kind = "none"
  BY DEF Inv, ScreenFits, NoDialog
<1>1. CASE Press
  <2>1. run'[Dashboard].host = Selected
    BY <1>0, <1>1, PressRuns, BegunRun
  <2>2. pending' = None /\ dialog = NoDialog
    BY <1>0, <1>1, PressRuns DEF Press, Free, PendingFits
  <2>3. QED BY <1>0, <2>1, <2>2 DEF Asked
<1>2. CASE Choose \/ Confirm
  <2>1. run'[Dashboard].host = dialog.host
    BY <1>0, <1>2, ChooseRuns, ConfirmRuns, BegunRun
  <2>2. pending' = None /\ dialog # NoDialog
    BY <1>0, <1>2, ChooseRuns, ConfirmRuns DEF Choose, Confirm, InDialog, PendingFits
  <2>3. QED BY <2>1, <2>2 DEF Asked, Free
<1>3. CASE CreateAnswers
  <2>1. /\ run'[Dashboard].host = pending'.host
        /\ run'[Dashboard].kind = IF pending'.domain = "to do" THEN "domain-add" ELSE "scaffold"
    BY <1>0, <1>3, AnswersRun, BegunRun
  <2>2. dialog.host = None /\ dialog # NoDialog
    BY <1>0, <1>3 DEF CreateAnswers, InDialog, DialogFits
  <2>3. run'[Dashboard].kind = "scaffold" => pending'.host \notin Apex
    BY <1>3, <2>1, AnswersRun
  <2>4. QED BY <2>1, <2>2, <2>3 DEF Asked, Free
<1>4. CASE DomainAdded
  <2>1. run'[Dashboard].host = pending'.host
    BY <1>0, <1>4, DomainAddedRuns, BegunRun
  <2>2. QED BY <1>4, <2>1, DomainAddedRuns DEF Asked, Free
<1>5. CASE phase' = "idle"
  BY <1>5 DEF Asked, Starts
<1>6. CASE UNCHANGED <<phase, pending>>
  BY <1>6 DEF Asked, Starts
<1>7. CASE Ask \/ ChooseDialog \/ Cancel \/ CreateStack \/ CreateHostname \/ Finish
  BY <1>5, <1>7 DEF Ask, ChooseDialog, Cancel, CreateStack, CreateHostname, Finish, Free, InDialog
<1>8. CASE DashboardStep \/ Domain \/ Cache \/ \E t \in Others : OtherCommand(t) \/ OtherStep(t)
  BY <1>6, <1>8 DEF DashboardStep, Domain, Cache, OtherCommand, OtherStep, Ages
<1>9. CASE Move \/ Refresh \/ UNCHANGED vars \/ \E h \in Hosts : Delay(h)
  BY <1>6, <1>9 DEF Move, Refresh, Delay, vars, screen
<1>10. QED
  BY <1>1, <1>2, <1>3, <1>4, <1>7, <1>8, <1>9 DEF Next

\* What the dashboard runs is what its screen asked for, whatever a refresh has
\* done to the list behind a dialog, and a create scaffolds a bare domain only
\* behind a domain add that worked.
THEOREM RunsAsAsked == Spec => RunsWhatWasAsked
<1>1. Inv /\ [Next]_vars => Asked
  BY AskedStep
<1>2. QED BY <1>1, Invariant, PTL DEF Spec, RunsWhatWasAsked, Asked
-----------------------------------------------------------------------------
(* What commands report.                                                   *)

\* A command has its host for itself.
Apart(t) == \A v \in Terminals \ {t} : Busy(v) => run[v].host # run[t].host

\* How far a command has come, if nothing has disturbed it.
Came(t) == LET c == run[t] IN
  /\ c.at = "remove" /\ "down" \in c.did => c.host \notin running
  /\ c.at \in {"settings", "write settings"} => dir[c.host].compose = c.network
  /\ c.at = "done" /\ c.ok =>
       /\ c.kind \in {"up", "restart"} => c.host \in running
       /\ c.kind = "down" => c.host \notin running
       /\ c.kind = "cleanup" => /\ ~dir[c.host].exists
                                /\ "down" \in c.did => c.host \notin running
       /\ c.kind = "scaffold" => /\ dir[c.host].compose = c.network
                                 /\ Effective(c.host) = c.network

Undisturbed == \A t \in Terminals : run[t].alone => Apart(t) /\ Came(t)

\* The command that takes a step.
LEMMA CameStep ==
  ASSUME StacksInv, NEW t \in Terminals, StacksStep(t), Came(t)
  PROVE  Came(t)'
<1>0. /\ run \in [Terminals -> Locals] /\ dir \in [Hosts -> Dirs]
      /\ run[t] \in Locals /\ Fits(run[t])
  BY DEF StacksInv, StacksTypes
<1>1. ASSUME NEW m, FailsWith(t, m) PROVE Came(t)'
  <2>1. run'[t].at = "done" /\ run'[t].ok = run[t].ok
    BY <1>0, <1>1 DEF FailsWith, Locals
  <2>2. ~run[t].ok
    BY <1>0, StepRun DEF Fits, Busy
  <2>3. QED BY <2>1, <2>2 DEF Came
<1>2. ASSUME Ends(t)
      PROVE  /\ run'[t].at = "done" /\ run'[t].host = run[t].host /\ run'[t].kind = run[t].kind
             /\ run'[t].network = run[t].network
             /\ run'[t].did = run[t].did \cup {run[t].at}
  BY <1>0, <1>2 DEF Ends, Locals
<1>3. ASSUME NEW at, Goes(t, at)
      PROVE  /\ run'[t].at = at /\ run'[t].host = run[t].host /\ run'[t].kind = run[t].kind
             /\ run'[t].network = run[t].network
             /\ run'[t].did = run[t].did \cup {run[t].at}
  BY <1>0, <1>3 DEF Goes, Locals
<1>4. CASE Down(t)
  <2>1. run[t].kind \in {"down", "restart", "cleanup"} /\ run[t].host \notin running'
    BY <1>0, <1>4 DEF Down, Fits
  <2>2. CASE run[t].kind = "down"
    BY <1>2, <1>4, <2>1, <2>2 DEF Down, AfterDown, Came
  <2>3. CASE run[t].kind = "restart"
    <3>1. run'[t].at = "up"
      BY <1>3, <1>4, <2>3 DEF Down, AfterDown
    <3>2. QED BY <3>1 DEF Came
  <2>4. CASE run[t].kind = "cleanup"
    <3>1. run'[t].at = "remove" /\ run'[t].host = run[t].host
      BY <1>3, <1>4, <2>4 DEF Down, AfterDown
    <3>2. QED BY <2>1, <3>1 DEF Came
  <2>5. QED BY <2>1, <2>2, <2>3, <2>4
<1>5. CASE Up(t)
  <2>1. run[t].kind \in {"up", "restart"} /\ run[t].host \in running'
    BY <1>0, <1>5 DEF Up, Fits
  <2>2. /\ run'[t].at = "done" /\ run'[t].host = run[t].host /\ run'[t].kind = run[t].kind
    BY <1>2, <1>5 DEF Up
  <2>3. QED BY <2>1, <2>2 DEF Came
<1>6. CASE DockerFails(t) \/ RemoveFails(t)
  BY <1>1, <1>6 DEF DockerFails, RemoveFails
<1>7. CASE Remove(t)
  <2>1. /\ run[t].kind = "cleanup" /\ run[t].host \in Hosts /\ run[t].at = "remove"
        /\ running' = running /\ dir' = [dir EXCEPT ![run[t].host] = NoDir]
    BY <1>0, <1>7 DEF Remove, Fits, outside
  <2>2. ~dir'[run[t].host].exists
    BY <1>0, <2>1 DEF NoDir
  <2>3. /\ run'[t].at = "done" /\ run'[t].host = run[t].host /\ run'[t].kind = "cleanup"
        /\ run'[t].did = run[t].did \cup {"remove"}
    BY <1>2, <1>7, <2>1 DEF Remove
  <2>4. QED BY <2>1, <2>2, <2>3 DEF Came
<1>8. CASE WriteCompose(t)
  <2>1. run[t].host \in Hosts
    BY <1>0, <1>8 DEF WriteCompose, Fits
  <2>2. CASE run'[t].at = "done"
    <3>1. \E m : FailsWith(t, m)
      <4>1. \E m : FailsWith(t, m) \/ Goes(t, "settings")
        BY <1>8 DEF WriteCompose
      <4>2. QED BY <1>3, <2>2, <4>1
    <3>2. QED BY <1>1, <3>1
  <2>3. CASE run'[t].at # "done"
    <3>1. Goes(t, "settings") /\ dir' = [dir EXCEPT ![run[t].host].exists = TRUE,
                                                  ![run[t].host].compose = run[t].network]
      <4>1. ASSUME NEW m, FailsWith(t, m) PROVE FALSE
        BY <1>0, <2>3, <4>1 DEF FailsWith, Locals
      <4>2. QED BY <1>8, <4>1 DEF WriteCompose
    <3>2. dir'[run[t].host].compose = run[t].network
      BY <1>0, <2>1, <3>1 DEF Dirs
    <3>3. /\ run'[t].at = "settings" /\ run'[t].host = run[t].host
          /\ run'[t].network = run[t].network
      BY <1>3, <3>1
    <3>4. QED BY <3>2, <3>3 DEF Came
  <2>4. QED BY <2>2, <2>3
<1>9. CASE WriteSettings(t)
  <2>1. CASE \E m : FailsWith(t, m)
    BY <1>1, <2>1
  <2>2. CASE ~\E m : FailsWith(t, m)
    <3>1. Ends(t) /\ dir' = [dir EXCEPT ![run[t].host].exists = TRUE,
                                       ![run[t].host].settings = run[t].settings]
      BY <1>9, <2>2 DEF WriteSettings
    <3>2. /\ run[t].kind = "scaffold" /\ run[t].host \in Hosts /\ Base(run[t].profile) # None
          /\ run[t].profile \in Profiles \cup {None}
          /\ run[t].network \in Networks
          /\ run[t].settings = Pinned(run[t].profile, run[t].network)
          /\ dir[run[t].host].compose = run[t].network
      BY <1>0, <1>9 DEF WriteSettings, Fits, Came, Locals
    <3>3. /\ dir'[run[t].host].compose = run[t].network
          /\ dir'[run[t].host].settings = Pinned(run[t].profile, run[t].network)
      BY <1>0, <3>1, <3>2 DEF Dirs
    <3>4. PICK h \in Hosts : h = run[t].host
      BY <3>2
    <3>5. Effective(h)' = run[t].network
      <4> DEFINE s == dir'[h].settings
      <4>1. s # None /\ s.profile = run[t].profile
        BY <3>2, <3>3, <3>4, PinnedType DEF Pinned
      <4>2. s.network = IF run[t].network = Base(run[t].profile) THEN None ELSE run[t].network
        BY <3>3, <3>4 DEF Pinned
      <4>3. run[t].network # None
        BY <3>2
      <4>4. QED BY <3>2, <4>1, <4>2, <4>3 DEF Effective
    <3>6. /\ run'[t].at = "done" /\ run'[t].host = run[t].host /\ run'[t].kind = "scaffold"
          /\ run'[t].network = run[t].network
      BY <1>2, <3>1, <3>2
    <3>7. QED BY <3>3, <3>4, <3>5, <3>6 DEF Came
  <2>3. QED BY <2>1, <2>2
<1>10. CASE CheckFile(t)
  <2>1. run[t].at \in {"compose", "settings"} /\ dir' = dir
    BY <1>10 DEF CheckFile
  <2>2. CASE FailsWith(t, Refusal)
    BY <1>1, <2>2
  <2>3. CASE ~FailsWith(t, Refusal)
    <3>1. PICK at : Goes(t, at) /\ \/ at = "write compose"
                                   \/ at = "write settings" /\ run[t].at = "settings"
      BY <1>10, <2>1, <2>3 DEF CheckFile
    <3>2. /\ run'[t].at \in {"write compose", "write settings"}
          /\ run'[t].at = "write settings" => run[t].at = "settings"
          /\ run'[t].host = run[t].host /\ run'[t].network = run[t].network
      BY <1>3, <2>1, <3>1
    <3>3. run'[t].at = "write settings" => dir'[run'[t].host].compose = run'[t].network
      BY <2>1, <3>2 DEF Came
    <3>4. run'[t].at # "remove" /\ run'[t].at # "settings" /\ run'[t].at # "done"
      <4>1. CASE run'[t].at = "write compose"
        BY <4>1
      <4>2. CASE run'[t].at = "write settings"
        BY <4>2
      <4>3. QED BY <3>2, <4>1, <4>2
    <3>5. QED BY <3>3, <3>4 DEF Came
  <2>4. QED BY <2>2, <2>3
<1>11. QED BY <1>4, <1>5, <1>6, <1>7, <1>8, <1>9, <1>10 DEF StacksStep

\* A command that steps, and those it does not disturb.
LEMMA UndisturbedStep ==
  ASSUME StacksInv, NEW t \in Terminals, StacksStep(t), Undisturbed
  PROVE  Undisturbed'
<1>0. /\ run \in [Terminals -> Locals]
      /\ run' = [run EXCEPT ![t] = run'[t]]
      /\ run'[t].host = run[t].host /\ run'[t].alone = run[t].alone
      /\ Busy(t) /\ (t \in Terminals)
  BY StepRun DEF StacksInv, StacksTypes
<1>1. \A u \in Terminals \ {t} : run'[u] = run[u]
  BY <1>0
<1>2. \A u \in Terminals : run'[u].host = run[u].host /\ run'[u].alone = run[u].alone
  BY <1>0, <1>1
<1>3. \A u \in Terminals : Busy(u)' => Busy(u)
  BY <1>0, <1>1 DEF Busy
<1>4. ASSUME NEW u \in Terminals, run'[u].alone PROVE (Apart(u) /\ Came(u))'
  <2>1. Apart(u) /\ Came(u)
    BY <1>2, <1>4 DEF Undisturbed
  <2>2. Apart(u)'
    BY <1>2, <1>3, <2>1 DEF Apart
  <2>3. CASE u = t
    BY <2>1, <2>2, <2>3, CameStep
  <2>4. CASE u # t
    <3>1. run'[u] = run[u] /\ run[t].host # run[u].host
      BY <1>0, <1>1, <2>1, <2>4 DEF Apart
    <3>2. CASE run[u].at # "done" \/ run[u].ok
      <4>1. PICK h \in Hosts : h = run[u].host /\ h # run[t].host
        BY <3>1, <3>2 DEF StacksInv, Fits
      <4>2. dir'[h] = dir[h] /\ (h \in running' <=> h \in running)
        BY <4>1, StepElsewhere
      <4>3. Effective(h)' = Effective(h)
        BY <4>2 DEF Effective
      <4>4. Came(u)'
        BY <2>1, <3>1, <4>1, <4>2, <4>3 DEF Came
      <4>5. QED BY <2>2, <4>4
    <3>3. CASE ~(run[u].at # "done" \/ run[u].ok)
      BY <2>2, <3>1, <3>3 DEF Came
    <3>4. QED BY <2>2, <3>2, <3>3
  <2>5. QED BY <2>3, <2>4
<1>5. QED BY <1>4 DEF Undisturbed

\* A command that begins is apart or not; it ends that of every other command
\* for its host.
LEMMA UndisturbedBegin ==
  ASSUME StacksInv, NEW t \in Terminals, Starting(t), Undisturbed
  PROVE  Undisturbed'
<1>1. PICK c : Begin(t, c) /\ Fresh(c)
  BY DEF Starting
<1>2. /\ c \in Locals /\ c.did = {} /\ ~c.ok /\ c.at \notin {"settings", "write settings"}
      /\ UNCHANGED <<dir, running>>
  BY <1>1 DEF Fresh, Starting, outside
<1>3. /\ run'[t].host = c.host /\ run'[t].did = {} /\ ~run'[t].ok
      /\ run'[t].at \notin {"settings", "write settings"}
      /\ run'[t].alone => \A v \in Terminals \ {t} : Busy(v) => run[v].host # c.host
  <2> DEFINE a == \A v \in Terminals \ {t} : Busy(v) => run[v].host # c.host
  <2>1. run'[t] = [c EXCEPT !.alone = a]
    BY <1>1, BeginRun
  <2> HIDE DEF a
  <2>2. run'[t].host = c.host /\ run'[t].did = c.did /\ run'[t].ok = c.ok /\ run'[t].at = c.at
    BY <1>2, <2>1 DEF Locals
  <2>3. run'[t].alone <=> a
    BY <1>2, <2>1 DEF Locals
  <2>4. QED BY <1>2, <2>2, <2>3 DEF a
<1>4. ASSUME NEW u \in Terminals \ {t}
      PROVE  /\ run'[u].kind = run[u].kind /\ run'[u].host = run[u].host
             /\ run'[u].network = run[u].network /\ run'[u].at = run[u].at
             /\ run'[u].ok = run[u].ok /\ run'[u].did = run[u].did
             /\ run'[u].alone => run[u].alone /\ run[u].host # c.host
             /\ Busy(u)' <=> Busy(u)
  BY <1>1, BeginOthers DEF Busy
<1>5. run'[t].alone => (Apart(t) /\ Came(t))'
  <2>1. Came(t)'
    BY <1>3 DEF Came
  <2>2. run'[t].alone => Apart(t)'
    BY <1>3, <1>4 DEF Apart
  <2>3. QED BY <2>1, <2>2
<1>6. ASSUME NEW u \in Terminals \ {t}, run'[u].alone PROVE (Apart(u) /\ Came(u))'
  <2>1. Apart(u) /\ Came(u) /\ run[u].host # c.host
    BY <1>4, <1>6 DEF Undisturbed
  <2>2. Apart(u)'
    BY <1>3, <1>4, <2>1 DEF Apart
  <2>3. \A h : Effective(h)' = Effective(h)
    BY <1>2 DEF Effective
  <2>4. Came(u)'
    BY <1>2, <1>4, <2>1, <2>3 DEF Came
  <2>5. QED BY <2>2, <2>4
<1>7. QED BY <1>5, <1>6 DEF Undisturbed

LEMMA UndisturbedNext ==
  ASSUME Inv, [Next]_vars, Undisturbed
  PROVE  Undisturbed'
<1>0. StacksInv /\ run \in [Terminals -> Locals]
  BY DEF Inv, StacksInv, StacksTypes
<1>1. ASSUME UNCHANGED <<dir, running>>,
             \A u \in Terminals \ {Dashboard} : run'[u] = run[u],
             Busy(Dashboard)' => Busy(Dashboard) /\ run'[Dashboard].host = run[Dashboard].host,
             run'[Dashboard].kind \in DomainKinds \cup {"none"},
             run'[Dashboard].at \in {"domain", "done"},
             run'[Dashboard].alone => run[Dashboard].alone,
             run'[Dashboard].alone => run'[Dashboard].host = run[Dashboard].host
      PROVE  Undisturbed'
  <2>1. \A h : Effective(h)' = Effective(h)
    BY <1>1 DEF Effective
  <2>2. ASSUME NEW u \in Terminals \ {Dashboard}, run'[u].alone PROVE (Apart(u) /\ Came(u))'
    <3>1. Apart(u) /\ Came(u) /\ run'[u] = run[u]
      BY <1>1, <2>2 DEF Undisturbed
    <3>2. Apart(u)'
      BY <1>1, <3>1 DEF Apart, Busy
    <3>3. QED BY <1>1, <2>1, <3>1, <3>2 DEF Came
  <2>3. run'[Dashboard].alone => (Apart(Dashboard) /\ Came(Dashboard))'
    <3>1. Came(Dashboard)'
      BY <1>1 DEF Came, DomainKinds
    <3>2. run'[Dashboard].alone => Apart(Dashboard)'
      BY <1>1 DEF Undisturbed, Apart, Busy
    <3>3. QED BY <3>1, <3>2
  <2>4. QED BY <2>2, <2>3 DEF Undisturbed
<1>2. CASE UNCHANGED stacksVars \/ RefreshCache
  <2>1. UNCHANGED <<run, dir, running>>
    BY <1>2 DEF stacksVars, RefreshCache, outside
  <2>2. \A h : Effective(h)' = Effective(h)
    BY <2>1 DEF Effective
  <2>3. QED BY <2>1, <2>2 DEF Undisturbed, Apart, Came, Busy
<1>3. CASE \E t \in Terminals : Starting(t)
  BY <1>0, <1>3, UndisturbedBegin
<1>4. CASE /\ run' = [run EXCEPT ![Dashboard] = Idle]
           /\ UNCHANGED <<dir, outside, cached, commands, faults>>
  <2>1. run'[Dashboard] = Idle
    BY <1>0, <1>4
  <2>2. Idle.kind = "none" /\ Idle.at = "done" /\ ~Idle.alone
    BY DEF Idle
  <2>3. /\ \A u \in Terminals \ {Dashboard} : run'[u] = run[u]
        /\ UNCHANGED <<dir, running>>
    BY <1>0, <1>4 DEF outside
  <2>4. /\ ~Busy(Dashboard)' /\ ~run'[Dashboard].alone
        /\ run'[Dashboard].kind = "none" /\ run'[Dashboard].at = "done"
    BY <2>1, <2>2 DEF Busy
  <2>5. QED BY <1>1, <2>3, <2>4
<1>5. CASE \E t \in Terminals : StacksStep(t)
  BY <1>0, <1>5, UndisturbedStep
<1>6. CASE Domain
  <2>1. /\ run' = [run EXCEPT ![Dashboard] = run'[Dashboard]]
        /\ run'[Dashboard].host = run[Dashboard].host
        /\ run'[Dashboard].kind = run[Dashboard].kind
        /\ run'[Dashboard].alone = run[Dashboard].alone
        /\ Busy(Dashboard)
    BY <1>0, <1>6, StepRun
  <2>2. run[Dashboard].at = "domain" /\ run[Dashboard].kind \in DomainKinds
    BY <1>0, <1>6 DEF Domain, StacksInv, Fits
  <2>3. run'[Dashboard].at = "done"
    BY <1>0, <1>6 DEF Domain, Ends, FailsWith, Locals
  <2>4. UNCHANGED <<dir, running>>
    BY <1>6 DEF Domain
  <2>5. \A u \in Terminals \ {Dashboard} : run'[u] = run[u]
    BY <1>0, <2>1
  <2>6. QED BY <1>1, <2>1, <2>2, <2>3, <2>4, <2>5
<1>7. QED BY StacksNext, <1>2, <1>3, <1>4, <1>5, <1>6

\* What a command says it has done is so, when no other command has taken its
\* host since it began: for any hosts, terminals and profiles, any number of
\* commands and of faults.
THEOREM ReportsTrue == Spec => []ReportsHold
<1>1. Init => Undisturbed
  <2>1. ~Idle.alone
    BY DEF Idle
  <2>2. QED BY <2>1 DEF Init, StacksInit, Undisturbed
<1>2. Inv /\ Undisturbed /\ [Next]_vars => Undisturbed'
  BY UndisturbedNext
<1>3. Undisturbed => ReportsHold
  BY DEF Undisturbed, Came, ReportsHold, Busy
<1>4. QED BY <1>1, <1>2, <1>3, Invariant, PTL DEF Spec
=============================================================================
