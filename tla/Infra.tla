-------------------------------- MODULE Infra --------------------------------
(* `infra render mail`, `infra plan mail` and `infra apply mail`, run side   *)
(* by side in one workspace: the generated files, OpenTofu, the saved plan,  *)
(* and the rows of the tables operations and events.  OpenTofu is external:  *)
(* it locks its state, so a plan or an apply is one step.                    *)
EXTENDS Naturals, Sequences, FiniteSets, SequencesExt

CONSTANTS
  Processes,    \* terminals in which the commands run
  Settings,     \* what the options can ask for: MailWorkspaceConfig
  None,         \* no file, no plan, no settings
  Torn,         \* a file cut off in the middle of write_text
  MaxRows,      \* bound on the plans and applies
  MaxRenders,   \* bound on the commands that only render
  MaxFaults     \* bound on kills and errors of the database or the disk

ASSUME SettingsAssumption ==
  /\ None \notin Settings
  /\ Torn \notin Settings
  /\ Torn # None
  /\ "rendered" \notin Settings \cup {None, Torn}
ASSUME BoundsAssumption == MaxRows \in Nat /\ MaxRenders \in Nat /\ MaxFaults \in Nat

VARIABLES
  exists,   \* whether the directory of the workspace exists
  files,    \* its generated files
  plan,     \* tfplan: the settings it was made from and the serial it needs
  live,     \* what OpenTofu has built: settings, or Torn after a failed apply
  serial,   \* the serial of OpenTofu's state
  applied,  \* rows whose command had OpenTofu apply a plan to the end
  rows,     \* the table operations
  events,   \* the events of source infra.opentofu, by their age
  lost,     \* rows whose command died before it closed them
  proc,     \* the command in each terminal
  renders,
  faults

workspace == <<exists, files, plan>>
cloud == <<live, serial, applied>>
journal == <<rows, events, lost>>
vars == <<workspace, cloud, journal, proc, renders, faults>>

\* _workspace_files, in the order they are written; only the variables depend
\* on the options.
Files == <<"main.tf", "variables.tf", "outputs.tf", "terraform.tfvars.json", "README.md">>
FileNames == {"main.tf", "variables.tf", "outputs.tf", "terraform.tfvars.json", "README.md"}
Rendered(f, s) == IF f = "terraform.tfvars.json" THEN s ELSE "rendered"

Kinds == {"render", "plan", "apply"}
Steps == {"idle", "start", "inspect", "write", "init", "plan", "apply", "event", "finish"}

Idle == [at |-> "idle", kind |-> "render", settings |-> None, refresh |-> FALSE,
         flag |-> FALSE, next |-> 1, op |-> 0, ok |-> FALSE, event |-> FALSE,
         alone |-> FALSE, fresh |-> FALSE]

Nonempty == plan # None \/ \E f \in FileNames : files[f] # None

\* OpenTofu needs the configuration and a value for every variable.
Plannable ==
  /\ files["main.tf"] = "rendered"
  /\ files["variables.tf"] = "rendered"
  /\ files["outputs.tf"] # Torn
  /\ files["terraform.tfvars.json"] \in Settings

Init ==
  /\ exists = FALSE
  /\ files = [f \in FileNames |-> None]
  /\ plan = None
  /\ live = None
  /\ serial = 0
  /\ applied = {}
  /\ rows = <<>>
  /\ events = <<>>
  /\ lost = {}
  /\ proc = [p \in Processes |-> Idle]
  /\ renders = 0
  /\ faults = 0

-----------------------------------------------------------------------------
(* The commands begin.  A command is alone until another one begins.       *)

Alone(p) == \A q \in Processes \ {p} : proc[q].at = "idle"

Begin(p, command) ==
  /\ proc[p].at = "idle"
  /\ proc' = [q \in Processes |->
       IF q = p THEN [command EXCEPT !.alone = Alone(p)]
       ELSE [proc[q] EXCEPT !.alone = FALSE]]

\* A workspace that holds anything is left alone without --force; a dry run and
\* a refused one change nothing.
Render(p) ==
  /\ renders < MaxRenders
  /\ \E s \in Settings, force \in BOOLEAN :
       /\ Nonempty => force
       /\ Begin(p, [Idle EXCEPT !.at = "write", !.settings = s])
  /\ exists' = TRUE
  /\ renders' = renders + 1
  /\ UNCHANGED <<files, plan, cloud, journal, faults>>

\* The row that the command will open is still within the bound.
Room == Len(rows) + Cardinality({p \in Processes : proc[p].at = "start"}) < MaxRows

\* --refresh-render and --out.
Plan(p) ==
  /\ Room
  /\ \E s \in Settings, refresh, out \in BOOLEAN :
       Begin(p, [Idle EXCEPT !.at = "start", !.kind = "plan", !.settings = s,
                             !.refresh = refresh, !.flag = out])
  /\ UNCHANGED <<workspace, cloud, journal, renders, faults>>

\* --record-event; without --yes or the typed confirmation nothing begins.
Apply(p) ==
  /\ Room
  /\ \E record \in BOOLEAN :
       Begin(p, [Idle EXCEPT !.at = "start", !.kind = "apply", !.flag = record])
  /\ UNCHANGED <<workspace, cloud, journal, renders, faults>>

\* _start_operation
Start(p) ==
  /\ proc[p].at = "start"
  /\ rows' = Append(rows, [kind |-> proc[p].kind, status |-> "running", event |-> FALSE])
  /\ proc' = [proc EXCEPT ![p].at = "inspect", ![p].op = Len(rows) + 1]
  /\ UNCHANGED <<workspace, cloud, events, lost, renders, faults>>

Result(p, ok) == [proc EXCEPT ![p].at = "finish", ![p].ok = ok]

\* Every early return of a command that has opened a row closes it.
Fails(p) ==
  /\ proc' = Result(p, FALSE)
  /\ UNCHANGED <<workspace, cloud, journal, renders, faults>>

\* An early return that forgets the row.
UnavailableForgets(p) ==
  /\ proc[p].at = "inspect"
  /\ proc' = [proc EXCEPT ![p] = Idle]
  /\ UNCHANGED <<workspace, cloud, journal, renders, faults>>

Unavailable(p) ==
  /\ proc[p].at = "inspect"
  /\ Fails(p)

\* --refresh-render that does not force, and a refusal nobody looks at.
PlanRendersUnforced(p) ==
  /\ proc[p].at = "inspect"
  /\ proc[p].kind = "plan"
  /\ proc[p].refresh \/ ~exists
  /\ exists' = TRUE
  /\ proc' = [proc EXCEPT ![p].at = IF Nonempty THEN "init" ELSE "write", ![p].fresh = TRUE]
  /\ UNCHANGED <<files, plan, cloud, journal, renders, faults>>

\* The files are rendered when the workspace is missing or --refresh-render
\* says so; otherwise the options are not looked at.
PlanRenders(p) ==
  /\ proc[p].at = "inspect"
  /\ proc[p].kind = "plan"
  /\ proc[p].refresh \/ ~exists
  /\ exists' = TRUE
  /\ proc' = [proc EXCEPT ![p].at = "write", ![p].fresh = TRUE]
  /\ UNCHANGED <<files, plan, cloud, journal, renders, faults>>

PlanReuses(p) ==
  /\ proc[p].at = "inspect"
  /\ proc[p].kind = "plan"
  /\ ~proc[p].refresh
  /\ exists
  /\ proc' = [proc EXCEPT ![p].at = "init"]
  /\ UNCHANGED <<workspace, cloud, journal, renders, faults>>

NoSavedPlan(p) ==
  /\ proc[p].at = "inspect"
  /\ proc[p].kind = "apply"
  /\ plan = None
  /\ Fails(p)

ApplyBegins(p) ==
  /\ proc[p].at = "inspect"
  /\ proc[p].kind = "apply"
  /\ plan # None
  /\ proc' = [proc EXCEPT ![p].at = "apply"]
  /\ UNCHANGED <<workspace, cloud, journal, renders, faults>>

\* A loop that goes round once too often.
WriteOneMore(p) ==
  /\ proc[p].at = "write"
  /\ proc[p].next \in DOMAIN Files
  /\ LET f == Files[proc[p].next]
     IN files' = [files EXCEPT ![f] = Rendered(f, proc[p].settings)]
  /\ proc' = IF proc[p].next <= Len(Files) THEN [proc EXCEPT ![p].next = @ + 1]
             ELSE IF proc[p].kind = "render" THEN [proc EXCEPT ![p] = Idle]
             ELSE [proc EXCEPT ![p].at = "init"]
  /\ UNCHANGED <<exists, plan, cloud, journal, renders, faults>>

\* One file of render_mail_workspace.
Write(p) ==
  /\ proc[p].at = "write"
  /\ LET f == Files[proc[p].next]
     IN files' = [files EXCEPT ![f] = Rendered(f, proc[p].settings)]
  /\ proc' = IF proc[p].next < Len(Files) THEN [proc EXCEPT ![p].next = @ + 1]
             ELSE IF proc[p].kind = "render" THEN [proc EXCEPT ![p] = Idle]
             ELSE [proc EXCEPT ![p].at = "init"]
  /\ UNCHANGED <<exists, plan, cloud, journal, renders, faults>>

-----------------------------------------------------------------------------
(* OpenTofu.                                                               *)

TofuInit(p) ==
  /\ proc[p].at = "init"
  /\ proc' = [proc EXCEPT ![p].at = "plan"]
  /\ UNCHANGED <<workspace, cloud, journal, renders, faults>>

TofuFails(p) ==
  /\ proc[p].at \in {"init", "plan"}
  /\ Fails(p)

\* A plan that fails leaves an older file alone.
TofuPlan(p) ==
  /\ proc[p].at = "plan"
  /\ Plannable
  /\ plan' = IF proc[p].flag
             THEN [settings |-> files["terraform.tfvars.json"], serial |-> serial]
             ELSE plan
  /\ proc' = Result(p, TRUE)
  /\ UNCHANGED <<exists, files, cloud, journal, renders, faults>>

AfterApply(p, ok) ==
  [proc EXCEPT ![p].at = IF proc[p].flag THEN "event" ELSE "finish", ![p].ok = ok]

\* OpenTofu refuses a plan that was made from another state than it has.
TofuApply(p) ==
  /\ proc[p].at = "apply"
  /\ plan # None
  /\ plan.serial = serial
  /\ live' = plan.settings
  /\ serial' = IF live = plan.settings THEN serial ELSE serial + 1
  /\ applied' = applied \cup {proc[p].op}
  /\ proc' = AfterApply(p, TRUE)
  /\ UNCHANGED <<workspace, journal, renders, faults>>

\* An exit code nobody looks at.
TofuApplyFailsUnseen(p) ==
  /\ proc[p].at = "apply"
  /\ proc' = AfterApply(p, TRUE)
  /\ UNCHANGED <<workspace, cloud, journal, renders, faults>>

\* It fails before it has changed anything, or half way.
TofuApplyFails(p) ==
  /\ proc[p].at = "apply"
  /\ \/ UNCHANGED cloud
     \/ /\ plan # None
        /\ plan.serial = serial
        /\ live # plan.settings
        /\ live' = Torn
        /\ serial' = serial + 1
        /\ UNCHANGED applied
  /\ proc' = AfterApply(p, FALSE)
  /\ UNCHANGED <<workspace, journal, renders, faults>>

-----------------------------------------------------------------------------
(* The records.                                                            *)

\* _record_apply_event
RecordEvent(p) ==
  /\ proc[p].at = "event"
  /\ events' = Append(events, [op |-> proc[p].op, ok |-> proc[p].ok])
  /\ proc' = [proc EXCEPT ![p].at = "finish", ![p].event = TRUE]
  /\ UNCHANGED <<workspace, cloud, rows, lost, renders, faults>>

Status(ok) == IF ok THEN "completed" ELSE "failed"

\* An UPDATE without its id.
FinishEvery(p) ==
  /\ proc[p].at = "finish"
  /\ rows' = [id \in DOMAIN rows |->
       IF rows[id].kind = proc[p].kind
       THEN [rows[id] EXCEPT !.status = Status(proc[p].ok), !.event = proc[p].event]
       ELSE rows[id]]
  /\ proc' = [proc EXCEPT ![p] = Idle]
  /\ UNCHANGED <<workspace, cloud, events, lost, renders, faults>>

\* _finish_plan_operation and _finish_apply_operation
Finish(p) ==
  /\ proc[p].at = "finish"
  /\ rows' = [rows EXCEPT ![proc[p].op].status = Status(proc[p].ok),
                          ![proc[p].op].event = proc[p].event]
  /\ proc' = [proc EXCEPT ![p] = Idle]
  /\ UNCHANGED <<workspace, cloud, events, lost, renders, faults>>

\* The command is killed, or the database, the disk or a missing binary raises
\* an exception that nothing catches.  The file being written may be cut off.
Dies(p) ==
  /\ proc[p].at # "idle"
  /\ faults < MaxFaults
  /\ faults' = faults + 1
  /\ files' \in {files} \cup
       (IF proc[p].at = "write" THEN {[files EXCEPT ![Files[proc[p].next]] = Torn]} ELSE {})
  /\ lost' = IF proc[p].op = 0 THEN lost ELSE lost \cup {proc[p].op}
  /\ proc' = [proc EXCEPT ![p] = Idle]
  /\ UNCHANGED <<exists, plan, cloud, rows, events, renders>>

\* Saved plans are to be removed after use.
RemovePlan ==
  /\ plan # None
  /\ plan' = None
  /\ UNCHANGED <<exists, files, cloud, journal, proc, renders, faults>>

-----------------------------------------------------------------------------
Step(p) ==
  \/ Start(p) \/ Unavailable(p) \/ PlanRenders(p) \/ PlanReuses(p)
  \/ NoSavedPlan(p) \/ ApplyBegins(p) \/ Write(p)
  \/ TofuInit(p) \/ TofuFails(p) \/ TofuPlan(p) \/ TofuApply(p) \/ TofuApplyFails(p)
  \/ RecordEvent(p) \/ Finish(p)

Next ==
  \/ \E p \in Processes : Render(p) \/ Plan(p) \/ Apply(p) \/ Step(p) \/ Dies(p)
  \/ RemovePlan

\* A command runs on until it ends.
Fairness == \A p \in Processes : WF_vars(Step(p))

Spec == Init /\ [][Next]_vars /\ Fairness

-----------------------------------------------------------------------------
(* Properties.                                                             *)

\* What `operations list --status` and `operations show` say.
Listed(status) == {id \in DOMAIN rows : rows[id].status = status}

\* The state stays within its types: no command works on a row that is not
\* there, or writes a file past the last.
TypeOK ==
  /\ exists \in BOOLEAN
  /\ files \in [FileNames -> {None, Torn, "rendered"} \cup Settings]
  /\ plan \in {None} \cup [settings : Settings, serial : Nat]
  /\ live \in {None, Torn} \cup Settings
  /\ serial \in Nat
  /\ rows \in Seq([kind : {"plan", "apply"},
                  status : {"running", "completed", "failed"}, event : BOOLEAN])
  /\ applied \subseteq DOMAIN rows
  /\ events \in Seq([op : Nat, ok : BOOLEAN])
  /\ lost \subseteq DOMAIN rows
  /\ proc \in [Processes ->
       [at : Steps, kind : Kinds, settings : {None} \cup Settings, refresh : BOOLEAN,
        flag : BOOLEAN, next : 1..Len(Files), op : Nat, ok : BOOLEAN, event : BOOLEAN,
        alone : BOOLEAN, fresh : BOOLEAN]]
  /\ \A p \in Processes : proc[p].op \in {0} \cup DOMAIN rows
  /\ renders \in Nat
  /\ faults \in Nat

\* A row that is listed as running belongs to a command that is still at work
\* on it, or to one that died: no way out of a command leaves its row behind.
RunningHasAnOwner ==
  \A id \in Listed("running") :
    id \in lost \/ \E p \in Processes : proc[p].op = id

\* The row of an apply, its event and OpenTofu tell the same story: completed
\* is said of a plan that was applied to the end, failed of one that was not,
\* and a row that claims an event has it.
ReportsAgree ==
  /\ \A id \in DOMAIN rows : rows[id].kind = "apply" =>
       /\ rows[id].status = "completed" => id \in applied
       /\ rows[id].status = "failed" => id \notin applied
       /\ rows[id].event => \E i \in DOMAIN events : events[i].op = id
  /\ \A i \in DOMAIN events : events[i].ok <=> events[i].op \in applied

\* A plan that has just rendered the workspace and saved its file, while no
\* other command was at work, has planned what its own options ask for.
FreshPlanIsAsAsked ==
  \A p \in Processes :
    /\ proc[p].at = "finish"
    /\ proc[p].kind = "plan"
    /\ proc[p].ok
    /\ proc[p].fresh
    /\ proc[p].flag
    /\ proc[p].alone
    /\ plan # None
    => plan.settings = proc[p].settings

\* The rows keep what the journal of operations promises: each is closed at
\* most once, by its own command, and unless that command dies it is closed.
J == INSTANCE Journal WITH
  status <- [id \in DOMAIN rows |-> rows[id].status],
  lost <- lost

KeepsJournal == J!Spec
=============================================================================
