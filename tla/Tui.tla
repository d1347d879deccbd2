-------------------------------- MODULE Tui ---------------------------------
(* The dashboard: one thread, one dialog at a time, and handlers that run a *)
(* command, list the stacks again and probe the one that is shown.  The     *)
(* selection is a row number; timers and `r` list the stacks again whatever *)
(* is on the screen, in one step here.  In the other terminals run the      *)
(* commands of Stacks.                                                      *)
EXTENDS Stacks

CONSTANTS
  Dashboard,  \* the terminal of the dashboard
  Apex,       \* bare domains
  Parent,     \* the bare domain a hostname is below, or None
  Rank,       \* the order of the names
  Tools       \* rows above the stacks; they differ only in their commands

ASSUME DashboardAssumption == Dashboard \in Terminals
ASSUME NamingAssumption ==
  /\ IsFiniteSet(Hosts)
  /\ Apex \subseteq Hosts
  /\ Parent \in [Hosts -> Apex \cup {None}]
  /\ \A h \in Apex : Parent[h] = None
  /\ Rank \in [Hosts -> Nat]
  /\ \A g, h \in Hosts : Rank[g] = Rank[h] => g = h
ASSUME ToolsAssumption == Tools \in Nat \ {0}

VARIABLES
  shown,    \* hosts in the snapshot
  index,    \* selected_control_index
  dialog,   \* the dialog on the screen, with what its callback captured
  pending,  \* pending_create_request
  views,    \* the views of each host: None, current, outdated by a command of
            \* the dashboard, or changed elsewhere since they were probed
  timers,   \* hosts with a follow-up refresh to come
  phase     \* idle, or running a command, which holds the thread

screen == <<shown, index, dialog, pending, views, timers, phase>>
vars == <<stacksVars, screen>>

Others == Terminals \ {Dashboard}
DomainKinds == {"domain-add", "domain-repair", "domain-remove"}
Delayed == Lifecycle \cup DomainKinds

\* What a create is to do, and how far it has come with a bare domain.
Requests ==
  [host : Hosts, domain : {"to do", "done", "none"}, profile : Profiles \cup {None},
   network : Networks \cup {None}]

ASSUME ScreenAssumption == None \notin Requests \cup {"current", "outdated", "elsewhere"}

NoDialog == [kind |-> "none", host |-> None, does |-> "none"]

\* What the three views of a host say.
Probed(h) == [dir |-> dir[h], network |-> Effective(h), up |-> h \in running,
              wired |-> h \in wired]

\* A change of what was probed makes the views old.
Ages(how) ==
  /\ views' = [h \in Hosts |->
       IF views[h] = "current" /\ Probed(h)' # Probed(h) THEN how ELSE views[h]]
  /\ UNCHANGED <<shown, index, dialog, pending, timers, phase>>

-----------------------------------------------------------------------------
(* The rows: tools, then the stacks, each below its bare domain if that is  *)
(* listed.                                                                  *)

Child(h, s) == Parent[h] \in s
Group(h, s) == IF Child(h, s) THEN Parent[h] ELSE h

Before(g, h, s) ==
  \/ Rank[Group(g, s)] < Rank[Group(h, s)]
  \/ Group(g, s) = Group(h, s) /\ ~Child(g, s) /\ Child(h, s)
  \/ /\ Group(g, s) = Group(h, s)
     /\ Child(g, s) = Child(h, s)
     /\ Rank[g] < Rank[h]

Row(h, s) == Tools + Cardinality({g \in s : Before(g, h, s)})
Rows(s) == Tools + Cardinality(s)
HostAt(i, s) == IF \E h \in s : Row(h, s) = i THEN CHOOSE h \in s : Row(h, s) = i ELSE None
Selected == HostAt(index, shown)

\* One row too far.
ClampedToLength(i, s) == IF i <= Rows(s) THEN i ELSE Rows(s)

Clamped(i, s) == IF i < Rows(s) THEN i ELSE Rows(s) - 1

\* A render probes the selected stack if it has no views.
Shows(h, old) == [g \in Hosts |-> IF g = h /\ old[g] = None THEN "current" ELSE old[g]]

-----------------------------------------------------------------------------
(* The handlers.                                                            *)

Free == phase = "idle" /\ dialog = NoDialog

\* next and previous, a click on a row, a click on a summary card
Move ==
  /\ Free
  /\ \E i \in 0..(Rows(shown) - 1) :
       /\ i # index
       /\ index' = i
       /\ views' = Shows(HostAt(i, shown), views)
       /\ UNCHANGED <<stacksVars, shown, dialog, pending, timers, phase>>

Opens(kind, h, does) == dialog' = [kind |-> kind, host |-> h, does |-> does]

\* run_stack_action: cleanup is forced, the rest is not.
Runs(kind, h, force, profile, network) ==
  /\ phase' = "run"
  /\ CASE kind \in Lifecycle -> Lifecycles(Dashboard, kind, h)
       [] kind = "cleanup" -> Cleans(Dashboard, h, TRUE)
       [] kind = "scaffold" -> Scaffolds(Dashboard, h, force, profile, network)
       [] kind = "doctor" -> Begin(Dashboard, Command("doctor", h, "done"))
       [] kind \in DomainKinds -> Begin(Dashboard, Command(kind, h, "domain"))

\* u, t, x, g, i and, for a bare domain, p
Press ==
  /\ Free
  /\ Acts
  /\ Selected # None
  /\ \E kind \in Lifecycle \cup {"doctor", "scaffold", "domain-repair"} :
       /\ kind = "domain-repair" => Selected \in Apex
       /\ Runs(kind, Selected, FALSE, None, None)
  /\ UNCHANGED <<dir, outside, cached, faults, shown, index, dialog, pending, views, timers>>

\* enter, a, n and m: a menu, the templates, and for a bare domain a question.
Ask ==
  /\ Free
  /\ Selected # None
  /\ \/ Opens("menu", Selected, "none")
     \/ Opens("template", Selected, "scaffold")
     \/ /\ Selected \in Apex
        /\ \E kind \in {"domain-add", "domain-remove"} : Opens("confirm", Selected, kind)
  /\ UNCHANGED <<stacksVars, shown, index, pending, views, timers, phase>>

InDialog(kind) == phase = "idle" /\ dialog.kind = kind

\* The menu leads to another dialog ...
ChooseDialog ==
  /\ InDialog("menu")
  /\ \/ Opens("template", dialog.host, "scaffold")
     \/ Opens("confirm", dialog.host, "cleanup")
     \/ /\ dialog.host \in Apex
        /\ \E kind \in {"domain-add", "domain-remove"} : Opens("confirm", dialog.host, kind)
  /\ UNCHANGED <<stacksVars, shown, index, pending, views, timers, phase>>

\* ... or to a command.
Choose ==
  /\ InDialog("menu")
  /\ Acts
  /\ dialog' = NoDialog
  /\ \E kind \in Lifecycle \cup {"doctor", "scaffold", "domain-repair"} :
       /\ kind = "domain-repair" => dialog.host \in Apex
       /\ Runs(kind, dialog.host, FALSE, None, None)
  /\ UNCHANGED <<dir, outside, cached, faults, shown, index, pending, views, timers>>

\* A confirmation that runs its command on the selected row.
ConfirmSelected ==
  /\ phase = "idle"
  /\ dialog.kind \in {"template", "confirm"}
  /\ Selected # None
  /\ Acts
  /\ dialog' = NoDialog
  /\ Runs(dialog.does, Selected, FALSE, None, None)
  /\ UNCHANGED <<dir, outside, cached, faults, shown, index, pending, views, timers>>

\* _complete_app_init_prompt, _complete_domain_confirmation and
\* _complete_cleanup_confirmation
Confirm ==
  /\ phase = "idle"
  /\ dialog.kind \in {"template", "confirm"}
  /\ Acts
  /\ dialog' = NoDialog
  /\ Runs(dialog.does, dialog.host, FALSE, None, None)
  /\ UNCHANGED <<dir, outside, cached, faults, shown, index, pending, views, timers>>

\* Escape, no, and a hostname that is none.  A create is then forgotten.
Cancel ==
  /\ phase = "idle"
  /\ dialog # NoDialog
  /\ dialog' = NoDialog
  /\ pending' = IF dialog.kind \in {"create", "overwrite"} THEN None ELSE pending
  /\ UNCHANGED <<stacksVars, shown, index, views, timers, phase>>

-----------------------------------------------------------------------------
(* The create flow.                                                         *)

CreateStack ==
  /\ Free
  /\ pending' = None
  /\ Opens("create", None, "hostname")
  /\ UNCHANGED <<stacksVars, shown, index, views, timers, phase>>

CreateHostname ==
  /\ InDialog("create")
  /\ dialog.does = "hostname"
  /\ \E h \in Hosts :
       pending' = [host |-> h, domain |-> IF h \in Apex THEN "to do" ELSE "none",
                   profile |-> None, network |-> None]
  /\ Opens("create", None, "answers")
  /\ UNCHANGED <<stacksVars, shown, index, views, timers, phase>>

\* _run_pending_create_request: a bare domain is added first, once.
RunsPending(request, force) ==
  IF request.domain = "to do" THEN Runs("domain-add", request.host, FALSE, None, None)
  ELSE Runs("scaffold", request.host, force, request.profile, request.network)

\* The prompts for mode, template, profile, docker network and ingress target
\* are one here; they only collect answers.
CreateAnswers ==
  /\ InDialog("create")
  /\ dialog.does = "answers"
  /\ Acts
  /\ dialog' = NoDialog
  /\ \E p \in Profiles \cup {None}, n \in Networks \cup {None} :
       /\ pending' = [pending EXCEPT !.profile = p, !.network = n]
       /\ RunsPending(pending', FALSE)
  /\ UNCHANGED <<dir, outside, cached, faults, shown, index, views, timers>>

\* A second chance to overwrite what is there.  Nothing leads here, see
\* AsksToOverwrite, so Next leaves it out.
Overwrite ==
  /\ InDialog("overwrite")
  /\ dialog' = NoDialog
  /\ RunsPending(pending, TRUE)
  /\ UNCHANGED <<dir, outside, cached, commands, faults, shown, index, pending, views, timers>>

Ran == phase = "run" /\ ~Busy(Dashboard)

\* Only a domain add that worked leads on to the scaffold.
DomainAdded ==
  /\ Ran
  /\ pending # None
  /\ run[Dashboard].kind = "domain-add"
  /\ run[Dashboard].ok
  /\ pending' = [pending EXCEPT !.domain = "done"]
  /\ RunsPending(pending', FALSE)
  /\ UNCHANGED <<dir, outside, cached, commands, faults, shown, index, dialog, views, timers>>

\* The messages in which the dashboard finds "already exist".
MentionsExisting(message) == message = "generated files already exist"

AsksToOverwrite ==
  /\ pending # None
  /\ run[Dashboard].kind = "scaffold"
  /\ ~run[Dashboard].ok
  /\ ~run[Dashboard].force
  /\ MentionsExisting(run[Dashboard].error)

\* The list is read again, the views are dropped, and the selection is the host
\* of the command if it is listed, else the same row as far as there are rows.
\* The host is probed if it is listed, and the render probes the selected one.
Snapshot(host, reselect) ==
  /\ shown' = Listed
  /\ index' = IF reselect /\ host \in Listed THEN Row(host, Listed) ELSE Clamped(index, Listed)
  /\ views' = [h \in Hosts |->
       IF (h = host /\ h \in Listed) \/ h = HostAt(index', Listed) THEN "current" ELSE None]

\* The command is done and the screen is drawn with what it had.
FinishUnrefreshed ==
  /\ Ran
  /\ ~(pending # None /\ run[Dashboard].kind = "domain-add" /\ run[Dashboard].ok)
  /\ phase' = "idle"
  /\ pending' = None
  /\ run' = [run EXCEPT ![Dashboard] = Idle]
  /\ UNCHANGED <<dir, outside, cached, commands, faults, shown, index, dialog, views, timers>>

\* The command is done: a question, or its result with the list read again, and
\* once more two seconds after commands that take effect late.
Finish ==
  /\ Ran
  /\ ~(pending # None /\ run[Dashboard].kind = "domain-add" /\ run[Dashboard].ok)
  /\ phase' = "idle"
  /\ IF AsksToOverwrite
     THEN /\ Opens("overwrite", None, "scaffold")
          /\ UNCHANGED <<shown, index, pending, views, timers>>
     ELSE /\ pending' = None
          /\ Snapshot(run[Dashboard].host, TRUE)
          /\ timers' = IF run[Dashboard].kind \in Delayed
                       THEN timers \cup {run[Dashboard].host} ELSE timers
          /\ UNCHANGED dialog
  /\ run' = [run EXCEPT ![Dashboard] = Idle]
  /\ UNCHANGED <<dir, outside, cached, commands, faults>>

\* r, the timer of --refresh-seconds, and what a tool's command ends with.
Refresh ==
  /\ phase = "idle"
  /\ Snapshot(None, FALSE)
  /\ UNCHANGED <<stacksVars, dialog, pending, timers, phase>>

\* Two seconds after the command.
Delay(h) ==
  /\ phase = "idle"
  /\ h \in timers
  /\ timers' = timers \ {h}
  /\ Snapshot(h, FALSE)
  /\ UNCHANGED <<stacksVars, dialog, pending, phase>>

-----------------------------------------------------------------------------
(* Commands that only the dashboard runs here, and the other terminals.     *)

\* `domain add`, `repair` and `remove` are DomainCommands' subject.
Domain ==
  /\ run[Dashboard].at = "domain"
  /\ LET h == run[Dashboard].host
         wanted == IF run[Dashboard].kind = "domain-remove" THEN wired \ {h} ELSE wired \cup {h}
     IN \/ wired' = wanted /\ Ends(Dashboard)
        \/ wired' \in {wired, wanted} /\ FailsWith(Dashboard, "failed")
  /\ UNCHANGED <<dir, running, cached, commands, faults>>
  /\ Ages("outdated")

DashboardStep == StacksStep(Dashboard) /\ Ages("outdated")

OtherCommand(t) ==
  /\ ~Busy(t)
  /\ Acts
  /\ \E h \in Hosts :
       \/ \E kind \in Lifecycle : Lifecycles(t, kind, h)
       \/ \E force \in BOOLEAN : Cleans(t, h, force)
       \/ \E force \in BOOLEAN : Scaffolds(t, h, force, None, None)
  /\ UNCHANGED <<dir, outside, cached, faults>>
  /\ Ages("elsewhere")

OtherStep(t) == StacksStep(t) /\ Ages("elsewhere")

Cache == RefreshCache /\ Ages("elsewhere")

Init ==
  /\ StacksInit
  /\ shown = Listed
  /\ index = 0
  /\ dialog = NoDialog
  /\ pending = None
  /\ views = [h \in Hosts |-> None]
  /\ timers = {}
  /\ phase = "idle"

Next ==
  \/ Move \/ Press \/ Ask \/ ChooseDialog \/ Choose \/ Confirm \/ Cancel
  \/ CreateStack \/ CreateHostname \/ CreateAnswers
  \/ DomainAdded \/ Finish
  \/ Refresh \/ Domain \/ DashboardStep
  \/ \E h \in Hosts : Delay(h)
  \/ \E t \in Others : OtherCommand(t) \/ OtherStep(t)
  \/ Cache

Spec == Init /\ [][Next]_vars

-----------------------------------------------------------------------------
(* Properties.                                                              *)

\* The variables have their types, and the selected row is one of the list
\* that is shown.
TypeOK ==
  /\ dir \in [Hosts -> Dirs]
  /\ running \subseteq Hosts /\ wired \subseteq Apex /\ cached \subseteq Hosts
  /\ \A t \in Terminals : run[t].host \in Hosts \cup {None} /\ run[t].error \in Messages
  /\ commands \in 0..MaxCommands /\ faults \in 0..MaxFaults
  /\ shown \subseteq Hosts
  /\ index \in 0..(Rows(shown) - 1)
  /\ dialog.host \in Hosts \cup {None}
  /\ pending \in Requests \cup {None}
  /\ views \in [Hosts -> {None, "current", "outdated", "elsewhere"}] /\ timers \subseteq Hosts

\* A command that says ok, and that no other command for its host came between,
\* has done it: containers run after up and restart and none after down; after a
\* cleanup the directory is gone, and no containers run if it says that it ran
\* docker compose down; and a scaffold's settings lead back to the network its
\* compose file was rendered with.
ReportsHold ==
  \A t \in Terminals : LET c == run[t] IN
    ~Busy(t) /\ c.ok /\ c.alone =>
      CASE c.kind \in {"up", "restart"} -> c.host \in running
        [] c.kind = "down" -> c.host \notin running
        [] c.kind = "cleanup" -> /\ ~dir[c.host].exists
                                 /\ "down" \in c.did => c.host \notin running
        [] c.kind = "scaffold" -> /\ dir[c.host].compose = c.network
                                  /\ Effective(c.host) = c.network
        [] OTHER -> TRUE

Starts == phase' = "run" /\ (phase # "run" \/ pending' # pending)

\* What the dashboard runs is what its screen asked for: the row that is
\* highlighted, the host a dialog names although the list behind it may have
\* changed, or the host of the create flow; and a create scaffolds a bare
\* domain only behind a domain add that worked.
RunsWhatWasAsked ==
  [][Starts =>
       LET c == run'[Dashboard] IN
       /\ Free => c.host = Selected
       /\ phase = "idle" /\ dialog.host # None => c.host = dialog.host
       /\ pending' # None => c.host = pending'.host
       /\ pending' # None /\ c.kind = "scaffold" /\ c.host \in Apex =>
            LET before == run[Dashboard] IN
            \/ pending.domain = "done"
            \/ before.kind = "domain-add" /\ before.host = c.host /\ before.ok]_vars

\* While the dashboard waits, a view of a stack is what a probe would say,
\* unless another terminal has changed the stack since.
ViewsAreCurrent ==
  phase = "idle" => \A h \in Hosts : views[h] # "outdated"

\* A create whose scaffold reports that generated files already exist asks
\* whether to overwrite them.
OverwriteIsAsked ==
  [][/\ Ran
     /\ pending # None
     /\ run[Dashboard].kind = "scaffold"
     /\ run[Dashboard].error = Refusal
     /\ phase' # "run"
     => dialog'.kind = "overwrite"]_vars
=============================================================================
