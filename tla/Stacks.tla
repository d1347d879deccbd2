------------------------------- MODULE Stacks -------------------------------
(* The commands that make, run and delete a stack: `site init` and `app    *)
(* init`, `up`, `down`, `restart` and `cleanup`, in several terminals at   *)
(* once and with no lock between them.  Docker is external.  Of what a     *)
(* stack is rendered with only the docker network is kept: the ingress     *)
(* target goes the same way.                                               *)
EXTENDS Naturals, FiniteSets

CONSTANTS
  Hosts,        \* hostnames of stacks
  Terminals,    \* where commands run
  Networks,     \* docker networks
  Profiles,     \* routing profiles
  Global,       \* the network of the config
  ProfileNetwork, \* the network of each profile; None when there is no such profile
  None,
  MaxCommands,  \* bound on the commands
  MaxFaults     \* bound on failures of docker and of the disk

ASSUME NoneAssumption == None \notin Networks \cup Profiles \cup Hosts
ASSUME NamesAssumption ==
  /\ Global \in Networks
  /\ ProfileNetwork \in [Profiles -> Networks \cup {None}]
  /\ "emptied" \notin Networks \cup {None}
ASSUME StacksBoundsAssumption == MaxCommands \in Nat /\ MaxFaults \in Nat

VARIABLES
  dir,       \* the directories in the sites root
  running,   \* hosts whose containers run
  wired,     \* hosts whose DNS and ingress lead to the tunnel
  cached,    \* hosts with a row in the state database
  run,       \* the command in each terminal, and its result
  commands,
  faults

outside == <<running, wired>>
stacksVars == <<dir, outside, cached, run, commands, faults>>

\* compose is the network docker-compose.yml was rendered with, or "emptied";
\* settings is what homesrvctl.yml pins.
Settings == [profile : Profiles \cup {None}, network : Networks \cup {None}]
Dirs == [exists : BOOLEAN, compose : Networks \cup {None, "emptied"},
         settings : Settings \cup {None}]

ASSUME PinsAssumption == None \notin Settings

Unpinned == [profile |-> None, network |-> None]
NoDir == [exists |-> FALSE, compose |-> None, settings |-> None]

Present == {h \in Hosts : dir[h].exists}

Lifecycle == {"up", "down", "restart"}

\* What a command that failed says; did holds the steps it reports as done.
Refusal == "refusing to overwrite existing file without --force"
Messages == {"", "failed", Refusal}

Idle == [kind |-> "none", host |-> None, force |-> FALSE, profile |-> None,
         network |-> None, settings |-> Unpinned, at |-> "done", ok |-> FALSE,
         error |-> "", did |-> {}, alone |-> FALSE]

Busy(t) == run[t].at # "done"

-----------------------------------------------------------------------------
(* Settings: global < profile < what the stack pins.                       *)

\* The network without anything pinned: None when the profile is unknown.
Base(profile) == IF profile = None THEN Global ELSE ProfileNetwork[profile]

\* load_stack_settings: an unknown profile is refused whatever is pinned.
Effective(h) ==
  LET local == IF dir[h].settings = None THEN Unpinned ELSE dir[h].settings IN
  IF Base(local.profile) = None \/ local.network = None
  THEN Base(local.profile) ELSE local.network

\* render_stack_settings pins only what differs from the base.
Pinned(profile, network) ==
  [profile |-> profile, network |-> IF network = Base(profile) THEN None ELSE network]

\* The operator starts a command.
Acts == commands < MaxCommands /\ commands' = commands + 1

-----------------------------------------------------------------------------
(* Commands begin.  A command is alone until another one takes its host.   *)

Command(kind, h, at) == [Idle EXCEPT !.kind = kind, !.host = h, !.at = at,
                                     !.error = IF at = "done" THEN "failed" ELSE ""]

Begin(t, command) ==
  run' = [u \in Terminals |->
    IF u = t THEN [command EXCEPT !.alone =
                     \A v \in Terminals \ {t} : Busy(v) => run[v].host # command.host]
    ELSE [run[u] EXCEPT !.alone = @ /\ run[u].host # command.host]]

\* _resolve_stack_dir
Resolves(h) == dir[h].exists /\ dir[h].compose # None

FirstOf(kind) == IF kind = "up" THEN "up" ELSE "down"

Lifecycles(t, kind, h) ==
  Begin(t, Command(kind, h, IF Resolves(h) THEN FirstOf(kind) ELSE "done"))

\* Without --force it is refused; without docker-compose.yml nothing is stopped.
Cleans(t, h, force) ==
  Begin(t, Command("cleanup", h,
    IF ~dir[h].exists \/ ~force THEN "done"
    ELSE IF dir[h].compose # None THEN "down" ELSE "remove"))

\* Network and settings are rendered before anything is written; an unknown
\* profile is refused.
Scaffolds(t, h, force, profile, network) ==
  LET settled == IF network = None THEN Base(profile) ELSE network
      known == Base(profile) # None
  IN Begin(t, [Command("scaffold", h, IF known THEN "compose" ELSE "done")
               EXCEPT !.force = force, !.profile = profile, !.network = settled,
                      !.settings = Pinned(profile, settled)])

-----------------------------------------------------------------------------
(* The steps of a command.                                                 *)

Goes(t, at) == run' = [run EXCEPT ![t].at = at, ![t].did = @ \cup {run[t].at}]
Ends(t) == run' = [run EXCEPT ![t].at = "done", ![t].did = @ \cup {run[t].at}, ![t].ok = TRUE]
FailsWith(t, message) == run' = [run EXCEPT ![t].at = "done", ![t].error = message]

Fault == faults < MaxFaults /\ faults' = faults + 1

Composable(h) == dir[h].compose \in Networks

AfterDown(t) ==
  CASE run[t].kind = "down" -> Ends(t)
    [] run[t].kind = "restart" -> Goes(t, "up")
    [] run[t].kind = "cleanup" -> Goes(t, "remove")

Down(t) ==
  /\ run[t].at = "down"
  /\ Composable(run[t].host)
  /\ running' = running \ {run[t].host}
  /\ AfterDown(t)
  /\ UNCHANGED <<dir, wired, cached, commands, faults>>

Up(t) ==
  /\ run[t].at = "up"
  /\ Composable(run[t].host)
  /\ running' = running \cup {run[t].host}
  /\ Ends(t)
  /\ UNCHANGED <<dir, wired, cached, commands, faults>>

\* What docker may leave when it fails at one of its two commands.
Broken(t) == {running, IF run[t].at = "up" THEN running \cup {run[t].host}
                       ELSE running \ {run[t].host}}

\* A failure that is not looked at.
DockerFailsUnseen(t) ==
  /\ run[t].at \in {"up", "down"}
  /\ \/ ~Composable(run[t].host) /\ UNCHANGED <<running, faults>>
     \/ Composable(run[t].host) /\ Fault /\ running' \in Broken(t)
  /\ IF run[t].at = "up" THEN FailsWith(t, "failed") ELSE AfterDown(t)
  /\ UNCHANGED <<dir, wired, cached, commands>>

\* No directory to run in, no compose file that parses, or an error of docker.
DockerFails(t) ==
  /\ run[t].at \in {"up", "down"}
  /\ \/ ~Composable(run[t].host) /\ UNCHANGED <<running, faults>>
     \/ Composable(run[t].host) /\ Fault /\ running' \in Broken(t)
  /\ FailsWith(t, "failed")
  /\ UNCHANGED <<dir, wired, cached, commands>>

Remove(t) ==
  /\ run[t].at = "remove"
  /\ dir[run[t].host].exists
  /\ dir' = [dir EXCEPT ![run[t].host] = NoDir]
  /\ Ends(t)
  /\ UNCHANGED <<outside, cached, commands, faults>>

\* rmtree finds nothing, or stops at what it may not delete: any of the files
\* may be gone.
RemoveFails(t) ==
  LET h == run[t].host IN
  /\ run[t].at = "remove"
  /\ \/ ~dir[h].exists /\ UNCHANGED <<dir, faults>>
     \/ /\ dir[h].exists
        /\ Fault
        /\ \E compose \in {None, dir[h].compose}, settings \in {None, dir[h].settings} :
             dir' = [dir EXCEPT ![h].compose = compose, ![h].settings = settings]
  /\ FailsWith(t, "failed")
  /\ UNCHANGED <<outside, cached, commands>>

\* write_text_file looks whether the file is there before it writes, so two
\* scaffolds may both find nothing.
CheckFile(t) ==
  LET c == run[t]
      there == IF c.at = "compose" THEN dir[c.host].compose ELSE dir[c.host].settings IN
  /\ c.at \in {"compose", "settings"}
  /\ IF there # None /\ ~c.force THEN FailsWith(t, Refusal)
     ELSE Goes(t, IF c.at = "compose" THEN "write compose" ELSE "write settings")
  /\ UNCHANGED <<dir, outside, cached, commands, faults>>

\* docker-compose.yml is the first file of every template.  A directory that
\* was removed meanwhile is made again.
WriteCompose(t) ==
  LET h == run[t].host IN
  /\ run[t].at = "write compose"
  /\ \/ /\ dir' = [dir EXCEPT ![h].exists = TRUE, ![h].compose = run[t].network]
        /\ Goes(t, "settings")
        /\ UNCHANGED faults
     \/ /\ Fault
        /\ dir' = [dir EXCEPT ![h].exists = TRUE, ![h].compose = "emptied"]
        /\ FailsWith(t, "failed")
  /\ UNCHANGED <<outside, cached, commands>>

\* homesrvctl.yml is the last.  What was written before a refusal stays.
\* Emptied, it pins nothing.
WriteSettings(t) ==
  LET h == run[t].host IN
  /\ run[t].at = "write settings"
  /\ \/ /\ dir' = [dir EXCEPT ![h].exists = TRUE, ![h].settings = run[t].settings]
        /\ Ends(t)
        /\ UNCHANGED faults
     \/ /\ Fault
        /\ dir' = [dir EXCEPT ![h].exists = TRUE, ![h].settings = Unpinned]
        /\ FailsWith(t, "failed")
  /\ UNCHANGED <<outside, cached, commands>>

StacksStep(t) ==
  \/ Down(t) \/ Up(t) \/ DockerFails(t)
  \/ Remove(t) \/ RemoveFails(t)
  \/ CheckFile(t) \/ WriteCompose(t) \/ WriteSettings(t)

-----------------------------------------------------------------------------
(* Beside the commands.                                                    *)

\* A refresh of the daemon or of a command; only a rebuild forgets rows.
RefreshCache ==
  /\ cached' \in {cached \cup Present, Present}
  /\ cached' # cached
  /\ Acts
  /\ UNCHANGED <<dir, outside, run, faults>>

\* list --cached when it has anything to say, list otherwise.
Listed == IF cached # {} THEN cached ELSE Present

StacksInit ==
  /\ \E made \in SUBSET Hosts :
       /\ dir = [h \in Hosts |->
            IF h \in made THEN [exists |-> TRUE, compose |-> Global, settings |-> Unpinned]
            ELSE NoDir]
       /\ running \in SUBSET made
  /\ wired = {}
  /\ cached \in {{}, Hosts}
  /\ run = [t \in Terminals |-> Idle]
  /\ commands = 0
  /\ faults = 0
=============================================================================
