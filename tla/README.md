# homesrvctl in TLA+

This directory specifies homesrvctl, the command line tool that wires domains
to a home server: Cloudflare DNS records, the ingress list of a `cloudflared`
tunnel, Docker Compose stacks under a *sites root*, and a small SQLite state
database that indexes them. The modules are translated from the Python source
under `homesrvctl/`; `PROJECT.json` maps each definition to the lines it stands
for. TLC checks small instances (`*.cfg`), TLAPS proves the theorems of the
`*Proofs` modules for every value of the constants.

## 1. The system

homesrvctl is a set of short-lived commands, one optional loop (`daemon run`)
and a terminal UI that calls the same services. There is no server and no lock:
what the commands share is on disk, at Cloudflare, or in systemd.

| Component | State it keeps | Operations | Talks to |
|---|---|---|---|
| Stack state cache (`services/refresh.py`, `services/stacks.py`, `state/`) | SQLite tables `stacks`, `stack_observations`, `events`, `operations` | `refresh`, `db init/status/rebuild`, `list --cached/--refresh` | sites root (reads), every component that records events |
| Ingress file (`cloudflared.py`) | the `ingress` list of the cloudflared YAML | reconcile, remove, inspect, report | `cloudflared` reads it when it starts |
| DNS client (`cloudflare.py`) | none (Cloudflare does) | list, create, replace, delete, status of a name; zone and tunnel lookups; create a tunnel | Cloudflare API, no retries, 15 s timeout |
| Domain commands (`commands/domain_cmd.py`) | none | `domain add`, `repair`, `remove`, `status` | DNS client, ingress file, cloudflared service |
| cloudflared service (`cloudflared_service.py`) | none (systemd, Docker) | detect, restart, reload, setup report | systemd, Docker |
| Bootstrap (`bootstrap.py`) | tunnel credentials, cloudflared config, homesrvctl config, unit files | assess, runtime, tunnel, wiring, validate | all of the above |
| Daemon (`services/daemon.py`) | `events` rows | refresh cycles, optional observers, status | stack state cache, observers |
| Daemon unit (`services/daemon_systemd.py`) | a systemd system unit | install, uninstall, start, stop, restart, inspect | systemd |
| Observers (`services/observers/`) | `stack_observations`, `events` rows | observe stacks, cloudflared, Traefik, Cloudflare, SES | Docker, APIs, database |
| Operations journal, infra (`services/operations.py`, `services/infra/`) | `operations` rows, OpenTofu workspace, plan file | render, plan, apply | OpenTofu, database |
| Stack lifecycle, scaffolding (`commands/deploy_cmd.py`, `site_cmd.py`, `app_cmd.py`) | the sites root, containers | init, up, down, restart, cleanup | Docker Compose |
| Config (`config.py`) | YAML files | load, precedence global < profile < stack, update | everybody |
| TUI (`tui/`) | the last payloads, a selection, a prompt | refresh timer, actions, guided flows | the commands, in a subprocess |
| Reports (`validate_cmd.py`, `site_catalog.py`, `adoption.py`, `ports.py`) | none | read only | everybody |

### What is hard

* **Interleaving without locks.** Two commands read, change and write the
  ingress file; two refreshes write the same rows; a rebuild clears under a
  refresh.
* **Several systems, one command.** `domain add` changes two DNS names, then a
  file, then a service, and each of them can fail with the others done.
* **Unanswered requests.** A timeout says nothing about what Cloudflare did.
* **Crash points.** `write_text` empties a file before it fills it; the cache is
  written one transaction per stack.
* **Two readings of one state.** `domain status` decides "ok", "repairable" and
  "manual fix" by code that the mutations do not use.
* **Order as meaning.** Ingress rules match first to last, with wildcards.
* **A loop nobody watches.** The daemon must outlive bad cycles, kills and
  observers that raise, with systemd as its only help, and not fail in silence.
* **Records beside the work.** An operation, its event and what OpenTofu did are
  three writes.
* **A screen that moves.** The dashboard's selection is a row number, and timers
  list the rows again under an open dialog.

The list of hazards with their lines is in `PROJECT.json`.

### What makes the parts correct

* The cache is an index: a row never claims more than the sites root held at its
  stamp, the two tables agree, a refresh without issues covers what it scanned,
  a rebuild forgets the index and nothing else.
* Mutations of a domain do all of it or report a failure; done again they do
  nothing; they leave the routes and the mail records of others alone.
* The report predicts the mutation.
* A restart that is reported has put the change into service.
* A cloudflared config never stands beside another tunnel's credentials, no
  secret of a tunnel is lost, a bootstrap command that ran once can run again, and
  a host that is called ready serves what is added to it.
* A stack that stays is recorded while the daemon is wanted, a heartbeat that
  stands still means clean cycles, `--once` exits with 0 only if all went well.
* What `daemon install` and `uninstall` report lasts through crashes and reboots.
* A row of the operations journal is closed once, by its own command, and says
  what OpenTofu did.
* The dashboard runs what was asked on the stack that was named, and shows no
  view that its own commands have made old.
* A stack command that says ok has done it.

## 2. The modules

```
StackIndex  <--implements--  StateCache  <--  StateCacheProofs
                                 ^-- MCStateCache

Ingress, Dns, Routes  (pure operators)

Dns, Routes  <--  DomainWiring  <--implements--  DomainCommands  <--  DomainCommandsProofs
Ingress, Dns  <--  DomainCommands                     ^-- MCDomainCommands
Dns, Routes  <--  DomainRouting  <--  DomainRoutingProofs
                      ^-- MCDomainRouting

Bootstrap  <--  BootstrapProofs  <--  BootstrapServiceProofs
    ^-- MCBootstrap

Observers (pure operators)  <--  Daemon  <--  DaemonProofs
                                   ^-- MCDaemon

Journal  <--implements--  Infra  <--  InfraProofs
                            ^-- MCInfra

Stacks (commands)  <--  Tui (dashboard)  <--  TuiProofs
                          ^-- MCTui
```

### StackIndex and StateCache

`StackIndex` is what the cache promises, in four actions: time passes, the sites
root changes, one host is recorded with a content it has had since the stamp, or
everything is forgotten.

`StateCache` has the real steps. `disk` is the sites root, `rows` the table
`stacks`, `refreshed` and `observed` the observations of the refresh and of the
runtime observer. `pc`, `op`, `stamp`, `todo`, `scan`, `ok`, `listing` are the
locals of one process running `refresh`, `refresh --stack`, `refresh --dry-run`,
`db rebuild`, `list --refresh` or `observe run`. A SQLite transaction
(`upsert_stack_snapshot`, `clear_local_stack_state`, `add_stack_observation`) is
one step; the listing of the sites root and each `inspect_stack` are steps of
their own, so that the world may change between them. `Abort` is a kill, a config
that cannot be loaded and a SQLite error at once: what was committed stays.
What a directory holds is one of a few *contents*, told apart by what
`inspect_stack` makes of it: a snapshot, a snapshot with an issue, or an
exception. `heldUntil` and `overtaken` are history variables, read by properties
only. The sites root itself missing is possible while no host has a directory.

### Ingress, Dns, DomainCommands and DomainWiring

`Ingress` has the ingress list: which file is well formed, which rule captures a
host name (labels, from the top-level domain down, so that suffixes are
prefixes), what add and remove write, and the two reports, including the slice of
`inspect_cloudflared_config_issues` exactly as the code takes it. What a
comprehension keeps of a list is `InOrder` of the positions it keeps, each at its
rank: the same list `SelectSeq` would give, in a form that can be proved about.
Host names are labels; `StandInsAssumption` tells the missing host name, the empty
one and the unreadable file from everything else, and `HostsAssumption` says that no
other entry is for the domain's two names, for the name its wildcard is probed with,
or for a wildcard above it. `Dns` has the records of one name, in the four kinds the
code tells apart, and the calls `apply_dns_record` and its removal decide on.
`DomainCommands` runs `domain add`
(`repair` is the same function) and `domain remove` as single steps that may stop
where the code stops, between edits by hand of the file and of DNS, and defines
`domain status`. Two DNS records are the most it takes for a conflict beside a
matching CNAME to differ from none; the checks of `RecordIds` of size two do not
see three records of one name, the theorems about DNS do.

`DomainWiring` is what these commands promise, without the list: a file is which
service each hostname has (`Routes`, which DomainRouting shares), a command gets past
no name, the apex, both names or the file, and its outcome says which; what it is
past is wired, or unwired, with at most one record of each name changed and none if
there was nothing to do; its mail records stay, but for an add to a name without a
routing record; it is refused at the file only if an entry for the domain is there
twice or the file cannot be used; and all else is as it was. `View` is the list seen
so. That DomainCommands implements it is why DomainRouting may leave out the order:
to rewrite the list is to rewire the view, whatever the order.

### DomainRouting

The same commands taken apart, by several processes at once: each API request
and each system call on the file is a step. A request may fail before or after it
took effect (`CallApi`, `Fail`), a file is emptied before it is written
(`Truncate`, `WriteBack`, `WriteFails`), a process may be killed anywhere
(`Crash`), the operator edits the file and DNS, the tunnel serves the file it was
started with (`running`). The file is only which service each host name has;
order is DomainCommands' subject, and what a command accepts and writes is the
same in both, by `Routes`. `settled` and `touched` are history variables:
whether a command started with nothing to do, and whether somebody has since
changed what it relies on. `touched` is set by every change to the domain's DNS
or file by another actor, and by writes made of an older reading: a lost update
disturbs everybody.

### Bootstrap

`bootstrap runtime`, `bootstrap tunnel` and `bootstrap wiring` on one host, one
command at a time, each taken apart into its requests and its writes. `tunnels` is
the Cloudflare account, `home` the two settings of the homesrvctl config that
matter (`tunnel_name`, `cloudflared_config`), `conf` and `creds` the cloudflared
configs and credentials files in the shared directory and in one other, `system`
the files under `/etc` and the compose file, `base` what `bootstrap runtime` puts
in place, `writable`, `rooted` and `root` who may write what, `serving` the tunnel
the running service was started with. `pc`, `cmd`, `tid`, `file`, `from`, `plan`
are the locals of the command. The POST of a tunnel may be applied and its answer
lost; a write may be cut short, which leaves an empty file; a command may be
killed between any two steps (`Kill`). Beside the commands the operator edits
`cloudflared_config`, restarts the service, and adds domains. Under `sudo` the
config is root's, which nothing but defaults is ever in, unless the operator works
as root. `Resolved`, `SetupReady` and `Ready` are what `bootstrap validate` reads.

The account id is taken as given; a tunnel is never deleted at Cloudflare; the
credentials of a tunnel are one value, its secret; of an ingress list only matters
whether it has routes.

`told`, `marks`, `promise`, `settled` and `wired` are history variables. `marks`
names the states the code leaves that ReadyServes and CredentialsMatch except:
`halfway` (the cloudflared config names a tunnel that `tunnel_name` does not yet),
`torn` (a wiring stopped between its two files), `guessed` (a wiring took the
credentials by file name), `edited` (by hand). Each is cleared where the code
repairs it.

### Observers and Daemon

`Observers` has the five observers as functions from what they find to a
*result*: ok, the status of the target, and whether there are issues. What is
found (containers, a config, the tunnel, DNS records, SES attributes) is an
argument, told apart as far as the code tells it apart.

`Daemon` is `run_daemon` and its unit. `disk` is the sites root (a stack, a flawed
one, one that cannot be read), `schema` how much of the tables exists, `rows` the
cache, `unit`, `loaded`, `enabled` and `service` what systemd has, `pc` and the locals the one process, `admin` and
`report` the `daemon install` or `uninstall` in progress and what the last one
reported. `Launch` starts the process, by hand or by systemd; `Open` to `Stop` are
its steps, in the code's order: initialize, record the start, refresh, one
observer after the other with any of its outcomes, the records of all of them, the
event of a cycle with issues, the sleep, the `finally`. Of the events `daemon
status` shows only the time of the newest, as `daemon_heartbeat_at`; `beat` turns
with each of them (`RecordEvent`), which is what somebody who asks again and again
can see. Times are to the second and the clock is never set back; two events of one
second count as two. Whatever the code does not
catch (`ObserverRaises`, `PersistRaises`, `ReportRaises`, `OpenRaises`) takes the
way out the code takes. `Kill`, `Reboot` and errors of SQLite are faults;
`ObserverRaises` is not bounded, an observer may raise every time. A refresh is one
step that may fail half way: StateCache takes it apart. At most one daemon process
runs; a second one by hand would be StateCache's subject. A reboot starts what is
enabled as `waiting`. `report` is kept until the operator acts again, so that the
two properties about reports are about what lasts. `scanned` and `alarmed` record
what a `--once` found, for OnceIsHonest.

### Journal and Infra

`Journal` is what the table `operations` promises: a row is opened as running,
closed once, or lost with the command that opened it; and it does not stay open
otherwise. `Infra` is `infra render`, `plan` and `apply`, run side by side in one
workspace. `proc` has the locals of the command in each terminal; each write of a
file, each call of OpenTofu, each row and each event is a step. `files` are the
generated ones, told apart by the options they were rendered from, or `Torn` by
a kill; `plan` is the saved plan with the serial of the state it was made from,
`live` and `serial` are what OpenTofu has. OpenTofu is external: it may fail at
each call, at an apply with part of it done, and refuses a plan that is stale.
`lost` and `applied` are history variables, and so are the locals `alone` (no other
command since this one began) and `fresh` (it has rendered the files). What a
failed command says, and the text and the resources of the files, are left out.

### Stacks and Tui

`Stacks` is `site init`, `app init` and `app wrap` (one kind, *scaffold*), `up`,
`down`, `restart` and `cleanup`, in several terminals at once. A directory is the
compose file and the settings file; of both only the docker network and the profile
are kept (the ingress target takes the same way). A scaffold writes the compose file
first and the settings last, as all three commands do; `write_text_file` looks for
each of them (`CheckFile`) and writes it in a step of its own, so two scaffolds may
both find nothing. A docker command may fail
with or without its effect, a removal may leave any of the files. `Effective` and
`Pinned` are the precedence of settings and what a scaffold pins. `did` is what a
command reports of its steps, `alone` whether another command took its host since
it began. The config does not change, and compose files made by hand are left out.

`Tui` is the dashboard over these commands. It has one thread: `phase` is `run`
while a command holds it, and the commands of the other terminals and of the
daemon (`Cache`) interleave with its steps. `shown` is the list it has read,
`index` the selected row, `dialog` the open dialog with the host its callback has
captured, `pending` the create in progress, `timers` the follow-up refreshes, and
`views` says of each host whether its three views are current, were made old by a
command of the dashboard, or by somebody else. Listing and probing is one step.
The prompts of the create flow after the host name are one: they only collect
answers. The rows of the tools differ only in the command they run, which is
outside but for the refresh it ends with. `Overwrite`, the answer to the overwrite
question, is written down but is no part of Next: nothing leads to that question
(see the run `create_overwrite`).

## 3. The runs

| Run | Shows |
|---|---|
| `state_cache` | the five properties of the cache and that it implements `StackIndex` |
| `domain_commands` | report and mutation agree, other routes and mail stay, remove is complete; `DomainWiring` is implemented |
| `partial_update` (violation) | a malformed ingress file stops the command after DNS is changed |
| `duplicate_report` (violation) | an entry with an empty host name hides a duplicate from the report |
| `domain_routing` | ok means done, mutations are idempotent, a reported restart is effective |
| `restart_skipped` (violation) | a second `add --restart-cloudflared` restarts nothing |
| `bootstrap` | credentials match, secrets are kept, commands run again, a wiring delivers, ready is served |
| `bootstrap_advice` (violation) | a refused `bootstrap tunnel`, run again as it said, is refused for good |
| `daemon` | exit codes and reports are true and last; a stack that stays is recorded; a heartbeat that stands still means clean cycles |
| `infra` | rows are closed by their owner and say what OpenTofu did; a plan that re-rendered is what was asked; the journal is implemented |
| `tui` | the dashboard runs what was asked and shows what it changed; a stack command that says ok has done it |
| `create_overwrite` (violation) | the create flow never asks whether to overwrite |

### Properties

*Cache.* `RowsAgreeWithObservations`: the two tables tell the same story after
any crash. `StampsAreHonest`: content is stamped no later than it was true.
`CompletedRefreshCovers`: a clean refresh, and the listing after it, has all it
inspected, unless a rebuild ran into it. `RebuildForgetsOnlyTheIndex`: rows and
their observations go together and the observers' rows stay. `IndexSpec`: the
refinement.

*Commands one at a time.* `StatusOkMeansNothingToDo`: status is ok exactly when an
add is a no-op. `RepairDoesWhatStatusSaid`: repairable domains are repaired and
the others refuse. `NoBlockingIssueMeansUsable`: a file without a blocking issue
is accepted and each exact entry serves its host. `CommandsKeepOtherRoutes`,
`RemoveIsComplete`: what a mutation must not touch. `KeepsWiring`: the refinement of
`DomainWiring`. Where CommandsKeepOtherRoutes is about who serves a host, this one is
about every entry of it, served or not, and about the DNS records of both commands.

*Commands together.* `OkIsDone`, `NothingToDoChangesNothing`, `RestartedServes`.
Between the emptying and the writing of a file, or after a write that broke off, the
file is broken whatever it held before; `OkIsDone` counts that to the command that
broke it, not to the one that was done before.

*Bootstrap.* `CredentialsMatch`: a config names a tunnel and that tunnel's
credentials. `SecretsKept`: the last copy of a secret goes only by
`wiring --force`. `SettledStays`: a tunnel command that was done before touches
nothing. `WiringDelivers`: ok means that the service reads the config that was
found, with its own credentials. `WiringAcceptsItself`: what a wiring wrote never
needs --force. `ReadyServes`: with no exception marked and the service on what is
on disk, ready means that the tunnel DNS will name is the one that runs.

*Daemon.* `OnceIsHonest`: `--once` exits with 0 only if every stack it found is
recorded and no observer's record is a warning. `ObserversAgree`: the two ways an
observer says that something is wrong agree, for each of the five and whatever it
finds. `InstallReportHolds`, `UninstallReportHolds`: what these commands reported
is true of the unit, of systemd and of the process until the operator acts again.
`StacksGetRecorded` and `SilenceIsClean` are liveness. While the service is wanted,
a stack that stays gets its row. And if it stays wanted while the heartbeat of
`daemon status` stops moving, cycles end well again and again: a refresh that fails
leaves an event, an observer that raises those of the end of the process and of its
next start. (Of a service that is stopped or given up the property says nothing; its
heartbeat stands still as well.)

*Infra.* `RunningHasAnOwner`: no way out of a command leaves its row running but
its death. `ReportsAgree`: row, event and OpenTofu tell the same story.
`FreshPlanIsAsAsked`: a saved plan of a command that rendered the files itself
and was alone is what its options say. `KeepsJournal`: the refinement, with the
journal's liveness.

*Stacks and dashboard.* `ReportsHold`: what an ok means for each command, if no
other took its host. `RunsWhatWasAsked`: the command that starts is for the
selected row, for the host of the dialog, or for the host of the create, and a
create scaffolds a bare domain only behind a domain add that worked.
`ViewsAreCurrent`: no view survives a change that the dashboard's own command
made.

Each has a mutant in `PROJECT.json`: a plausible slip in a mapped definition
under which TLC finds it violated.

### Bounds

* `state_cache`: two processes, two hosts, one content of each kind, two commands
  started, one change of the sites root, one tick. Two commands suffice for each
  pair (a refresh with a rebuild, a stale refresh with a new one), the change and
  the tick for a scan that is stale and a stamp that differs. Deadlock is not
  checked: the run ends when its commands are used up.
* `domain_commands`: lists of up to two other entries grow to the four a command
  leaves; a host below the domain, a narrower wildcard and a foreign host give
  each way two names can capture each other; two services, two record ids.
* `domain_routing`: two processes, two domains, two commands and one edit by
  hand: commands for the same and for different domains overlap at every step.
* `bootstrap`: two tunnels and two names, three commands, one kill, short write or
  edit. Three commands are a tunnel, its wiring and a rerun of either, or a
  failed one, its retry and a third; the initial states supply what more commands
  would have left: a host with cloudflared on its own config, old credentials in
  the shared place, a runtime that was installed.
* `daemon`: one stack, so that it is the only one and a broken one is all there is;
  no observers, the three local ones, or the two providers; one change of the
  sites root, one fault, two commands: an install with its uninstall, with itself
  under `--force`, with a start or stop, or beside a daemon by hand. One fault
  suffices for each half-done state, because all of them are healed or not by the
  steps that follow. `ObserverRaises` and the outcomes of observers are unbounded.
* `infra`: two terminals, two ways to set the options, two plans or applies after
  at most one render, one death: every pair of commands, one of them cut short, and
  files of one command under the plan of another.
* `tui`: a bare domain and a host name below it, so that rows have parents and
  both kinds of create occur; two networks, a known and an unknown profile; two
  commands, of the dashboard or elsewhere, and one failure. A command takes several
  steps and a create is two commands for one, so two of them give every overlap.
  One tool row stands for all: only their number matters to the row numbers.
* The five violation runs are the smallest instances that show their case.

Symmetry is over processes, hosts, domains, tunnels and record ids in the runs
without liveness, which only compare them for equality; `daemon`, `infra` and `tui`
use none. `CHECK_DEADLOCK FALSE` stands where the commands of the instance are
used up and nothing has to happen any more.

### Fairness

* `Daemon` assumes weak fairness of the process's own steps and of
  `RestartOnFailure`: a process that can run does, its sleep ends, and systemd's
  timer does (`Restart=on-failure`, `RestartSec=10`, which is as long as the window
  of systemd's start limit, so five failures never fall into one). Which outcome a step
  has is not fair: an observer may raise in every cycle. Nothing the operator does
  has to happen, nor any kill.
* `Infra` assumes weak fairness of the steps of each command that has begun:
  a process that can run does; OpenTofu ends, well or not.
* `Journal` asks for what a command promises: each row is closed or lost.
* The other modules state safety only and assume no fairness: a command may stop
  anywhere, and nobody waits for another.

### What the violations say

1. `partial_update`: the preflight looks at where the ingress file is and not at
   what is in it; the change log says it avoids DNS-only updates.
2. `duplicate_report`: `host_entries[index + 1 :]` uses an index of another list.
3. `restart_skipped`: the restart hangs on what this run changed.
4. `bootstrap_advice`: `bootstrap tunnel` creates the tunnel before it looks at the
   local files. When these refuse, the config names no credentials of the new
   tunnel and the retry, which finds the tunnel by name, takes the branch for
   existing ones.
5. `create_overwrite`: the dashboard looks for "already exist" in the error of a
   scaffold, and a scaffold refuses with "refusing to overwrite existing file
   without --force". The question of `CHANGELOG.md:77` never comes; the test mocks
   another message.

Seen while modelling, and not run:

* `refresh` upserts and never deletes, so `list --refresh` lists a stack whose
  directory was gone before its refresh began; `README.md:264` of the repository
  promises the refreshed listing.
* `bootstrap validate` compares paths, not tunnels, and neither `bootstrap tunnel`
  nor `wiring` restarts a service that runs: a host can be "ready" while its service
  runs another tunnel than DNS will name. `ReadyServes` has the proviso.
* The dashboard lists the cache when it has anything, so a stack it has just
  created may not be in its list, and one it has deleted may be.
* The heartbeat of `daemon status` is the time of the newest event, and a clean
  cycle records none: a healthy daemon looks like one that was killed.
* Two scaffolds of one host at the same time may both pass the check for existing
  files, and the later overwrites the other without `--force`.
* `daemon uninstall` without `--force` neither stops nor disables the service.

## 4. The proofs

`StateCacheProofs` proves all six properties of the `state_cache` run, for any
processes, hosts, contents and bounds. From `ContentsAssumption` and
`BoundsAssumption`:

* `TypeCorrect` is inductive as it stands.
* `TablesAgree` is inductive with the types: the only writers change both tables
  in one step.
* `HonestStamps` is not inductive: an upsert writes what `scan` holds. The
  strengthening says that of the locals, too: whatever a process has scanned, the
  sites root has held since the process's stamp. It survives a change of the sites
  root because `heldUntil` moves past the clock, and the clock past no stamp.
* `ImplementsIndex` takes that invariant: an upsert maps to `Record`, a clear to
  `Forget`, the clock and the sites root to themselves, everything else to a
  stutter.
* `RefreshCovers` needs that, while a process writes, what it has scanned is
  recorded or still to do, and that rows are never removed but by a clear, which
  sets `overtaken`.
* `RebuildIsSelective` follows from the actions.

`DomainRoutingProofs` proves the four properties of `domain_routing`, from
`RoutingAssumption` and `HostsAssumption`. `TypeInv` adds to `TypeOK` which
locals go with which step. `RoutingInv` says, of every process that nobody
disturbed: the names it is past are done in DNS (`DnsPart`), what it loaded is
the file and what it wrote is in it (`FilePart`), what was settled when it began
still is and a reported restart still serves (`StandPart`). Each step of a process preserves its
own part by what the step does and the parts of others because it disturbs
whoever it could hurt; that last half is where the definition of `touched` is
tested: with a smaller one the proof fails.

`BootstrapProofs` proves three properties of `bootstrap`, from
`BootstrapAssumption` (the names, the tunnel ids and the few words the files use
are told apart) and `FilesAssumption`:

* `TypeCorrect`, with `LocalsFit`: a step is reached only with the tunnel and the
  file it uses.
* `SecretsAreKept` needs `SecretsFit`: a file named after a tunnel holds that
  tunnel's secret or nothing usable, and a tunnel has a secret on disk only if it
  was created. So the tunnel that was just created has none, the file that is
  written for it holds none, and no other command without `--force` writes over a
  file.
* `CredentialsStayMatched` is not inductive: a command writes a config steps after
  it chose what to write, and files change in between. `Named` says that a config
  names credentials beside it, its own tunnel's if the file has a tunnel's name;
  `PlanFits` says that what a wiring is about to write and to copy fit together,
  unless it takes over a shared config that was mixed up before; `SecretsFit`
  carries that over when a file of that name is written.

`BootstrapServiceProofs` proves the other four properties of `bootstrap` on top of
those:

* `SettledIsStable`: `NamesDiffer` says that tunnels are told apart by their names,
  so what the lookup finds is the tunnel of the homesrvctl config; `SettledFits`
  that a command that found it with its material stays on the way that writes
  nothing.
* `WiringMoves`: `WiringFits` follows the config that was found through the plan,
  the shared config and the copy of the credentials; after the copy it is in place
  (`Moved`), after the service file the service reads it.
* `WiringRunsAgain`: `WiredFits` says what a complete wiring leaves, and what one
  under way has left at each step: the shared config with credentials that are
  there, a unit with an override that is absent or written here, the sudoers
  policy. A second wiring then takes its own config for the source, and plans what
  is there.
* `ReadyIsServed`: `ServeFits` says that the homesrvctl config and the config it
  points to name the same tunnel, from the first step of a wiring, which plans what
  it will point to. It also shows that configs name tunnels by id unless a wiring
  guessed, so that a name in the homesrvctl config does no harm.

`DomainCommandsProofs` proves the seven properties of `domain_commands`, for lists
of any length and any number of records of a name, from `ServiceAssumption`,
`HostsAssumption`, `RecordIdsAssumption`, `StandInsAssumption` and `ViewAssumption`
(a host that is not there, one that is there twice and an unreadable file are told
apart in the view). `TypeOK` is
inductive as it stands and is all the invariant that is needed: the operator may
leave any list and any records, so what a command promises has to follow from the
list it finds. That is a matter of lemmas:

* *Lists.* `InOrder` of a set of positions is its increasing enumeration
  (`RankFacts`, `InOrderFacts`): ranks are injective and at most the cardinality, so
  every number up to it is one, by counting and without an induction. Hence the
  entries a command writes are those of the other hosts in their old order, each
  once (`OthersFacts`, `WrittenLists`).
* *Routes.* What an add and a remove write is the other entries, a middle and the
  fallback (`Around`). A host that no entry of the middle captures keeps its route
  (`AroundRoutes`), because the first of the entries that capture it is the first
  of those that are kept. The domain's names capture nothing outside the domain; and
  they come after the other entries, so an entry that serves its own host name
  still does. With the middle in front (`RewriteInFront`, the mutant) that is false.
* *The report.* Only entries for the apex and the wildcard capture the apex and the
  probe (`WhoCapturesTheTargets`, from `HostsAssumption`), so that the report of a
  target matches exactly if its entry is there once with the service
  (`StatusFacts`, `MatchesMeansReconciled`), and it does after a rewrite
  (`RewriteReconciles`). For DNS, a status that matches means that an upsert does
  nothing (`MatchMeansNoCall`), and an upsert of what the report called repairable
  makes it match (`UpsertRepairs`). `StatusOkMeansDone` and `RepairKeepsPromise` put
  the two together for the order a command works in (`RunOutcome`).
* *The issues.* Without empty host names the positions among the host entries are
  the indexes in the list, so that the slice compares each pair, and an entry that
  another one captures first is an issue (`EarlierCaptureBlocks`).
* *Records.* Ids stay apart in `RecordSets`; an upsert beside a routing record
  overwrites that one, and a removal deletes the only one there is.
* *The refinement.* The positions of another host in the new list and in the old
  one are in bijection (`AroundServices`), so it has no entry, one with the same
  service, or several in both; the targets have what was wanted (`AddedView`,
  `WithoutView`). `UpsertWires` and `RemovalUnwires` say that a request leaves what
  it may, and `RunWires` maps each way out of a command to how far it got.

`DaemonProofs` proves the five invariants of `daemon`, from `OptionsAssumption` and
`BoundsAssumption`. `Inv` adds to the types: `Supervision` (the service is active
just while its process runs, it never runs with `--once`, and it leaves its loop by
exceptions only, so that an ending service waits for its restart), `Telling` (once
an observer has recorded a warning, every way leads to an exit that is not 0),
`Managing` (how far install and uninstall have come, and what they have already
brought about), and the two report properties, which are only inductive together
with it. `ObserversAgree` rests on a lemma for each observer, over all it can find:
`ProviderHonest` is the crux, because ready, or unknown without issues, is what
counts as ok.

`InfraProofs` proves the four invariants of `infra` and that `Infra` implements
the safety part of `Journal`, from `SettingsAssumption` and `BoundsAssumption`.
`TypeInv` says which locals go with which step. `Owned`: a command with a row owns
it, alone, running, and not lost; RunningHasAnOwner is not inductive without,
because `Finish` frees the row of the one it closes. `Told` ties the locals of an
apply to `applied` and to the events before its row says anything. `AloneMakes`
follows the variables file from its write through the plan of a command that has
been alone. `JournalKept` maps `Start`, `Finish` and `Dies` to `Open`, `Close` and
`Lose`, and every other step to a stutter.

`TuiProofs` proves the four properties of `tui` and `SettingsRoundTrip`: for every
profile and network, what a scaffold pins reads back as what it rendered with. `Inv`
says which commands are at which step (`Fits`), what a dialog has captured
(`DialogFits`), when a create is pending and for which command (`PendingFits`), and
that nothing runs in the dashboard while it waits (`ViewsFit`). From it
`RunsAsAsked` follows step by step. `ReportsTrue` needs `Undisturbed`: a command
that is alone has its host to itself (`Apart`) and has come as far as its step says
(`Came`); a step of another command is on another host, so it leaves that be. The
list's rows need that numbers of rows are cardinalities of finite sets, hence
`NamingAssumption`.

Only TLC: the liveness of `daemon` and of the journal (liveness and ENABLED are
out of the prover's reach). The properties of the five violation runs are refuted,
not proved. Every other property of a run is a theorem.

## 5. Where it could go

1. StackIndex, StateCache; Ingress, Dns, DomainCommands, DomainRouting; Bootstrap;
   Observers, Daemon; Journal, Infra; Stacks, Tui: modelled and checked, with the
   theorems of section 4.
2. Next, a composition of the daemon's refresh with StateCache's, in place of the
   one step it is here, and config files that change under the stack commands.

## 6. Not modelled

* Rendered text: templates, compose files, unit files, OpenTofu files, reports,
  everything the dashboard draws. Conversions of it are layout; what the commands
  decide on is in the modules.
* Reports that only read: `validate`, `doctor`, `ports`, `tunnel status`,
  `site catalog`, `observe status`, `infra status`, and the detection of an
  existing source for `app wrap`. They keep no state, and what they look at is a
  nondeterministic choice elsewhere; `domain status`, `bootstrap validate` and
  `daemon status`, on which promises hang, are modelled.
* Package installation, OS detection, the detection of the cloudflared runtime, the
  cloudflared setup report, argument parsing.
* Port overrides of a scaffold, other keys of an ingress entry, three or more DNS
  records of one name, host names that differ in case or spaces: outside the
  instances or the data.
* The limit of 200 rows in `observe status`, and the age of events: times are only
  an order.
* What Textual does with a key or a render behind a modal dialog is taken from how
  the code uses it.
