----------------------------- MODULE Bootstrap -----------------------------
(* `bootstrap runtime`, `bootstrap tunnel` and `bootstrap wiring` on one   *)
(* host, one after the other in any order, each stopped anywhere by a      *)
(* failure, a refusal or a kill, and run again with or without --force.    *)
(* A file is written in one step, or left empty by a command that dies in  *)
(* it.  Beside them the operator changes the homesrvctl config, restarts   *)
(* cloudflared, and runs domain commands that add routes.                  *)
EXTENDS Naturals

CONSTANTS
  Tunnels,      \* tunnel ids
  Names,        \* tunnel names
  DefaultName,  \* DEFAULT_CONFIG.tunnel_name
  None,         \* nothing there
  MaxRuns,      \* bound on the commands started
  MaxMishaps    \* bound on kills, writes cut short and edits by hand

ASSUME BootstrapAssumption ==
  /\ DefaultName \in Names /\ Names \cap Tunnels = {}
  /\ None \notin Names \cup Tunnels \cup {"cut"}
  /\ {"cut", "tunnel-credentials"} \cap Tunnels = {}
  /\ MaxRuns \in Nat /\ MaxMishaps \in Nat

VARIABLES
  tunnels,   \* at Cloudflare: the name of each tunnel, None before it is created
  home,      \* the homesrvctl config: tunnel_name and the directory of cloudflared_config
  conf,      \* the cloudflared config in each directory
  creds,     \* the tunnel whose secret a credentials file holds, None or "cut"
  system,    \* the unit, its override, the sudoers policy, the Traefik compose file
  base,      \* what `bootstrap runtime` has put in place
  writable,  \* directories the operator may write to
  rooted,    \* config and credentials files that root owns
  root,      \* the operator works as root
  serving,   \* the tunnel the cloudflared process runs
  pc,        \* where the command is
  cmd,       \* its verb and options
  tid,       \* the tunnel it is about
  file,      \* the credentials file it writes or refers to
  from,      \* wiring: the credentials file it copies
  plan,      \* wiring: the rendered config
  outcome,   \* how the last command ended
  runs, mishaps,  \* counters for the bounds
  told,      \* history: what a refused `bootstrap tunnel` said would help
  marks,     \* history: what went wrong and was not put right
  promise,   \* history: the config, with its own credentials, that the wiring found
  settled,   \* history: the tunnel command started with nothing to do
  wired      \* history: a wiring is complete and nothing touched its files

local == <<pc, cmd, tid, file, from, plan, outcome>>
host == <<system, base, writable, rooted, serving>>
history == <<told, marks, promise, settled, wired>>
vars == <<tunnels, home, conf, creds, host, root, local, runs, mishaps, history>>

----------------------------------------------------------------------------
(* Files.  "shared" is /srv/homesrvctl/cloudflared, "own" any other place. *)

Dirs == {"own", "shared"}
Generic == "tunnel-credentials"  \* a file name that is not a tunnel id
Files == Dirs \X (Tunnels \cup {Generic})
ConfigFile(d) == <<d, "config">>

ASSUME FilesAssumption == None \notin Files

Confs == [kind : {"absent", "broken", "map"}, tunnel : Tunnels \cup Names \cup {None},
          creds : Files \cup {None}, ingress : {"fallback", "routes", None}]
NoConf == [kind |-> "absent", tunnel |-> None, creds |-> None, ingress |-> None]
BrokenConf == [NoConf EXCEPT !.kind = "broken"]
EmptyConf == [NoConf EXCEPT !.kind = "map"]
Rendered(ref, f) == [kind |-> "map", tunnel |-> ref, creds |-> f, ingress |-> "fallback"]

SystemFiles == {"unit", "override", "sudoers", "compose"}
Texts == {"absent", "cut", "other", "ours"}
Default == [ref |-> DefaultName, path |-> "shared"]

\* t is the tunnel that ref, an id or a name, stands for.
Is(t, ref) == tunnels[t] # None /\ (t = ref \/ tunnels[t] = ref)

\* The credentials file a cloudflared config names, if it is there.
CredentialsOf(c) ==
  IF c.kind = "map" /\ c.creds # None THEN IF creds[c.creds] # None THEN c.creds ELSE None
  ELSE None
SecretOf(c) == IF CredentialsOf(c) = None THEN None ELSE creds[c.creds]

\* The credentials a config names are those of another tunnel.
Mixed(c) == c.tunnel # None /\ SecretOf(c) \in Tunnels /\ ~ Is(SecretOf(c), c.tunnel)
Sound(c) == SecretOf(c) \in Tunnels /\ Is(SecretOf(c), c.tunnel)

UnitPresent == system["unit"] \in {"other", "ours"}
\* The directory whose config the service runs; an override wins over the unit.
Effective == IF ~ UnitPresent THEN None
             ELSE IF "ours" \in {system["override"], system["unit"]} THEN "shared" ELSE "own"
\* What cloudflared runs when it is started now.
Load == IF "packages" \notin base \/ Effective = None THEN None
        ELSE IF Sound(conf[Effective]) THEN SecretOf(conf[Effective]) ELSE None

----------------------------------------------------------------------------
(* Steps of a command. *)

\* The config the command reads: under sudo root's own, which keeps the defaults.
Settings == IF cmd.sudo THEN Default ELSE home
Requested(want) == IF want = None THEN home.ref ELSE want
MayWrite(d) == root \/ d \in writable

Commands == [verb : {"runtime", "tunnel", "wiring"}, want : Names \cup {None},
             force : BOOLEAN, sudo : BOOLEAN]
NoCommand == [verb |-> "none", want |-> None, force |-> FALSE, sudo |-> FALSE]

Go(step) == pc' = step /\ UNCHANGED <<outcome, told>>
Step(step) == Go(step) /\ UNCHANGED <<tid, file, from, plan>>
End(how) == /\ pc' = "idle" /\ outcome' = how
            /\ tid' = None /\ file' = None /\ from' = None /\ plan' = NoConf
Stop(how) == End(how) /\ told' = None
Refuse(why) ==
  /\ End(why)
  /\ told' = IF cmd.verb = "tunnel" /\ why \in {"useForce", "runRuntime"}
             THEN [want |-> cmd.want, advice |-> why] ELSE told
\* A write goes on to the next step, or is cut short and the command dies.
Wrote(cut, step) ==
  IF cut THEN Stop("killed") /\ mishaps < MaxMishaps /\ mishaps' = mishaps + 1
         ELSE Step(step) /\ UNCHANGED mishaps

Begin(c, step) ==
  /\ pc = "idle" /\ runs < MaxRuns /\ runs' = runs + 1
  /\ cmd' = c /\ pc' = step /\ outcome' = "none"
  /\ UNCHANGED <<tid, file, from, plan>> /\ promise' = NoConf
  /\ UNCHANGED <<tunnels, home, conf, creds, host, root, mishaps, marks, wired>>

----------------------------------------------------------------------------
(* bootstrap tunnel *)

\* A complete `bootstrap tunnel` left the material of ref.
Complete(ref) == LET c == conf[home.path] IN
  ref \in Tunnels /\ c = Rendered(ref, c.creds) /\ SecretOf(c) = ref

\* The operator does what the refused command said.
Follows(c) == /\ told # None
              /\ c.want = told.want
              /\ told.advice = "useForce" => c.force
              /\ told.advice = "runRuntime" => "group" \in base /\ home.path \in writable

\* The account is given with --account-id or read from the credentials; a
\* command that has none is refused here and leaves nothing behind.
BeginTunnel(c) ==
  /\ c.verb = "tunnel" /\ ~ c.sudo
  /\ Begin(c, "lookup")
  /\ settled' = (Complete(home.ref) /\ Is(home.ref, Requested(c.want)))
  /\ told' = IF Follows(c) THEN told ELSE None

\* Faulty: the id of the tunnel that was found is not kept.
LookupForgets ==
  /\ pc = "lookup"
  /\ \/ \E t \in Tunnels : Is(t, Requested(cmd.want)) /\ Step("reuse")
     \/ Step("create") /\ Requested(cmd.want) \in Names
  /\ UNCHANGED <<tunnels, home, conf, creds, host, root, cmd, runs,
                 mishaps, marks, promise, settled, wired>>

\* GET the tunnel: by id it must be there, by name it may not.
Lookup ==
  /\ pc = "lookup"
  /\ \/ Stop("error")
     \/ \E t \in Tunnels : Is(t, Requested(cmd.want)) /\ tid' = t /\ Go("reuse")
          /\ UNCHANGED <<file, from, plan>>
     \/ /\ ~ \E t \in Tunnels : Is(t, Requested(cmd.want))
        /\ Requested(cmd.want) \in Names
        /\ Step("create")
  /\ UNCHANGED <<tunnels, home, conf, creds, host, root, cmd, runs,
                 mishaps, marks, promise, settled, wired>>

\* Faulty: any credentials will do for an existing tunnel.
ReuseUnchecked ==
  /\ pc = "reuse" /\ SecretOf(conf[home.path]) # None
  /\ Go("writeConf") /\ file' = conf[home.path].creds /\ UNCHANGED <<tid, from, plan>>
  /\ UNCHANGED <<tunnels, home, conf, creds, host, root, cmd, runs,
                 mishaps, marks, promise, settled, wired>>

\* An existing tunnel needs the credentials the cloudflared config names.
Reuse ==
  /\ pc = "reuse"
  /\ IF SecretOf(conf[home.path]) = tid
       THEN Go("writeConf") /\ file' = conf[home.path].creds /\ UNCHANGED <<tid, from,
                                                                            plan>>
       ELSE Refuse("noCredentials")
  /\ UNCHANGED <<tunnels, home, conf, creds, host, root, cmd, runs,
                 mishaps, marks, promise, settled, wired>>

\* POST the tunnel: refused, created, or created with the answer (and the
\* secret, which only this process has) lost.
Create ==
  /\ pc = "create"
  /\ \/ Stop("error") /\ UNCHANGED tunnels
     \/ \E t \in {u \in Tunnels : tunnels[u] = None} :
          /\ tunnels' = [tunnels EXCEPT ![t] = Requested(cmd.want)]
          /\ \/ Stop("error")
             \/ Go("writeCredentials") /\ tid' = t /\ file' = <<home.path, t>>
                /\ UNCHANGED <<from, plan>>
  /\ UNCHANGED <<home, conf, creds, host, root, cmd, runs, mishaps,
                 marks, promise, settled, wired>>

WriteCredentials ==
  /\ pc = "writeCredentials"
  /\ \/ /\ creds[file] # None /\ ~ cmd.force
        /\ Refuse("useForce") /\ UNCHANGED <<creds, mishaps>>
     \/ \* no directory is a traceback, one that is not writable a hint
        /\ ~ MayWrite(home.path)
        /\ (Stop("error") \/ Refuse("runRuntime"))
        /\ UNCHANGED <<creds, mishaps>>
     \/ /\ creds[file] = None \/ cmd.force
        /\ MayWrite(home.path)
        /\ \E cut \in BOOLEAN :
             /\ creds' = [creds EXCEPT ![file] = IF cut THEN "cut" ELSE tid]
             /\ Wrote(cut, "writeConf")
  /\ UNCHANGED <<tunnels, home, conf, host, root, cmd, runs,
                 marks, promise, settled, wired>>

\* Faulty: with --force the config is written again without a look at it.
WriteConfAlways ==
  /\ pc = "writeConf" /\ cmd.force /\ MayWrite(home.path)
  /\ \E cut \in BOOLEAN :
       /\ conf' = [conf EXCEPT ![home.path] = IF cut THEN EmptyConf ELSE Rendered(tid, file)]
       /\ Wrote(cut, "chmod")
  /\ marks' = marks \cup {"halfway"} /\ wired' = FALSE
  /\ UNCHANGED <<tunnels, home, creds, host, root, cmd, runs, promise, settled>>

\* write_bootstrap_cloudflared_config: the routes of an existing config are lost.
WriteConf ==
  /\ pc = "writeConf"
  /\ LET old == conf[home.path]
         new == Rendered(tid, file)
     IN \/ /\ old.kind = "broken"
           /\ Stop("error") /\ UNCHANGED <<conf, mishaps, marks, wired>>
        \/ /\ old = new
           /\ Step("chmod") /\ UNCHANGED <<conf, mishaps, marks, wired>>
        \/ /\ old.kind = "map" /\ old # new /\ ~ cmd.force
           /\ Refuse("useForce") /\ UNCHANGED <<conf, mishaps, marks, wired>>
        \/ /\ old.kind = "absent" \/ (old.kind = "map" /\ old # new /\ cmd.force)
           /\ IF MayWrite(home.path)
                THEN \E cut \in BOOLEAN :
                       /\ conf' = [conf EXCEPT ![home.path] = IF cut THEN EmptyConf ELSE new]
                       /\ Wrote(cut, "chmod")
                       /\ marks' = marks \cup {"halfway"}
                       /\ wired' = FALSE
                ELSE Refuse("runRuntime") /\ UNCHANGED <<conf, mishaps, marks, wired>>
  /\ UNCHANGED <<tunnels, home, creds, host, root, cmd, runs,
                 promise, settled>>

\* Only its owner and root may change the mode of a file.
Normalize ==
  /\ pc = "chmod"
  /\ IF root \/ {ConfigFile(home.path), file} \cap rooted = {}
       THEN Step("ref") ELSE Refuse("runRuntime")
  /\ UNCHANGED <<tunnels, home, conf, creds, host, root, cmd, runs,
                 mishaps, marks, promise, settled, wired>>

\* update_config rewrites the homesrvctl config; cut short, it is empty and
\* every setting is its default again.
UpdateRef ==
  /\ pc = "ref"
  /\ \E cut \in BOOLEAN :
       IF cut THEN /\ home' = Default /\ Wrote(TRUE, "idle")
                   /\ wired' = FALSE /\ UNCHANGED marks
              ELSE /\ home' = [home EXCEPT !.ref = tid] /\ Stop("ok")
                   /\ marks' = marks \ {"halfway"} /\ UNCHANGED <<mishaps, wired>>
  /\ UNCHANGED <<tunnels, conf, creds, host, root, cmd, runs,
                 promise, settled>>

----------------------------------------------------------------------------
(* bootstrap wiring, as root *)

BeginWiring(c) ==
  /\ c.verb = "wiring" /\ c.want = None /\ (root => ~ c.sudo)
  /\ Begin(c, "plan")
  /\ settled' = FALSE /\ UNCHANGED told

\* The config it starts from: the configured one, or else the shared one.
Source == IF conf[Settings.path].kind # "absent" THEN Settings.path ELSE "shared"

\* Without the credentials the source names, the file in the shared directory
\* that is named after tunnel_name will do.
Plan ==
  /\ pc = "plan"
  /\ LET src == conf[Source]
         found == CredentialsOf(src)
         target == <<"shared", IF found # None THEN found[2]
                               ELSE IF Settings.ref \in Tunnels THEN Settings.ref
                               ELSE Generic>>
     IN IF found = None /\ creds[target] = None
          THEN Refuse("runTunnel") /\ UNCHANGED <<marks, promise>>
          ELSE /\ from' = found /\ file' = target
               /\ plan' = IF src.kind = "map" THEN [src EXCEPT !.creds = target]
                                              ELSE Rendered(Settings.ref, target)
               /\ promise' = IF Sound(src) THEN src ELSE NoConf
               /\ marks' = IF found = None THEN marks \cup {"guessed"} ELSE marks
               /\ Go("sharedConf") /\ UNCHANGED tid
  /\ UNCHANGED <<tunnels, home, conf, creds, host, root, cmd, runs, mishaps,
                 settled, wired>>

WriteShared ==
  /\ pc = "sharedConf"
  /\ LET old == conf["shared"]
     IN IF old = plan
          THEN Step("copy") /\ UNCHANGED <<conf, mishaps, marks, wired>>
        ELSE IF old.kind # "absent" /\ ~ cmd.force
          THEN Refuse("useForce") /\ UNCHANGED <<conf, mishaps, marks, wired>>
        ELSE \E cut \in BOOLEAN :
               /\ conf' = [conf EXCEPT !["shared"] = IF cut THEN EmptyConf ELSE plan]
               /\ Wrote(cut, "copy")
               /\ marks' = marks \cup {"torn"} /\ wired' = FALSE
  /\ UNCHANGED <<tunnels, home, creds, host, root, cmd, runs,
                 promise, settled>>

\* Faulty: a credentials file that is there is overwritten without --force.
CopyAlways ==
  /\ pc = "copy" /\ Step("permissions")
  /\ creds' = IF from = None THEN creds ELSE [creds EXCEPT ![file] = creds[from]]
  /\ marks' = marks \ {"torn"} /\ wired' = FALSE
  /\ UNCHANGED <<tunnels, home, conf, host, root, cmd, runs, mishaps, promise,
                 settled>>

\* Faulty: a credentials file that is there is taken for the right one.
CopyIfAbsent ==
  /\ pc = "copy" /\ Step("permissions")
  /\ creds' = IF from = None \/ creds[file] # None THEN creds
              ELSE [creds EXCEPT ![file] = creds[from]]
  /\ marks' = marks \ {"torn"} /\ wired' = FALSE
  /\ UNCHANGED <<tunnels, home, conf, host, root, cmd, runs, mishaps, promise,
                 settled>>

\* The shared config already names the file that is written here.
CopyCredentials ==
  /\ pc = "copy"
  /\ LET done == IF promise # NoConf THEN marks \ {"torn"} ELSE marks
     IN IF from = None \/ creds[file] = creds[from]
          THEN Step("permissions") /\ marks' = done /\ UNCHANGED <<creds, mishaps, wired>>
        ELSE IF creds[file] # None /\ ~ cmd.force
          THEN Refuse("useForce") /\ UNCHANGED <<creds, mishaps, marks, wired>>
        ELSE \E cut \in BOOLEAN :
               /\ creds' = [creds EXCEPT ![file] = IF cut THEN "cut" ELSE creds[from]]
               /\ Wrote(cut, "permissions")
               /\ marks' = IF cut THEN marks ELSE done
               /\ wired' = FALSE
  /\ UNCHANGED <<tunnels, home, conf, host, root, cmd, runs,
                 promise, settled>>

Permissions ==
  /\ pc = "permissions"
  /\ IF "group" \in base
       THEN /\ Step("path")
            /\ rooted' = rooted \cup {ConfigFile("shared"), file}
            /\ writable' = writable \cup {"shared"}
       ELSE Refuse("runRuntime") /\ UNCHANGED <<rooted, writable>>
  /\ UNCHANGED <<tunnels, home, conf, creds, system, base, serving, root, cmd,
                 runs, mishaps, marks, promise, settled, wired>>

UpdatePath ==
  /\ pc = "path"
  /\ \E cut \in BOOLEAN :
       /\ Wrote(cut, "service")
       /\ home' = IF cmd.sudo THEN home
                  ELSE IF cut THEN Default ELSE [home EXCEPT !.path = "shared"]
       /\ wired' = (wired /\ ~ cut)
  /\ UNCHANGED <<tunnels, conf, creds, host, root, cmd, runs,
                 marks, promise, settled>>

\* Faulty: refuses without a look at what the file says.
WriteSystemFileOnce(f, step) ==
  /\ IF system[f] # "absent" /\ ~ cmd.force
       THEN Refuse("useForce") /\ UNCHANGED <<system, mishaps, wired>>
       ELSE /\ system' = [system EXCEPT ![f] = "ours"]
            /\ Wrote(FALSE, step) /\ UNCHANGED wired
  /\ UNCHANGED <<tunnels, home, conf, creds, base, writable, rooted, serving, root, cmd,
                 runs, marks, promise, settled>>

\* _write_text_if_changed on a file whose text is always the same.
WriteSystemFile(f, step) ==
  /\ IF system[f] = "ours"
       THEN Step(step) /\ UNCHANGED <<system, mishaps, wired>>
     ELSE IF system[f] # "absent" /\ ~ cmd.force
       THEN Refuse("useForce") /\ UNCHANGED <<system, mishaps, wired>>
     ELSE \E cut \in BOOLEAN :
            /\ system' = [system EXCEPT ![f] = IF cut THEN "cut" ELSE "ours"]
            /\ Wrote(cut, step)
            /\ wired' = (wired /\ ~ cut)
  /\ UNCHANGED <<tunnels, home, conf, creds, base, writable, rooted, serving, root, cmd,
                 runs, marks, promise, settled>>

\* The first run installs the unit, the next one overrides it.
WriteService ==
  pc = "service" /\ WriteSystemFile(IF UnitPresent THEN "override" ELSE "unit", "sudoers")

WriteSudoers == pc = "sudoers" /\ WriteSystemFile("sudoers", "enable")

\* visudo, daemon-reload, enable --now: a service that runs is not restarted.
Enable ==
  /\ pc = "enable"
  /\ \/ Stop("error") /\ UNCHANGED <<serving, wired>>
     \/ /\ Stop("ok")
        /\ serving' = IF serving = None THEN Load ELSE serving
        /\ wired' = (home.path = "shared")
  /\ UNCHANGED <<tunnels, home, conf, creds, system, base, writable, rooted, root, cmd,
                 runs, mishaps, marks, promise, settled>>

----------------------------------------------------------------------------
(* bootstrap runtime, as root *)

BeginRuntime(c) ==
  /\ c.verb = "runtime" /\ c.want = None /\ (root => ~ c.sudo)
  /\ Begin(c, "packages")
  /\ settled' = FALSE /\ UNCHANGED told

\* apt-get and groupadd may fail and can be run again.
Install(step, what, next) ==
  /\ pc = step
  /\ \/ Stop("error") /\ UNCHANGED base
     \/ Step(next) /\ base' = base \cup {what}
  /\ UNCHANGED <<tunnels, home, conf, creds, system, writable, rooted, serving, root,
                 cmd, runs, mishaps, marks, promise, settled, wired>>

Packages == Install("packages", "packages", "group")
Groups == Install("group", "group", "directories")

Directories ==
  /\ pc = "directories" /\ Step("compose")
  /\ writable' = writable \cup {Settings.path}
  /\ UNCHANGED <<tunnels, home, conf, creds, system, base, rooted, serving, root, cmd,
                 runs, mishaps, marks, promise, settled, wired>>

WriteCompose == pc = "compose" /\ WriteSystemFile("compose", "traefik")

StartTraefik ==
  /\ pc = "traefik"
  /\ \/ Stop("error") /\ UNCHANGED base
     \/ Stop("ok") /\ base' = base \cup {"traefik"}
  /\ UNCHANGED <<tunnels, home, conf, creds, system, writable, rooted, serving, root,
                 cmd, runs, mishaps, marks, promise, settled, wired>>

----------------------------------------------------------------------------
(* Beside the commands. *)

\* Killed between two steps.
Kill ==
  /\ pc # "idle" /\ mishaps < MaxMishaps
  /\ mishaps' = mishaps + 1 /\ Stop("killed")
  /\ UNCHANGED <<tunnels, home, conf, creds, host, root, cmd, runs,
                 marks, promise, settled, wired>>

\* `domain add` puts routes into the configured file.
AddRoutes ==
  /\ conf[home.path].ingress = "fallback"
  /\ conf' = [conf EXCEPT ![home.path].ingress = "routes"]
  /\ promise' = NoConf /\ settled' = FALSE /\ wired' = (wired /\ pc = "idle")
  /\ UNCHANGED <<tunnels, home, creds, host, root, local, runs, mishaps, told,
                 marks>>

RestartService ==
  /\ serving' = Load
  /\ UNCHANGED <<tunnels, home, conf, creds, system, base, writable, rooted, root, local,
                 runs, mishaps, history>>

\* cloudflared_config is changed by hand, as a refusal of the wiring suggests.
EditHome(d) ==
  /\ pc = "idle" /\ mishaps < MaxMishaps /\ mishaps' = mishaps + 1
  /\ d # home.path /\ home' = [home EXCEPT !.path = d]
  /\ marks' = marks \cup {"edited"} /\ told' = None /\ wired' = FALSE
  /\ UNCHANGED <<tunnels, conf, creds, host, root, local, runs, promise, settled>>

----------------------------------------------------------------------------

\* A fresh host or one where cloudflared runs the tunnel t from a config of its
\* own, before or after its first `bootstrap runtime`; perhaps the old credentials
\* of the tunnel u are still in the shared place.
Found(t, u, cloudflared, broken, old, ran) ==
  /\ t # u /\ ~ (cloudflared /\ broken)
  /\ \E n \in Names, m \in Names \ {DefaultName} :
       /\ n # m
       /\ tunnels = [x \in Tunnels |-> IF x = t /\ cloudflared THEN n
                                       ELSE IF x = u /\ old THEN m ELSE None]
       /\ home \in [ref : {n} \cup (IF cloudflared THEN {t} ELSE {}), path : Dirs]
  /\ LET hand == [Rendered(t, <<"own", Generic>>) EXCEPT !.ingress = "routes"]
     IN conf = [d \in Dirs |-> IF d = "shared" THEN NoConf
                               ELSE IF cloudflared THEN hand
                               ELSE IF broken THEN BrokenConf ELSE NoConf]
  /\ creds = [f \in Files |-> IF f = <<"own", Generic>> /\ cloudflared THEN t
                              ELSE IF f = <<"shared", Generic>> /\ old THEN u ELSE None]
  /\ system = [f \in SystemFiles |-> IF f = "unit" /\ cloudflared THEN "other"
                                     ELSE IF f = "compose" /\ ran THEN "ours" ELSE "absent"]
  /\ serving = IF cloudflared THEN t ELSE None
  /\ base = IF ran THEN {"packages", "group", "traefik"}
            ELSE IF cloudflared THEN {"packages"} ELSE {}
  /\ writable \in {{}, {"own"}, Dirs} /\ ("shared" \in writable <=> ran)
  /\ rooted = IF cloudflared /\ "own" \notin writable
              THEN {ConfigFile("own"), <<"own", Generic>>} ELSE {}

Init ==
  /\ \E t, u \in Tunnels, cloudflared, broken, old, ran \in BOOLEAN :
       Found(t, u, cloudflared, broken, old, ran)
  /\ root \in BOOLEAN /\ (root => "own" \in writable)
  /\ pc = "idle" /\ cmd = NoCommand /\ outcome = "none"
  /\ tid = None /\ file = None /\ from = None /\ plan = NoConf
  /\ runs = 0 /\ mishaps = 0
  /\ told = None /\ marks = {} /\ promise = NoConf /\ settled = FALSE /\ wired = FALSE

Next ==
  \/ \E c \in Commands : BeginTunnel(c) \/ BeginWiring(c) \/ BeginRuntime(c)
  \/ Lookup \/ Reuse \/ Create \/ WriteCredentials \/ WriteConf \/ Normalize \/ UpdateRef
  \/ Plan \/ WriteShared \/ CopyCredentials \/ Permissions \/ UpdatePath
  \/ WriteService \/ WriteSudoers \/ Enable
  \/ Packages \/ Groups \/ Directories \/ WriteCompose \/ StartTraefik
  \/ Kill \/ AddRoutes \/ RestartService \/ \E d \in Dirs : EditHome(d)

Spec == Init /\ [][Next]_vars

----------------------------------------------------------------------------

Steps == {"idle", "lookup", "reuse", "create", "writeCredentials", "writeConf", "chmod", "ref",
          "plan", "sharedConf", "copy", "permissions", "path", "service", "sudoers", "enable",
          "packages", "group", "directories", "compose", "traefik"}
Outcomes == {"none", "ok", "error", "killed", "noCredentials", "useForce", "runRuntime",
             "runTunnel"}

\* Types of the state: what is on the host, at Cloudflare, and in the command.
TypeOK ==
  /\ tunnels \in [Tunnels -> Names \cup {None}]
  /\ home \in [ref : Names \cup Tunnels, path : Dirs]
  /\ conf \in [Dirs -> Confs] /\ plan \in Confs
  /\ creds \in [Files -> Tunnels \cup {None, "cut"}]
  /\ system \in [SystemFiles -> Texts]
  /\ base \subseteq {"packages", "group", "traefik"}
  /\ writable \subseteq Dirs /\ rooted \subseteq {ConfigFile(d) : d \in Dirs} \cup Files
  /\ root \in BOOLEAN /\ serving \in Tunnels \cup {None}
  /\ pc \in Steps /\ cmd \in Commands \cup {NoCommand} /\ outcome \in Outcomes
  /\ tid \in Tunnels \cup {None} /\ file \in Files \cup {None} /\ from \in Files \cup {None}
  /\ runs \in 0..MaxRuns /\ mishaps \in 0..MaxMishaps
  /\ told \in [want : Names \cup {None}, advice : {"useForce", "runRuntime"}] \cup {None}
  /\ marks \subseteq {"guessed", "torn", "halfway", "edited"}
  /\ promise \in Confs /\ settled \in BOOLEAN /\ wired \in BOOLEAN

\* A cloudflared config never names a tunnel beside the credentials of another
\* one, wherever a command stops, but for the shared config after a wiring that
\* stopped between its two files or that guessed the credentials' name.
\* (provision_bootstrap_tunnel and _wiring write their files in this order.)
CredentialsMatch ==
  \A d \in Dirs : Mixed(conf[d]) => d = "shared" /\ marks \cap {"guessed", "torn"} # {}

\* No command but a wiring with --force, not even a `bootstrap tunnel` with it,
\* loses the last copy of a tunnel's secret: Cloudflare does not give it again.
SecretsKept ==
  [][\A t \in Tunnels : (\E f \in Files : creds[f] = t) =>
       (\E f \in Files : creds'[f] = t) \/ (cmd.verb = "wiring" /\ cmd.force)]_vars

\* `bootstrap tunnel` on a host where it was done before, with or without
\* --force and however it ends, creates no tunnel and touches no file of
\* cloudflared (the "reused" branch of provision_bootstrap_tunnel).
SettledStays == [][settled /\ settled' => UNCHANGED <<tunnels, conf, creds>>]_vars

\* A wiring that reports success after it found a config with its own
\* credentials has moved that config, routes included, to where the service
\* reads it, and the credentials it names there are its own.
WiringDelivers ==
  pc = "idle" /\ cmd.verb = "wiring" /\ outcome = "ok" /\ promise # NoConf =>
    LET wiredConf == conf["shared"] IN
      /\ Effective = "shared" /\ Sound(wiredConf)
      /\ wiredConf = [promise EXCEPT !.creds = wiredConf.creds]
      /\ wiredConf.creds \in {"shared"} \X (Tunnels \cup {Generic})

\* A wiring can be run again: without --force it does not stop at a file that
\* an earlier, complete one wrote, whatever domain commands did to the config
\* since then (provision_bootstrap_wiring compares before it refuses).
WiringAcceptsItself ==
  ~ (wired /\ pc = "idle" /\ cmd.verb = "wiring" /\ outcome = "useForce")

----------------------------------------------------------------------------
(* bootstrap validate *)

\* inspect_configured_tunnel, and the id domain commands put into DNS.
Resolved ==
  IF home.ref \in Tunnels THEN home.ref
  ELSE IF conf[home.path].tunnel \in Tunnels THEN conf[home.path].tunnel
  ELSE IF SecretOf(conf[home.path]) \in Tunnels /\ \E t \in Tunnels : Is(t, home.ref)
         THEN CHOOSE t \in Tunnels : Is(t, home.ref) ELSE None

\* Faulty: the service may run a config other than the configured one.
SetupReadyUnaligned ==
  /\ conf[home.path].kind = "map" /\ MayWrite(home.path)
  /\ CredentialsOf(conf[home.path]) # None
  /\ UnitPresent => root \/ system["sudoers"] # "absent"

\* inspect_cloudflared_setup finds nothing to do: it looks at paths and access.
SetupReady ==
  /\ conf[home.path].kind = "map" /\ MayWrite(home.path)
  /\ CredentialsOf(conf[home.path]) # None
  /\ UnitPresent => Effective = home.path /\ (root \/ system["sudoers"] # "absent")

\* validate_bootstrap reports "ready".
Ready ==
  /\ base = {"packages", "group", "traefik"} /\ serving # None
  /\ conf[home.path].ingress # None
  /\ Resolved # None /\ SetupReady

\* When validate says ready, the domains that are added now are served: DNS will
\* name the tunnel that cloudflared runs. Provided it runs what is on disk, no
\* tunnel command stopped between the cloudflared and the homesrvctl config, no
\* wiring left credentials mixed up and nobody edited the config.
ReadyServes == Ready /\ marks = {} /\ serving = Load => serving = Resolved

\* A `bootstrap tunnel` that was refused with "use --force to overwrite bootstrap
\* material" or "Run `sudo homesrvctl bootstrap runtime` first", and is run again
\* after exactly that, is not refused because the credentials are not available.
AdviceLeadsOn == outcome = "noCredentials" => told = None

============================================================================
