----------------------- MODULE BootstrapServiceProofs -----------------------
(* Proofs about what the bootstrap commands leave for the service to run:  *)
(* a settled tunnel, a complete wiring, and what validate says of both.    *)
EXTENDS BootstrapProofs

USE BootstrapAssumption, FilesAssumption

-----------------------------------------------------------------------------
(* The invariants. *)

\* Tunnels are told apart by their names, a tunnel command creates one only
\* when nothing has the name or id it was asked for, and works on what has.
NamesDiffer ==
  /\ \A t, u \in Tunnels : tunnels[t] # None /\ tunnels[t] = tunnels[u] => t = u
  /\ pc = "create" => \A t \in Tunnels : ~ Is(t, Requested(cmd.want))
  /\ pc = "reuse" => Is(tid, Requested(cmd.want))

\* A tunnel command that started settled stays on the way that writes nothing.
SettledFits ==
  settled /\ pc # "idle" =>
    /\ pc \in {"lookup", "reuse", "writeConf", "chmod", "ref"}
    /\ Complete(home.ref) /\ Is(home.ref, Requested(cmd.want))
    /\ pc # "lookup" => tid = home.ref
    /\ pc = "writeConf" => file = conf[home.path].creds

\* The promised config, at home in the shared directory.
Moved == LET c == conf["shared"] IN
  /\ Sound(c) /\ c = [promise EXCEPT !.creds = c.creds]
  /\ c.creds \in Files /\ c.creds[1] = "shared"

\* A wiring that found a config with its own credentials carries both along.
WiringFits ==
  promise # NoConf =>
    /\ cmd.verb = "wiring"
    /\ pc \in {"sharedConf", "copy", "permissions", "path", "service", "sudoers", "enable",
               "idle"}
    /\ pc \in {"sharedConf", "copy"} =>
         /\ Sound(promise) /\ from = promise.creds /\ from # None
         /\ plan = [promise EXCEPT !.creds = file] /\ file[1] = "shared"
    /\ pc = "copy" => conf["shared"] = plan
    /\ pc \in {"permissions", "path", "service", "sudoers", "enable"} => Moved
    /\ pc \in {"sudoers", "enable"} => Effective = "shared"
    /\ pc = "idle" /\ outcome = "ok" => Moved /\ Effective = "shared"

\* What a complete wiring leaves, and a wiring on its way has already left.
Present == conf["shared"].kind = "map" /\ CredentialsOf(conf["shared"]) # None
Serviced == UnitPresent /\ system["override"] \in {"absent", "ours"}

WiredFits ==
  /\ pc \in {"lookup", "reuse", "create", "writeCredentials", "writeConf", "chmod", "ref"} =>
       cmd.verb = "tunnel"
  /\ pc \in {"packages", "group", "directories", "compose", "traefik"} => cmd.verb = "runtime"
  /\ system["override"] # "absent" => UnitPresent
  /\ pc \in {"sharedConf", "copy"} => creds[IF from = None THEN file ELSE from] # None
  /\ wired \/ pc \in {"permissions", "path", "service", "sudoers", "enable"} => Present
  /\ wired \/ pc \in {"sudoers", "enable"} => Serviced
  /\ wired \/ pc = "enable" => system["sudoers"] = "ours"
  /\ wired => home.path = "shared"
  /\ wired /\ pc = "sharedConf" => plan = conf["shared"]
  /\ wired /\ pc \in {"sharedConf", "copy"} => from = file
  /\ WiringAcceptsItself

\* Nothing was guessed, left halfway or edited; a config of the tunnel in the
\* homesrvctl config, if that and it name a tunnel by its id.
Clean == marks \cap {"guessed", "halfway", "edited"} = {}
OfHome(c) == home.ref \in Tunnels /\ c.tunnel \in Tunnels => c.tunnel = home.ref

\* The homesrvctl config and the config it points to name the same tunnel.
ServeFits ==
  /\ "guessed" \notin marks =>
       /\ \A d \in Dirs : conf[d].tunnel \notin Names
       /\ pc = "sharedConf" => plan.tunnel \notin Names
  /\ pc \in {"chmod", "ref"} => conf[home.path].kind = "map" /\ conf[home.path].tunnel = tid
  /\ Clean =>
       /\ OfHome(conf[home.path])
       /\ home.ref \in Tunnels /\ home.path = "own" => conf["own"].kind # "absent"
       /\ pc = "sharedConf" /\ (home.path = "shared" \/ ~ cmd.sudo) => OfHome(plan)
       /\ pc \in {"copy", "permissions", "path"} /\ ~ cmd.sudo => OfHome(conf["shared"])

-----------------------------------------------------------------------------
(* What steps have in common. *)

LEMMA MatchInvariant == Spec => [](SecretsInv /\ MatchFit)
<1>1. SecretsInv /\ MatchFit /\ [Next]_vars => MatchFit'
  BY MatchStep DEF SecretsInv
<1>2. QED BY <1>1, InitMatch, Invariant, PTL DEF Spec

\* Routes leave the rest of a config as it is.
LEMMA RoutesAdded ==
  ASSUME TypeOK, AddRoutes
  PROVE  /\ UNCHANGED <<tunnels, creds, home, system, marks, local>>
         /\ promise' = NoConf /\ settled' = FALSE /\ wired' = (wired /\ pc = "idle")
         /\ \A d \in Dirs : /\ conf'[d].kind = conf[d].kind /\ conf'[d].creds = conf[d].creds
                            /\ conf'[d].tunnel = conf[d].tunnel
<1>1. \A d \in Dirs : \A k \in {"kind", "creds", "tunnel"} :
        [conf[d] EXCEPT !.ingress = "routes"][k] = conf[d][k]
  BY DEF TypeOK, Confs
<1>2. \A d \in Dirs : conf'[d] \in {conf[d], [conf[d] EXCEPT !.ingress = "routes"]}
  BY DEF AddRoutes, TypeOK
<1>3. QED BY <1>1, <1>2 DEF AddRoutes, host

\* The steps of each verb, and how commands begin.
TunnelSteps == Lookup \/ Reuse \/ Create \/ WriteCredentials \/ WriteConf \/ Normalize \/ UpdateRef
WiringSteps == \/ Plan \/ WriteShared \/ CopyCredentials \/ Permissions \/ UpdatePath
               \/ WriteService \/ WriteSudoers \/ Enable
RuntimeSteps == Packages \/ Groups \/ Directories \/ WriteCompose \/ StartTraefik
Beginnings == \E c \in Commands : BeginTunnel(c) \/ BeginWiring(c) \/ BeginRuntime(c)

LEMMA NextSteps ==
  Next <=> \/ Beginnings \/ TunnelSteps \/ WiringSteps \/ RuntimeSteps
           \/ Kill \/ AddRoutes \/ RestartService \/ \E d \in Dirs : EditHome(d)
BY DEF Next, Beginnings, TunnelSteps, WiringSteps, RuntimeSteps

\* A system file is written, or cut short, or left as it is.
LEMMA SystemFileSets ==
  ASSUME TypeOK, NEW f \in SystemFiles, NEW step, WriteSystemFile(f, step)
  PROVE  /\ pc' \in {"idle", step}
         /\ UNCHANGED <<tunnels, home, conf, creds, cmd, marks, promise, settled>>
         /\ \A g \in SystemFiles \ {f} : system'[g] = system[g]
         /\ wired' => wired /\ system'[f] \in {system[f], "ours"}
         /\ system'[f] \in {system[f], "ours", "cut"}
         /\ pc' = step /\ step # "idle" => system'[f] = "ours" /\ wired' = wired
         /\ pc' = "idle" /\ wired' /\ step # "idle" =>
              outcome' # "useForce" \/ (~ cmd.force /\ system[f] \notin {"ours", "absent"})
         /\ pc' = "idle" /\ step # "idle" => outcome' # "ok"
<1>1. CASE system[f] = "ours"
  BY <1>1 DEF WriteSystemFile, Step, Go
<1>2. CASE system[f] \notin {"ours", "absent"} /\ ~ cmd.force
  BY <1>2 DEF WriteSystemFile, Refuse, End
<1>3. CASE system[f] # "ours" /\ (system[f] = "absent" \/ cmd.force)
  <2>1. PICK cut \in BOOLEAN : /\ system' = [system EXCEPT ![f] = IF cut THEN "cut" ELSE "ours"]
                               /\ Wrote(cut, step) /\ wired' = (wired /\ ~ cut)
    BY <1>3 DEF WriteSystemFile
  <2>2. /\ system'[f] = (IF cut THEN "cut" ELSE "ours")
        /\ \A g \in SystemFiles \ {f} : system'[g] = system[g]
    BY <2>1 DEF TypeOK
  <2>3. /\ pc' = IF cut THEN "idle" ELSE step
        /\ cut => outcome' = "killed"
    BY <2>1 DEF Wrote, Stop, End, Step, Go
  <2>4. UNCHANGED <<tunnels, home, conf, creds, cmd, marks, promise, settled>>
    BY DEF WriteSystemFile
  <2>5. CASE cut
    BY <2>1, <2>2, <2>3, <2>4, <2>5
  <2>6. CASE ~ cut
    <3>1. wired' = wired
      BY <2>1, <2>6 DEF TypeOK
    <3>2. QED BY <2>2, <2>3, <2>4, <2>6, <3>1
  <2>7. QED BY <2>5, <2>6
<1>4. QED BY <1>1, <1>2, <1>3

\* A runtime command is at one of its steps, and touches no cloudflared file.
LEMMA RuntimeSets ==
  ASSUME TypeOK, RuntimeSteps
  PROVE  /\ pc \in {"packages", "group", "directories", "compose", "traefik"}
         /\ pc' \in {"group", "directories", "compose", "traefik", "idle"}
         /\ UNCHANGED <<tunnels, home, conf, creds, cmd, marks, promise, settled>>
         /\ \A f \in SystemFiles \ {"compose"} : system'[f] = system[f]
         /\ wired' => wired
<1>1. CASE WriteCompose
  BY <1>1, SystemFileSets DEF WriteCompose, SystemFiles
<1>2. CASE Packages \/ Groups \/ StartTraefik
  BY <1>2, ElsewherePc DEF Packages, Groups, Install, StartTraefik
<1>3. CASE Directories
  BY <1>3, ElsewherePc DEF Directories
<1>4. QED BY <1>1, <1>2, <1>3 DEF RuntimeSteps

\* A wiring is at one of its steps.
LEMMA WiringSets ==
  ASSUME WiringSteps
  PROVE  /\ pc \in {"plan", "sharedConf", "copy", "permissions", "path", "service", "sudoers",
                    "enable"}
         /\ pc' \in {"sharedConf", "copy", "permissions", "path", "service", "sudoers",
                     "enable", "idle"}
         /\ UNCHANGED <<tunnels, cmd, settled>>
BY ElsewherePc
   DEF WiringSteps, Plan, WriteShared, CopyCredentials, Permissions, UpdatePath, WriteService,
       WriteSudoers, WriteSystemFile, Enable, Step, Go, Stop, End, Refuse, Wrote

\* So is a tunnel command.
LEMMA TunnelSets ==
  ASSUME TunnelSteps
  PROVE  /\ pc \in {"lookup", "reuse", "create", "writeCredentials", "writeConf", "chmod", "ref"}
         /\ pc' \in {"reuse", "create", "writeCredentials", "writeConf", "chmod", "ref", "idle"}
         /\ UNCHANGED <<cmd, system, promise, settled>>
BY ElsewherePc
   DEF TunnelSteps, Lookup, Reuse, Create, WriteCredentials, WriteConf, Normalize, UpdateRef,
       Step, Go, Stop, End, Refuse, Wrote, host

-----------------------------------------------------------------------------
(* A settled tunnel. *)

LEMMA NamesStep ==
  ASSUME TypeOK, LocalsFit, NamesDiffer, [Next]_vars
  PROVE  NamesDiffer'
<1>1. CASE UNCHANGED vars
  BY <1>1 DEF NamesDiffer, Is, Requested, vars, local
<1>2. CASE Lookup
  <2>1. UNCHANGED <<tunnels, home, cmd>>
    BY <1>2 DEF Lookup
  <2>2. pc' = "create" => \A t \in Tunnels : ~ Is(t, Requested(cmd.want))
    BY <1>2, ElsewherePc DEF Lookup, Go
  <2>3. pc' = "reuse" => Is(tid', Requested(cmd.want))
    BY <1>2, ElsewherePc DEF Lookup, Go
  <2>4. QED BY <2>1, <2>2, <2>3 DEF NamesDiffer, Is, Requested
<1>3. CASE Create
  <2>1. pc' \notin {"create", "reuse"}
    BY <1>3, ElsewherePc DEF Create, Go
  <2>2. CASE UNCHANGED tunnels
    BY <2>1, <2>2 DEF NamesDiffer
  <2>3. CASE ~ UNCHANGED tunnels
    <3>1. PICK t \in Tunnels : tunnels' = [tunnels EXCEPT ![t] = Requested(cmd.want)]
      BY <1>3, <2>3 DEF Create
    <3>2. \A u \in Tunnels : tunnels[u] # Requested(cmd.want) \/ tunnels[u] = None
      BY <1>3 DEF Create, NamesDiffer, Is
    <3>3. Requested(cmd.want) # None
      BY <1>3 DEF Create, LocalsFit
    <3>4. \A u \in Tunnels : tunnels'[u] = IF u = t THEN Requested(cmd.want) ELSE tunnels[u]
      BY <3>1 DEF TypeOK
    <3>5. QED BY <2>1, <3>2, <3>3, <3>4 DEF NamesDiffer
  <2>4. QED BY <2>2, <2>3
<1>4. CASE Reuse \/ WriteCredentials \/ WriteConf \/ Normalize \/ UpdateRef
  <2>1. pc' \notin {"create", "reuse"} /\ UNCHANGED tunnels
    BY <1>4, ElsewherePc DEF Reuse, WriteCredentials, WriteConf, Normalize, UpdateRef, Go, Wrote
  <2>2. QED BY <2>1 DEF NamesDiffer
<1>5. CASE WiringSteps \/ RuntimeSteps \/ Kill
  <2>1. pc' \notin {"create", "reuse"} /\ UNCHANGED tunnels
    BY <1>5, WiringSets, RuntimeSets, ElsewherePc DEF Kill
  <2>2. QED BY <2>1 DEF NamesDiffer
<1>6. CASE Beginnings \/ \E d \in Dirs : EditHome(d)
  <2>1. pc' \notin {"create", "reuse"} /\ UNCHANGED tunnels
    BY <1>6 DEF Beginnings, BeginTunnel, BeginWiring, BeginRuntime, Begin, EditHome, local
  <2>2. QED BY <2>1 DEF NamesDiffer
<1>7. CASE AddRoutes \/ RestartService
  <2>1. UNCHANGED <<tunnels, home, local>>
    BY <1>7 DEF AddRoutes, RestartService
  <2>2. QED BY <2>1 DEF NamesDiffer, Is, Requested, local
<1>8. QED
  BY <1>1, <1>2, <1>3, <1>4, <1>5, <1>6, <1>7, NextSteps DEF TunnelSteps

\* A settled command finds its tunnel and its material as it left them.
LEMMA SettledIsDone ==
  ASSUME TypeOK, NamesDiffer, SettledFits, settled, pc # "idle"
  PROVE  /\ home.ref \in Tunnels /\ home.path \in Dirs /\ conf[home.path].kind = "map"
         /\ conf[home.path] = Rendered(home.ref, conf[home.path].creds)
         /\ SecretOf(conf[home.path]) = home.ref
         /\ \A t \in Tunnels : Is(t, Requested(cmd.want)) => t = home.ref
<1>1. Complete(home.ref) /\ Is(home.ref, Requested(cmd.want)) /\ home.path \in Dirs
  BY DEF SettledFits, TypeOK
<1>2. /\ home.ref \in Tunnels /\ conf[home.path] = Rendered(home.ref, conf[home.path].creds)
      /\ SecretOf(conf[home.path]) = home.ref
  BY <1>1 DEF Complete
<1>3. Rendered(home.ref, conf[home.path].creds).kind = "map"
  BY DEF Rendered
<1>4. ASSUME NEW t \in Tunnels, Is(t, Requested(cmd.want)) PROVE t = home.ref
  <2>1. /\ tunnels[t] # None /\ tunnels[home.ref] # None
        /\ tunnels[t] \in Names /\ tunnels[home.ref] \in Names
    BY <1>1, <1>2, <1>4 DEF Is, TypeOK
  <2>2. QED BY <1>1, <1>2, <1>4, <2>1 DEF Is, NamesDiffer
<1>5. QED BY <1>1, <1>2, <1>3, <1>4

\* None of its steps writes anything of cloudflared.
LEMMA SettledWritesNothing ==
  ASSUME TypeOK, NamesDiffer, SettledFits, settled, TunnelSteps
  PROVE  /\ pc \in {"lookup", "reuse", "writeConf", "chmod", "ref"}
         /\ UNCHANGED <<tunnels, conf, creds>>
<1>1. pc # "idle" /\ pc \in {"lookup", "reuse", "writeConf", "chmod", "ref"}
  BY TunnelSets DEF SettledFits
<1>2. CASE WriteConf
  <2>1. tid = home.ref /\ file = conf[home.path].creds
    BY <1>1, <1>2 DEF WriteConf, SettledFits
  <2>2. conf[home.path] = Rendered(tid, file) /\ conf[home.path].kind = "map"
    BY <1>1, <2>1, SettledIsDone
  <2>3. QED BY <1>1, <1>2, <2>2 DEF WriteConf
<1>3. QED
  BY <1>1, <1>2 DEF TunnelSteps, Lookup, Reuse, Create, WriteCredentials, Normalize, UpdateRef

LEMMA SettledStep ==
  ASSUME TypeOK, LocalsFit, NamesDiffer, SettledFits, [Next]_vars
  PROVE  SettledFits'
<1> SUFFICES ASSUME settled', pc' # "idle"
             PROVE  SettledFits'
  BY DEF SettledFits
<1> DEFINE c == conf[home.path]
<1>1. CASE UNCHANGED vars
  BY <1>1 DEF SettledFits, Complete, SecretOf, CredentialsOf, Is, Requested, vars, local, history
<1>2. CASE Beginnings
  <2>1. PICK k \in Commands : BeginTunnel(k)
    BY <1>2 DEF Beginnings, BeginWiring, BeginRuntime
  <2>2. /\ pc' = "lookup" /\ cmd' = k /\ UNCHANGED <<tunnels, home, conf, creds>>
        /\ Complete(home.ref) /\ Is(home.ref, Requested(k.want))
    BY <2>1 DEF BeginTunnel, Begin
  <2>3. QED BY <2>2 DEF SettledFits, Complete, SecretOf, CredentialsOf, Is, Requested
<1>3. CASE TunnelSteps
  <2>1. settled /\ pc # "idle" /\ UNCHANGED cmd
    BY <1>3, TunnelSets
  <2>2. pc \notin {"create", "writeCredentials"} /\ Complete(home.ref)
    BY <2>1 DEF SettledFits
  <2>3. UNCHANGED <<tunnels, creds, conf, home>>
    BY <1>3, <2>1, SettledWritesNothing, ElsewherePc
       DEF TunnelSteps, Lookup, Reuse, Create, WriteCredentials, WriteConf, Normalize, UpdateRef,
           Wrote
  <2>4. /\ pc' \in {"reuse", "writeConf", "chmod", "ref"} /\ tid' = home.ref
        /\ pc' = "writeConf" => file' = c.creds
    <3>1. CASE Lookup
      <4>1. Is(home.ref, Requested(cmd.want)) /\ home.ref \in Tunnels
        BY <2>1, SettledIsDone DEF SettledFits
      <4>2. PICK t \in Tunnels : Is(t, Requested(cmd.want)) /\ tid' = t /\ Go("reuse")
        BY <3>1, <4>1, ElsewherePc DEF Lookup
      <4>3. QED BY <2>1, <4>2, SettledIsDone DEF Go
    <3>2. CASE Reuse
      BY <2>1, <3>2, ElsewherePc DEF Reuse, SettledFits, Go
    <3>3. CASE WriteConf \/ Normalize
      <4>1. UNCHANGED tid /\ pc' \in {"chmod", "ref"}
        BY <3>3, ElsewherePc DEF WriteConf, Normalize, Wrote, Step
      <4>2. QED BY <2>1, <3>3, <4>1 DEF SettledFits, WriteConf, Normalize
    <3>4. CASE UpdateRef
      BY <3>4, ElsewherePc DEF UpdateRef, Wrote
    <3>5. QED BY <1>3, <2>2, <3>1, <3>2, <3>3, <3>4 DEF TunnelSteps, Create, WriteCredentials
  <2>5. QED
    BY <2>1, <2>3, <2>4 DEF SettledFits, Complete, SecretOf, CredentialsOf, Is, Requested
<1>4. CASE WiringSteps \/ RuntimeSteps
  <2>1. settled /\ pc \in {"plan", "sharedConf", "copy", "permissions", "path", "service",
                           "sudoers", "enable", "packages", "group", "directories", "compose",
                           "traefik"}
    BY <1>4, WiringSets, RuntimeSets
  <2>2. QED BY <2>1 DEF SettledFits
<1>5. CASE Kill \/ AddRoutes \/ \E d \in Dirs : EditHome(d)
  BY <1>5, ElsewherePc, RoutesAdded DEF Kill, EditHome, local
<1>6. CASE RestartService
  BY <1>6 DEF RestartService, SettledFits, Complete, SecretOf, CredentialsOf, Is, Requested,
              local, history
<1>7. QED BY <1>1, <1>2, <1>3, <1>4, <1>5, <1>6, NextSteps

LEMMA InitNames == Init => NamesDiffer /\ SettledFits
<1> SUFFICES ASSUME Init PROVE NamesDiffer /\ SettledFits
  OBVIOUS
<1>1. PICK t \in Tunnels, u \in Tunnels, cloudflared \in BOOLEAN, broken \in BOOLEAN,
           old \in BOOLEAN, ran \in BOOLEAN : Found(t, u, cloudflared, broken, old, ran)
  BY DEF Init
<1>2. PICK n \in Names, m \in Names \ {DefaultName} :
        /\ n # m
        /\ tunnels = [x \in Tunnels |-> IF x = t /\ cloudflared THEN n
                                        ELSE IF x = u /\ old THEN m ELSE None]
  BY <1>1 DEF Found
<1>3. QED BY <1>2 DEF Init, NamesDiffer, SettledFits

LEMMA SettledInvariant == Spec => [](NamesDiffer /\ SettledFits)
<1>1. SecretsInv /\ NamesDiffer /\ SettledFits /\ [Next]_vars => NamesDiffer' /\ SettledFits'
  BY NamesStep, SettledStep DEF SecretsInv
<1>2. QED BY <1>1, InitNames, Invariant, PTL DEF Spec

\* `bootstrap tunnel` on a host where it was done before, with or without --force,
\* creates no tunnel and touches no file of cloudflared, at any of its steps.
THEOREM SettledIsStable == Spec => SettledStays
<1>1. SecretsInv /\ NamesDiffer /\ SettledFits /\ [Next]_vars
        => [settled /\ settled' => UNCHANGED <<tunnels, conf, creds>>]_vars
  <2> SUFFICES ASSUME SecretsInv, NamesDiffer, SettledFits, Next, settled, settled'
               PROVE  UNCHANGED <<tunnels, conf, creds>>
    BY DEF vars
  <2> USE DEF SecretsInv
  <2>1. CASE TunnelSteps
    BY <2>1, SettledWritesNothing
  <2>2. CASE WiringSteps
    BY <2>2, WiringSets DEF SettledFits
  <2>3. CASE RuntimeSteps
    BY <2>3, RuntimeSets
  <2>4. CASE Beginnings
    BY <2>4 DEF Beginnings, BeginTunnel, BeginWiring, BeginRuntime, Begin
  <2>5. CASE Kill \/ AddRoutes \/ RestartService \/ \E d \in Dirs : EditHome(d)
    BY <2>5, RoutesAdded DEF Kill, RestartService, EditHome
  <2>6. QED BY <2>1, <2>2, <2>3, <2>4, <2>5, NextSteps
<1>2. QED BY <1>1, Invariant, SettledInvariant, PTL DEF Spec, SettledStays

-----------------------------------------------------------------------------
(* What a wiring carries over. *)

\* What a wiring plans: the source under a new name for its credentials, which
\* are those the source names or those that lie where it guesses.
LEMMA Planned ==
  ASSUME SecretsInv, MatchFit, Plan, pc' # "idle"
  PROVE  LET src == conf[Source]
             found == CredentialsOf(src)
         IN /\ Source \in Dirs /\ src \in Confs
            /\ pc' = "sharedConf" /\ from' = found /\ file' \in Files /\ file'[1] = "shared"
            /\ UNCHANGED <<tunnels, home, conf, creds, system, cmd, wired>>
            /\ creds[IF from' = None THEN file' ELSE from'] # None
            /\ found = None => "guessed" \in marks' /\ promise' = NoConf
            /\ found # None =>
                 /\ src.kind = "map" /\ found = src.creds /\ found \in Files
                 /\ found[1] = Source /\ file'[2] = found[2]
                 /\ plan' = [src EXCEPT !.creds = file'] /\ plan'.tunnel = src.tunnel
                 /\ marks' = marks
            /\ promise' \in {src, NoConf} /\ (promise' # NoConf => Sound(src))
<1> USE TypeHalves DEF SecretsInv
<1> DEFINE src == conf[Source]
           found == CredentialsOf(src)
           target == <<"shared", IF found # None THEN found[2]
                                 ELSE IF Settings.ref \in Tunnels THEN Settings.ref
                                 ELSE Generic>>
<1>1. Source \in Dirs /\ src \in Confs
  BY DEF WorldType, Source, Settings, Default, Dirs
<1>2. ~ (found = None /\ creds[target] = None)
  BY ElsewherePc DEF Plan
<1>3. /\ from' = found /\ file' = target /\ pc' = "sharedConf"
      /\ plan' = IF src.kind = "map" THEN [src EXCEPT !.creds = target]
                                     ELSE Rendered(Settings.ref, target)
      /\ promise' = IF Sound(src) THEN src ELSE NoConf
      /\ marks' = IF found = None THEN marks \cup {"guessed"} ELSE marks
      /\ UNCHANGED <<tunnels, home, conf, creds, system, cmd, wired>>
  BY <1>2 DEF Plan, Go, host
<1>4. found \in Files \cup {None}
  BY <1>1, SecretType
<1>5. target \in Files /\ target[1] = "shared" /\ (found # None => target[2] = found[2])
  BY <1>4 DEF Files, Dirs
<1>6. found # None => /\ src.kind = "map" /\ found = src.creds /\ creds[found] # None
                      /\ found[1] = Source
  BY <1>1, ConfParts DEF CredentialsOf, MatchFit, Named
<1>7. src.kind = "map" => [src EXCEPT !.creds = target].tunnel = src.tunnel
  BY <1>1 DEF Confs
<1>8. found = None => ~ Sound(src)
  BY Zenon DEF Sound, SecretOf
<1>9. QED BY <1>1, <1>2, <1>3, <1>4, <1>5, <1>6, <1>7, <1>8

\* A wiring's write of the shared config: there already, written, or cut short.
LEMMA SharedWritten ==
  ASSUME SecretsInv, WriteShared
  PROVE  /\ UNCHANGED <<tunnels, home, creds, system, cmd, promise>>
         /\ conf'["own"] = conf["own"]
         /\ \A m \in {"guessed", "halfway", "edited"} : m \in marks' <=> m \in marks
         /\ \/ /\ pc' = "idle" /\ outcome' # "ok"
               /\ conf'["shared"] \in {conf["shared"], EmptyConf}
            \/ /\ pc' = "copy" /\ conf'["shared"] = plan
               /\ UNCHANGED <<tid, file, from, plan>>
         /\ wired' => wired /\ UNCHANGED conf
         /\ pc' = "idle" /\ outcome' = "useForce" => conf["shared"] # plan
<1> USE TypeHalves DEF SecretsInv
<1>1. /\ UNCHANGED <<tunnels, home, creds, system, cmd, promise>>
      /\ \A m \in {"guessed", "halfway", "edited"} : m \in marks' <=> m \in marks
  BY DEF WriteShared, host
<1>2. CASE conf["shared"] = plan
  BY <1>1, <1>2 DEF WriteShared, Step, Go
<1>3. CASE conf["shared"] # plan /\ conf["shared"].kind # "absent" /\ ~ cmd.force
  BY <1>1, <1>3 DEF WriteShared, Refuse, End
<1>4. CASE conf["shared"] # plan /\ ~ (conf["shared"].kind # "absent" /\ ~ cmd.force)
  <2>1. PICK cut \in BOOLEAN :
          /\ conf' = [conf EXCEPT !["shared"] = IF cut THEN EmptyConf ELSE plan]
          /\ Wrote(cut, "copy") /\ ~ wired'
    BY <1>4 DEF WriteShared
  <2>2. conf'["shared"] = (IF cut THEN EmptyConf ELSE plan) /\ conf'["own"] = conf["own"]
    BY <2>1 DEF WorldType, Dirs
  <2>3. IF cut THEN pc' = "idle" /\ outcome' = "killed"
               ELSE pc' = "copy" /\ UNCHANGED <<tid, file, from, plan>>
    BY <2>1 DEF Wrote, Stop, End, Step, Go
  <2>4. QED BY <1>1, <2>1, <2>2, <2>3
<1>5. QED BY <1>2, <1>3, <1>4

\* Its copy of the credentials: there already, copied, or cut short.
LEMMA Copied ==
  ASSUME SecretsInv, CopyCredentials
  PROVE  /\ UNCHANGED <<tunnels, home, conf, system, cmd, promise>>
         /\ \A m \in {"guessed", "halfway", "edited"} : m \in marks' <=> m \in marks
         /\ \A f \in Files : creds[f] # None /\ (from # None => creds[from] # None)
                               => creds'[f] # None
         /\ \/ pc' = "idle" /\ outcome' # "ok"
            \/ /\ pc' = "permissions"
               /\ from = None => creds' = creds
               /\ from # None => creds'[file] = creds[from]
         /\ wired' => wired
         /\ pc' = "idle" /\ outcome' = "useForce" =>
              from # None /\ creds[file] # creds[from]
<1> USE TypeHalves DEF SecretsInv
<1>1. /\ UNCHANGED <<tunnels, home, conf, system, cmd, promise>>
      /\ \A m \in {"guessed", "halfway", "edited"} : m \in marks' <=> m \in marks
      /\ file \in Files
  BY DEF CopyCredentials, host, LocalsFit
<1>2. CASE from = None \/ creds[file] = creds[from]
  BY <1>1, <1>2 DEF CopyCredentials, Step, Go
<1>3. CASE ~ (from = None \/ creds[file] = creds[from]) /\ creds[file] # None /\ ~ cmd.force
  BY <1>1, <1>3 DEF CopyCredentials, Refuse, End
<1>4. CASE /\ ~ (from = None \/ creds[file] = creds[from])
           /\ ~ (creds[file] # None /\ ~ cmd.force)
  <2>1. PICK cut \in BOOLEAN :
          /\ creds' = [creds EXCEPT ![file] = IF cut THEN "cut" ELSE creds[from]]
          /\ Wrote(cut, "permissions") /\ ~ wired'
    BY <1>4 DEF CopyCredentials
  <2>2. \A f \in Files : creds'[f] = IF f = file THEN IF cut THEN "cut" ELSE creds[from]
                                     ELSE creds[f]
    BY <2>1 DEF WorldType
  <2>3. IF cut THEN pc' = "idle" /\ outcome' = "killed" ELSE pc' = "permissions"
    BY <2>1 DEF Wrote, Stop, End, Step, Go
  <2>4. QED BY <1>1, <1>4, <2>1, <2>2, <2>3
<1>5. QED BY <1>2, <1>3, <1>4

LEMMA MovedStays ==
  ASSUME UNCHANGED <<tunnels, conf, creds, promise>>
  PROVE  (Moved => Moved') /\ (Sound(promise) => Sound(promise)')
BY DEF Moved, Sound, SecretOf, CredentialsOf, Is

LEMMA EffectiveStays ==
  ASSUME system'["unit"] = system["unit"], system'["override"] = system["override"]
  PROVE  Effective' = Effective /\ UnitPresent' = UnitPresent
BY DEF Effective, UnitPresent

\* Once the service file is written, the service reads the shared config.
LEMMA ServiceWritten ==
  ASSUME TypeOK, WriteService
  PROVE  /\ pc' \in {"idle", "sudoers"} /\ (pc' = "idle" => outcome' # "ok")
         /\ UNCHANGED <<tunnels, home, conf, creds, cmd, marks, promise, settled>>
         /\ pc' = "sudoers" => Effective' = "shared" /\ UnitPresent'
         /\ system'["sudoers"] = system["sudoers"]
<1> DEFINE f == IF UnitPresent THEN "override" ELSE "unit"
<1>1. WriteSystemFile(f, "sudoers") /\ f \in SystemFiles
  BY DEF WriteService, SystemFiles
<1>2. /\ pc' \in {"idle", "sudoers"} /\ (pc' = "idle" => outcome' # "ok")
      /\ UNCHANGED <<tunnels, home, conf, creds, cmd, marks, promise, settled>>
      /\ \A g \in SystemFiles \ {f} : system'[g] = system[g]
      /\ pc' = "sudoers" => system'[f] = "ours"
  BY <1>1, SystemFileSets
<1>3. pc' = "sudoers" => UnitPresent' /\ "ours" \in {system'["override"], system'["unit"]}
  BY <1>2 DEF UnitPresent, SystemFiles
<1>4. QED BY <1>2, <1>3 DEF Effective, SystemFiles

LEMMA WiringStep ==
  ASSUME SecretsInv, MatchFit, WiringFits, [Next]_vars
  PROVE  WiringFits'
<1> USE TypeHalves DEF SecretsInv
<1> SUFFICES ASSUME promise' # NoConf PROVE WiringFits'
  BY DEF WiringFits
<1> DEFINE c == conf["shared"]
<1>1. CASE UNCHANGED vars \/ RestartService
  <2>1. UNCHANGED <<tunnels, conf, creds, system, local, promise>>
    BY <1>1 DEF vars, host, history, RestartService
  <2>2. QED BY <2>1, MovedStays, EffectiveStays DEF WiringFits, local
<1>2. CASE Beginnings \/ TunnelSteps \/ RuntimeSteps
  <2>1. promise' = NoConf \/ promise' = promise
    BY <1>2, TunnelSets, RuntimeSets DEF Beginnings, BeginTunnel, BeginWiring, BeginRuntime, Begin
  <2>2. ~ Beginnings
    BY DEF Beginnings, BeginTunnel, BeginWiring, BeginRuntime, Begin
  <2>3. QED BY <1>2, <2>1, <2>2, TunnelSets, RuntimeSets DEF WiringFits
<1>3. CASE Plan
  <2>1. pc' # "idle"
    BY <1>3, ElsewherePc DEF Plan, WiringFits, Go
  <2>2. cmd.verb = "wiring" /\ UNCHANGED cmd
    BY <1>3 DEF Plan, LocalsFit
  <2>3. CredentialsOf(conf[Source]) # None /\ promise' = conf[Source] /\ Sound(promise)'
    <3>1. CredentialsOf(conf[Source]) # None /\ promise' = conf[Source] /\ Sound(conf[Source])
      BY <1>3, <2>1, Planned
    <3>2. UNCHANGED <<tunnels, creds>>
      BY <1>3 DEF Plan
    <3>3. QED BY <3>1, <3>2 DEF Sound, SecretOf, CredentialsOf, Is
  <2>4. QED BY <1>3, <2>1, <2>2, <2>3, Planned DEF WiringFits
<1>4. CASE WriteShared
  <2>1. /\ Sound(promise) /\ from = promise.creds /\ from # None /\ cmd.verb = "wiring"
        /\ plan = [promise EXCEPT !.creds = file] /\ file[1] = "shared" /\ UNCHANGED promise
    BY <1>4, SharedWritten DEF WriteShared, WiringFits
  <2>2. Sound(promise)'
    BY <1>4, <2>1, SharedWritten DEF Sound, SecretOf, CredentialsOf, Is
  <2>3. QED BY <1>4, <2>1, <2>2, SharedWritten DEF WiringFits
<1>5. CASE CopyCredentials
  <2>1. /\ Sound(promise) /\ from = promise.creds /\ from # None /\ cmd.verb = "wiring"
        /\ c = [promise EXCEPT !.creds = file] /\ file[1] = "shared" /\ file \in Files
        /\ UNCHANGED <<tunnels, conf, promise, cmd>>
    BY <1>5, Copied DEF CopyCredentials, WiringFits, LocalsFit
  <2>2. CASE pc' = "permissions"
    <3>1. creds'[file] = creds[from]
      BY <1>5, <2>1, <2>2, Copied
    <3>2. /\ promise \in Confs /\ creds[from] \in Tunnels /\ Is(creds[from], promise.tunnel)
          /\ promise.kind = "map"
      <4>1. promise \in Confs /\ SecretOf(promise) \in Tunnels
        BY <2>1 DEF WorldType, Sound
      <4>2. SecretOf(promise) = creds[from]
        BY <2>1, <4>1, SecretType
      <4>3. promise.kind = "map"
        BY <4>1, Zenon DEF SecretOf, CredentialsOf
      <4>4. QED BY <2>1, <4>1, <4>2, <4>3 DEF Sound
    <3>3. c.creds = file /\ c.kind = "map" /\ c.tunnel = promise.tunnel
      BY <2>1, <3>2 DEF Confs
    <3>4. SecretOf(c)' = creds[from]
      BY <2>1, <3>1, <3>2, <3>3 DEF SecretOf, CredentialsOf
    <3>5. Sound(c)'
      BY <2>1, <3>2, <3>3, <3>4 DEF Sound, Is
    <3>6. Moved'
      BY <2>1, <3>3, <3>5 DEF Moved
    <3>7. QED BY <2>1, <2>2, <3>6 DEF WiringFits
  <2>3. CASE pc' # "permissions"
    BY <1>5, <2>1, <2>3, Copied DEF WiringFits
  <2>4. QED BY <2>2, <2>3
<1>6. CASE Permissions \/ UpdatePath
  <2>1. pc' \in {"path", "service"} \/ (pc' = "idle" /\ outcome' # "ok")
    BY <1>6 DEF Permissions, UpdatePath, Wrote, Step, Go, Refuse, Stop, End
  <2>2. pc \in {"permissions", "path"} /\ UNCHANGED <<tunnels, conf, creds, promise, cmd>>
    BY <1>6 DEF Permissions, UpdatePath
  <2>3. QED BY <2>1, <2>2, MovedStays DEF WiringFits
<1>7. CASE WriteService
  <2>1. pc = "service"
    BY <1>7 DEF WriteService
  <2>2. QED BY <1>7, <2>1, ServiceWritten, MovedStays DEF WiringFits
<1>8. CASE WriteSudoers
  <2>1. /\ pc = "sudoers" /\ pc' \in {"idle", "enable"} /\ (pc' = "idle" => outcome' # "ok")
        /\ UNCHANGED <<tunnels, conf, creds, promise, cmd>>
        /\ \A g \in {"unit", "override"} : system'[g] = system[g]
    BY <1>8, SystemFileSets DEF WriteSudoers, SystemFiles
  <2>2. QED BY <2>1, MovedStays, EffectiveStays DEF WiringFits
<1>9. CASE Enable
  <2>1. pc = "enable" /\ pc' = "idle" /\ UNCHANGED <<tunnels, conf, creds, promise, cmd, system>>
    BY <1>9, ElsewherePc DEF Enable
  <2>2. QED BY <2>1, MovedStays, EffectiveStays DEF WiringFits
<1>10. CASE Kill
  <2>1. /\ pc # "idle" /\ pc' = "idle" /\ outcome' = "killed"
        /\ UNCHANGED <<cmd, promise>>
    BY <1>10 DEF Kill, Stop, End
  <2>2. QED BY <2>1 DEF WiringFits
<1>11. CASE AddRoutes
  BY <1>11, RoutesAdded
<1>12. ASSUME NEW d \in Dirs, EditHome(d) PROVE WiringFits'
  <2>1. UNCHANGED <<tunnels, conf, creds, system, local, promise>>
    BY <1>12 DEF EditHome, host
  <2>2. QED BY <2>1, MovedStays, EffectiveStays DEF WiringFits, local
<1>13. QED
  BY <1>1, <1>2, <1>3, <1>4, <1>5, <1>6, <1>7, <1>8, <1>9, <1>10, <1>11, <1>12, NextSteps
     DEF WiringSteps

\* A wiring that ends well after it found a config with its own credentials has
\* moved both, routes included, to where the service reads them.
THEOREM WiringMoves == Spec => []WiringDelivers
<1>1. Init => WiringFits
  BY DEF Init, WiringFits
<1>2. SecretsInv /\ MatchFit /\ WiringFits /\ [Next]_vars => WiringFits'
  BY WiringStep
<1>3. WiringFits => WiringDelivers
  <2>1. \A f \in Files : f[1] = "shared" => f \in {"shared"} \X (Tunnels \cup {Generic})
    BY DEF Files
  <2>2. QED BY <2>1 DEF WiringFits, WiringDelivers, Moved
<1>4. QED BY <1>1, <1>2, <1>3, MatchInvariant, PTL DEF Spec

-----------------------------------------------------------------------------
(* A wiring that is run again. *)

LEMMA PresentStays ==
  ASSUME TypeOK, Present, conf'["shared"].kind = conf["shared"].kind,
         conf'["shared"].creds = conf["shared"].creds,
         \A f \in Files : creds[f] # None => creds'[f] # None
  PROVE  Present'
<1>1. conf["shared"] \in Confs
  BY DEF TypeOK, Dirs
<1>2. conf["shared"].kind = "map" /\ conf["shared"].creds \in Files
      /\ conf["shared"].creds # None /\ creds[conf["shared"].creds] # None
  BY <1>1, ConfParts DEF Present, CredentialsOf
<1>3. QED BY <1>2 DEF Present, CredentialsOf

LEMMA ServicedStays ==
  ASSUME system'["unit"] = system["unit"], system'["override"] = system["override"]
  PROVE  Serviced' = Serviced /\ UnitPresent' = UnitPresent
BY DEF Serviced, UnitPresent

LEMMA HomeParts ==
  ASSUME NEW h \in [ref : Names \cup Tunnels, path : Dirs], NEW r
  PROVE  /\ [h EXCEPT !.ref = r].path = h.path
         /\ [h EXCEPT !.ref = r].ref = r
OBVIOUS

\* A tunnel command that leaves a wiring complete leaves its files in place.
LEMMA TunnelKeepsWiring ==
  ASSUME TypeOK, LocalsFit, TunnelSteps
  PROVE  /\ wired' => wired /\ UNCHANGED conf /\ home'.path = home.path
         /\ \A f \in Files : creds[f] # None => creds'[f] # None
<1>1. CASE Lookup \/ Reuse \/ Create \/ Normalize
  BY <1>1 DEF Lookup, Reuse, Create, Normalize
<1>2. CASE WriteCredentials
  <2>1. tid \in Tunnels /\ UNCHANGED <<wired, conf, home>>
    BY <1>2 DEF WriteCredentials, LocalsFit
  <2>2. \A f \in Files : creds'[f] \in {creds[f], "cut", tid}
    BY <1>2 DEF WriteCredentials, TypeOK
  <2>3. QED BY <2>1, <2>2
<1>3. CASE WriteConf
  BY <1>3 DEF WriteConf
<1>4. CASE UpdateRef
  <2>1. UNCHANGED <<conf, creds>>
    BY <1>4 DEF UpdateRef
  <2>2. [home EXCEPT !.ref = tid].path = home.path
    BY HomeParts DEF TypeOK
  <2>3. wired' => wired /\ home'.path = home.path
    BY <1>4, <2>2 DEF UpdateRef
  <2>4. QED BY <2>1, <2>3
<1>5. QED BY <1>1, <1>2, <1>3, <1>4 DEF TunnelSteps

\* A complete wiring takes its own config for the source, and finds it in order.
LEMMA WiredPlan ==
  ASSUME SecretsInv, MatchFit, WiredFits, wired, Plan, pc' # "idle"
  PROVE  plan' = conf["shared"] /\ from' = file'
<1> USE TypeHalves DEF SecretsInv
<1> DEFINE c == conf["shared"]
<1>1. Settings.path = "shared" /\ Source = "shared"
  BY DEF WiredFits, Settings, Default, Source
<1>2. CredentialsOf(c) # None /\ c \in Confs
  BY DEF WiredFits, Present, WorldType, Dirs
<1>3. /\ from' = CredentialsOf(c) /\ from' = c.creds /\ from' \in Files /\ file' \in Files
      /\ from'[1] = "shared" /\ file'[1] = "shared" /\ from'[2] = file'[2]
      /\ plan' = [c EXCEPT !.creds = file']
  BY <1>1, <1>2, Planned
<1>4. from' = file'
  BY <1>3 DEF Files
<1>5. QED BY <1>2, <1>3, <1>4 DEF Confs

\* The service files fit a wiring from its first one on.
LEMMA ServiceStep ==
  ASSUME TypeOK, WiredFits, WriteService
  PROVE  /\ system'["override"] # "absent" => UnitPresent'
         /\ wired' => wired
         /\ wired' \/ pc' = "sudoers" => Serviced'
         /\ wired' /\ pc' = "idle" => outcome' # "useForce"
<1>1. CASE UnitPresent
  <2>1. WriteSystemFile("override", "sudoers") /\ "override" \in SystemFiles
    BY <1>1 DEF WriteService, SystemFiles
  <2>2. /\ system'["unit"] = system["unit"]
        /\ wired' => wired /\ system'["override"] \in {system["override"], "ours"}
        /\ pc' \in {"idle", "sudoers"}
        /\ pc' = "sudoers" => system'["override"] = "ours"
        /\ pc' = "idle" /\ wired' =>
             outcome' # "useForce" \/ system["override"] \notin {"ours", "absent"}
    BY <2>1, SystemFileSets DEF SystemFiles
  <2>3. UnitPresent'
    BY <1>1, <2>2 DEF UnitPresent
  <2>4. QED BY <2>2, <2>3 DEF WiredFits, Serviced
<1>2. CASE ~ UnitPresent
  <2>1. WriteSystemFile("unit", "sudoers") /\ "unit" \in SystemFiles
    BY <1>2 DEF WriteService, SystemFiles
  <2>2. system["override"] = "absent" /\ ~ wired
    BY <1>2 DEF WiredFits, Serviced
  <2>3. /\ system'["override"] = "absent" /\ ~ wired'
        /\ pc' = "sudoers" => system'["unit"] = "ours"
    BY <2>1, <2>2, SystemFileSets DEF SystemFiles
  <2>4. QED BY <2>3 DEF Serviced, UnitPresent
<1>3. QED BY <1>1, <1>2

LEMMA WiredStep ==
  ASSUME SecretsInv, MatchFit, WiredFits, [Next]_vars
  PROVE  WiredFits'
<1> USE TypeHalves DEF SecretsInv
<1>1. CASE UNCHANGED vars \/ RestartService
  <2>1. UNCHANGED <<conf, creds, system, home, local, wired>>
    BY <1>1 DEF vars, host, history, RestartService
  <2>2. QED
    BY <2>1, PresentStays, ServicedStays DEF WiredFits, WiringAcceptsItself, local
<1>2. CASE Beginnings
  <2>1. /\ UNCHANGED <<conf, creds, system, home, wired>>
        /\ \/ pc' = "lookup" /\ cmd'.verb = "tunnel"
           \/ pc' = "plan"
           \/ pc' = "packages" /\ cmd'.verb = "runtime"
    BY <1>2 DEF Beginnings, BeginTunnel, BeginWiring, BeginRuntime, Begin, host
  <2>2. QED BY <2>1, PresentStays, ServicedStays DEF WiredFits, WiringAcceptsItself
<1>3. CASE TunnelSteps
  <2>1. cmd.verb = "tunnel"
    BY <1>3, TunnelSets DEF WiredFits
  <2>2. QED
    BY <1>3, <2>1, TunnelSets, TunnelKeepsWiring, PresentStays, ServicedStays
       DEF WiredFits, WiringAcceptsItself
<1>4. CASE RuntimeSteps
  <2>1. cmd.verb = "runtime"
    BY <1>4, RuntimeSets DEF WiredFits
  <2>2. system'["unit"] = system["unit"] /\ system'["override"] = system["override"]
        /\ system'["sudoers"] = system["sudoers"]
    BY <1>4, RuntimeSets DEF SystemFiles
  <2>3. QED
    BY <1>4, <2>1, <2>2, RuntimeSets, PresentStays, ServicedStays
       DEF WiredFits, WiringAcceptsItself
<1>5. CASE Plan
  <2>1. UNCHANGED <<conf, creds, system, home, cmd, wired>>
    BY <1>5 DEF Plan, host
  <2>2. pc' = "sharedConf" \/ (pc' = "idle" /\ outcome' # "useForce")
    BY <1>5 DEF Plan, Go, Refuse, End
  <2>3. pc' # "idle" => creds[IF from' = None THEN file' ELSE from'] # None
    BY <1>5, Planned
  <2>4. QED
    BY <1>5, <2>1, <2>2, <2>3, WiredPlan, PresentStays, ServicedStays
       DEF WiredFits, WiringAcceptsItself
<1>6. CASE WriteShared
  <2>1. pc = "sharedConf"
    BY <1>6 DEF WriteShared
  <2>2. UNCHANGED <<home, creds, system>> /\ (wired' => wired /\ UNCHANGED conf)
    BY <1>6, SharedWritten
  <2>3. \/ pc' = "idle" /\ (outcome' = "useForce" => conf["shared"] # plan)
        \/ pc' = "copy" /\ UNCHANGED <<file, from>>
    BY <1>6, SharedWritten
  <2>4. QED
    BY <2>1, <2>2, <2>3, PresentStays, ServicedStays DEF WiredFits, WiringAcceptsItself
<1>7. CASE CopyCredentials
  <2>1. /\ pc = "copy" /\ file \in Files /\ conf["shared"].kind = "map"
        /\ conf["shared"].creds = file
    BY <1>7 DEF CopyCredentials, LocalsFit, MatchFit, PlanFits
  <2>2. UNCHANGED <<home, conf, system>> /\ (wired' => wired)
    BY <1>7, Copied
  <2>3. \A f \in Files : creds[f] # None => creds'[f] # None
    BY <1>7, <2>1, Copied DEF WiredFits
  <2>4. pc' = "permissions" => Present'
    <3>1. pc' = "permissions" => creds'[file] # None
      BY <1>7, <2>1, Copied DEF WiredFits
    <3>2. file # None
      BY <2>1, FilesAssumption
    <3>3. QED BY <2>1, <2>2, <3>1, <3>2 DEF Present, CredentialsOf
  <2>5. pc' = "permissions" \/ (pc' = "idle" /\ (wired' => outcome' # "useForce"))
    BY <1>7, <2>1, <2>2, Copied DEF WiredFits
  <2>6. QED
    BY <2>1, <2>2, <2>3, <2>4, <2>5, PresentStays, ServicedStays
       DEF WiredFits, WiringAcceptsItself
<1>8. CASE Permissions \/ UpdatePath
  <2>1. UNCHANGED <<conf, creds, system>> /\ pc \in {"permissions", "path"}
    BY <1>8 DEF Permissions, UpdatePath, host
  <2>2. pc' \in {"path", "service"} \/ (pc' = "idle" /\ outcome' # "useForce")
    BY <1>8 DEF Permissions, UpdatePath, Wrote, Step, Go, Refuse, Stop, End
  <2>3. wired' => wired /\ home'.path = "shared"
    <3>1. CASE Permissions
      BY <3>1 DEF Permissions, WiredFits
    <3>2. CASE UpdatePath
      <4>1. [home EXCEPT !.path = "shared"].path = "shared"
        BY DEF WorldType
      <4>2. QED BY <3>2, <4>1 DEF UpdatePath, WiredFits
    <3>3. QED BY <1>8, <3>1, <3>2
  <2>4. QED
    BY <2>1, <2>2, <2>3, PresentStays, ServicedStays DEF WiredFits, WiringAcceptsItself
<1>9. CASE WriteService
  <2>1. pc = "service"
    BY <1>9 DEF WriteService
  <2>2. QED
    BY <1>9, <2>1, ServiceWritten, ServiceStep, PresentStays DEF WiredFits, WiringAcceptsItself
<1>10. CASE WriteSudoers
  <2>1. WriteSystemFile("sudoers", "enable") /\ pc = "sudoers" /\ "sudoers" \in SystemFiles
    BY <1>10 DEF WriteSudoers, SystemFiles
  <2>2. /\ pc' \in {"idle", "enable"} /\ UNCHANGED <<conf, creds, home, cmd>>
        /\ system'["unit"] = system["unit"] /\ system'["override"] = system["override"]
        /\ wired' => wired /\ system'["sudoers"] \in {system["sudoers"], "ours"}
        /\ pc' = "enable" => system'["sudoers"] = "ours"
        /\ pc' = "idle" /\ wired' => outcome' # "useForce" \/ system["sudoers"] # "ours"
    BY <2>1, SystemFileSets DEF SystemFiles
  <2>3. QED
    BY <2>1, <2>2, PresentStays, ServicedStays DEF WiredFits, WiringAcceptsItself
<1>11. CASE Enable
  <2>1. /\ UNCHANGED <<conf, creds, home, system, cmd>> /\ pc = "enable" /\ pc' = "idle"
        /\ outcome' # "useForce"
    BY <1>11 DEF Enable, Stop, End
  <2>2. wired' => wired \/ home.path = "shared"
    <3>1. CASE UNCHANGED <<serving, wired>>
      BY <3>1
    <3>2. CASE ~ UNCHANGED <<serving, wired>>
      <4>1. wired' = (home.path = "shared")
        BY <1>11, <3>2, Zenon DEF Enable
      <4>2. QED BY <4>1, Zenon
    <3>3. QED BY <3>1, <3>2
  <2>3. QED BY <2>1, <2>2, PresentStays, ServicedStays DEF WiredFits, WiringAcceptsItself
<1>12. CASE Kill
  <2>1. /\ UNCHANGED <<conf, creds, home, system, wired>> /\ pc' = "idle" /\ outcome' = "killed"
    BY <1>12 DEF Kill, Stop, End, host
  <2>2. QED BY <2>1, PresentStays, ServicedStays DEF WiredFits, WiringAcceptsItself
<1>13. CASE AddRoutes
  <2>1. /\ conf'["shared"].kind = conf["shared"].kind
        /\ conf'["shared"].creds = conf["shared"].creds
    BY <1>13, RoutesAdded DEF Dirs
  <2>2. /\ UNCHANGED <<creds, home, system, pc, cmd, file, from, outcome>>
        /\ wired' => wired /\ pc = "idle"
    BY <1>13, RoutesAdded DEF local
  <2>3. QED BY <2>1, <2>2, PresentStays, ServicedStays DEF WiredFits, WiringAcceptsItself
<1>14. ASSUME NEW d \in Dirs, EditHome(d) PROVE WiredFits'
  <2>1. UNCHANGED <<conf, creds, system>> /\ pc' = "idle" /\ ~ wired'
    BY <1>14 DEF EditHome, host, local
  <2>2. QED BY <2>1, ServicedStays DEF WiredFits, WiringAcceptsItself
<1>15. QED
  BY <1>1, <1>2, <1>3, <1>4, <1>5, <1>6, <1>7, <1>8, <1>9, <1>10, <1>11, <1>12, <1>13, <1>14,
     NextSteps DEF WiringSteps

\* A wiring without --force does not stop at a file that a complete one before it
\* wrote, whatever tunnel and domain commands and restarts there were since, as
\* long as they left those files to the wiring.
THEOREM WiringRunsAgain == Spec => []WiringAcceptsItself
<1>1. Init => WiredFits
  <2> SUFFICES ASSUME Init PROVE WiredFits
    OBVIOUS
  <2>1. PICK t \in Tunnels, u \in Tunnels, cloudflared \in BOOLEAN, broken \in BOOLEAN,
             old \in BOOLEAN, ran \in BOOLEAN : Found(t, u, cloudflared, broken, old, ran)
    BY DEF Init
  <2>2. system["override"] = "absent"
    BY <2>1 DEF Found, SystemFiles
  <2>3. QED BY <2>2 DEF Init, WiredFits, WiringAcceptsItself
<1>2. SecretsInv /\ MatchFit /\ WiredFits /\ [Next]_vars => WiredFits'
  BY WiredStep
<1>3. WiredFits => WiringAcceptsItself
  BY DEF WiredFits
<1>4. QED BY <1>1, <1>2, <1>3, MatchInvariant, PTL DEF Spec

-----------------------------------------------------------------------------
(* A host that is ready. *)

\* A step to where no config is under way, that leaves the configs' tunnels be.
LEMMA ServeQuiet ==
  ASSUME TypeOK, ServeFits, UNCHANGED <<home, marks>>,
         \A d \in Dirs : conf'[d].kind = conf[d].kind /\ conf'[d].tunnel = conf[d].tunnel,
         \/ pc' \notin {"chmod", "ref", "sharedConf", "copy", "permissions", "path"}
         \/ UNCHANGED local
  PROVE  ServeFits'
<1>1. home.path \in Dirs /\ "shared" \in Dirs /\ "own" \in Dirs
  BY DEF TypeOK, Dirs
<1>2. QED BY <1>1 DEF ServeFits, Clean, OfHome, local

LEMMA ServeTunnelStep ==
  ASSUME SecretsInv, MatchFit, ServeFits, TunnelSteps
  PROVE  ServeFits'
<1> USE TypeHalves DEF SecretsInv
<1>1. CASE Lookup \/ Reuse \/ Create \/ WriteCredentials
  <2>1. pc' \notin {"chmod", "ref", "sharedConf", "copy", "permissions", "path"}
    BY <1>1, ElsewherePc DEF Lookup, Reuse, Create, WriteCredentials, Go
  <2>2. UNCHANGED <<home, marks, conf>>
    BY <1>1 DEF Lookup, Reuse, Create, WriteCredentials
  <2>3. QED BY <2>1, <2>2, ServeQuiet
<1>2. CASE WriteConf
  <2> DEFINE new == Rendered(tid, file)
  <2>1. /\ tid \in Tunnels /\ home.path \in Dirs /\ UNCHANGED home
        /\ new.kind = "map" /\ new.tunnel = tid
    BY <1>2 DEF WriteConf, LocalsFit, WorldType, Rendered
  <2>2. pc' = "idle" \/ (pc' = "chmod" /\ tid' = tid)
    BY <1>2, ElsewherePc DEF WriteConf, Wrote, Step
  <2>3. CASE UNCHANGED conf
    <3>1. pc' = "chmod" => conf[home.path] = new
      <4>1. pc' = "chmod" =>
              conf[home.path] = new \/ conf' = [conf EXCEPT ![home.path] = new]
        BY <1>2, ElsewherePc DEF WriteConf, Wrote
      <4>2. QED BY <2>1, <2>3, <4>1 DEF WorldType
    <3>2. \A m \in {"guessed", "edited"} : m \in marks' <=> m \in marks
      BY <1>2 DEF WriteConf
    <3>3. "halfway" \in marks => "halfway" \in marks'
      BY <1>2 DEF WriteConf
    <3>4. QED BY <2>1, <2>2, <2>3, <3>1, <3>2, <3>3 DEF ServeFits, Clean, OfHome
  <2>4. CASE ~ UNCHANGED conf
    <3>1. PICK cut \in BOOLEAN :
            /\ conf' = [conf EXCEPT ![home.path] = IF cut THEN EmptyConf ELSE new]
            /\ Wrote(cut, "chmod") /\ marks' = marks \cup {"halfway"}
      BY <1>2, <2>4 DEF WriteConf
    <3>2. \A d \in Dirs : conf'[d] = IF d # home.path THEN conf[d]
                                     ELSE IF cut THEN EmptyConf ELSE new
      BY <3>1 DEF WorldType
    <3>3. EmptyConf.tunnel = None /\ None \notin Names /\ tid \notin Names
      BY <2>1 DEF EmptyConf, NoConf
    <3>4. pc' = "chmod" => ~ cut
      BY <3>1, ElsewherePc DEF Wrote
    <3>5. QED BY <2>1, <2>2, <3>1, <3>2, <3>3, <3>4 DEF ServeFits, Clean
  <2>5. QED BY <2>3, <2>4
<1>3. CASE Normalize
  <2>1. /\ UNCHANGED <<home, marks, conf>> /\ pc = "chmod"
        /\ pc' = "idle" \/ (pc' = "ref" /\ tid' = tid)
    BY <1>3, ElsewherePc DEF Normalize
  <2>2. QED BY <2>1 DEF ServeFits, Clean, OfHome
<1>4. CASE UpdateRef
  <2>1. UNCHANGED conf /\ pc' = "idle" /\ ("guessed" \in marks => "guessed" \in marks')
    BY <1>4, ElsewherePc DEF UpdateRef, Wrote
  <2>2. CASE home' = Default
    <3>1. Default.ref \notin Tunnels
      BY DEF Default
    <3>2. QED BY <2>1, <2>2, <3>1 DEF ServeFits, OfHome
  <2>3. CASE home' # Default
    <3>1. home' = [home EXCEPT !.ref = tid]
      BY <1>4, <2>3 DEF UpdateRef
    <3>2. home'.ref = tid /\ home'.path = home.path
      BY <3>1, HomeParts DEF WorldType
    <3>3. conf[home.path].kind = "map" /\ conf[home.path].tunnel = tid
      BY <1>4 DEF UpdateRef, ServeFits
    <3>4. QED BY <2>1, <3>2, <3>3 DEF ServeFits, OfHome
  <2>4. QED BY <2>2, <2>3
<1>5. QED BY <1>1, <1>2, <1>3, <1>4 DEF TunnelSteps

LEMMA ServeWiringStep ==
  ASSUME SecretsInv, MatchFit, ServeFits, WiringSteps
  PROVE  ServeFits'
<1> USE TypeHalves DEF SecretsInv
<1>1. CASE Plan
  <2>1. CASE pc' = "idle"
    <3>1. UNCHANGED <<home, conf, marks>>
      BY <1>1, <2>1 DEF Plan, Go
    <3>2. QED BY <2>1, <3>1, ServeQuiet
  <2>2. CASE pc' # "idle" /\ CredentialsOf(conf[Source]) = None
    <3>1. "guessed" \in marks' /\ pc' = "sharedConf"
      BY <1>1, <2>2, Planned
    <3>2. QED BY <3>1 DEF ServeFits, Clean
  <2>3. CASE pc' # "idle" /\ CredentialsOf(conf[Source]) # None
    <3>1. /\ Source \in Dirs /\ plan'.tunnel = conf[Source].tunnel
          /\ pc' = "sharedConf" /\ UNCHANGED <<home, conf, marks, cmd>>
      BY <1>1, <2>3, Planned
    <3>2. (home.path = "shared" \/ ~ cmd.sudo) =>
            Source = IF conf[home.path].kind # "absent" THEN home.path ELSE "shared"
      BY DEF Source, Settings, Default
    <3>3. Clean /\ (home.path = "shared" \/ ~ cmd.sudo) /\ home.ref \in Tunnels =>
            Source = home.path
      <4>1. home.path \in {"own", "shared"}
        BY DEF WorldType, Dirs
      <4>2. QED BY <3>2, <4>1 DEF ServeFits
    <3>4. QED BY <3>1, <3>3 DEF ServeFits, Clean, OfHome
  <2>4. QED BY <2>1, <2>2, <2>3
<1>2. CASE WriteShared
  <2>1. /\ pc = "sharedConf" /\ UNCHANGED <<home, cmd>> /\ home.path \in {"own", "shared"}
        /\ conf'["own"] = conf["own"]
        /\ \A m \in {"guessed", "halfway", "edited"} : m \in marks' <=> m \in marks
    BY <1>2, SharedWritten DEF WriteShared, WorldType, Dirs
  <2>2. CASE pc' = "copy" /\ conf'["shared"] = plan
    BY <2>1, <2>2 DEF ServeFits, Clean, OfHome, Dirs
  <2>3. CASE pc' = "idle" /\ conf'["shared"] \in {conf["shared"], EmptyConf}
    <3>1. EmptyConf.tunnel = None /\ None \notin Tunnels /\ None \notin Names
      BY DEF EmptyConf, NoConf
    <3>2. QED BY <2>1, <2>3, <3>1 DEF ServeFits, Clean, OfHome, Dirs
  <2>4. QED BY <1>2, <2>2, <2>3, SharedWritten
<1>3. CASE CopyCredentials
  <2>1. /\ pc = "copy" /\ UNCHANGED <<home, conf, cmd>> /\ pc' \in {"idle", "permissions"}
        /\ \A m \in {"guessed", "halfway", "edited"} : m \in marks' <=> m \in marks
    BY <1>3, Copied DEF CopyCredentials
  <2>2. QED BY <2>1 DEF ServeFits, Clean, OfHome
<1>4. CASE Permissions
  <2>1. /\ pc = "permissions" /\ UNCHANGED <<home, conf, marks, cmd>> /\ pc' \in {"idle", "path"}
    BY <1>4, ElsewherePc DEF Permissions
  <2>2. QED BY <2>1 DEF ServeFits, Clean, OfHome
<1>5. CASE UpdatePath
  <2>1. pc = "path" /\ UNCHANGED <<conf, marks>> /\ pc' \in {"idle", "service"}
    BY <1>5, ElsewherePc DEF UpdatePath
  <2>2. CASE UNCHANGED home
    BY <2>1, <2>2, ServeQuiet
  <2>3. CASE home' = Default
    <3>1. Default.ref \notin Tunnels
      BY DEF Default
    <3>2. QED BY <2>1, <2>3, <3>1 DEF ServeFits, Clean, OfHome
  <2>4. CASE ~ UNCHANGED home /\ home' # Default
    <3>1. home' = [home EXCEPT !.path = "shared"] /\ ~ cmd.sudo
      BY <1>5, <2>4 DEF UpdatePath
    <3>2. [home EXCEPT !.path = "shared"].path = "shared"
          /\ [home EXCEPT !.path = "shared"].ref = home.ref
      BY DEF WorldType
    <3>3. home'.path = "shared" /\ home'.ref = home.ref
      BY <3>1, <3>2
    <3>4. QED BY <2>1, <3>1, <3>3 DEF ServeFits, Clean, OfHome
  <2>5. QED BY <2>2, <2>3, <2>4
<1>6. CASE WriteService \/ WriteSudoers \/ Enable
  <2>1. pc' \in {"idle", "sudoers", "enable"} /\ UNCHANGED <<home, conf, marks>>
    BY <1>6, ElsewherePc DEF WriteService, WriteSudoers, WriteSystemFile, Enable
  <2>2. QED BY <2>1, ServeQuiet
<1>7. QED BY <1>1, <1>2, <1>3, <1>4, <1>5, <1>6 DEF WiringSteps

LEMMA ServeStep ==
  ASSUME SecretsInv, MatchFit, ServeFits, [Next]_vars
  PROVE  ServeFits'
<1> USE TypeHalves DEF SecretsInv
<1>1. CASE UNCHANGED vars \/ RestartService
  <2>1. UNCHANGED <<home, conf, marks, local>>
    BY <1>1 DEF vars, history, RestartService
  <2>2. QED BY <2>1, ServeQuiet
<1>2. CASE Beginnings \/ RuntimeSteps \/ Kill
  <2>1. pc' \notin {"chmod", "ref", "sharedConf", "copy", "permissions", "path"}
    BY <1>2, RuntimeSets, ElsewherePc
       DEF Beginnings, BeginTunnel, BeginWiring, BeginRuntime, Begin, Kill
  <2>2. UNCHANGED <<home, conf, marks>>
    BY <1>2, RuntimeSets DEF Beginnings, BeginTunnel, BeginWiring, BeginRuntime, Begin, Kill
  <2>3. QED BY <2>1, <2>2, ServeQuiet
<1>3. CASE AddRoutes
  BY <1>3, RoutesAdded, ServeQuiet
<1>4. ASSUME NEW d \in Dirs, EditHome(d) PROVE ServeFits'
  <2>1. UNCHANGED conf /\ pc' = "idle" /\ marks' = marks \cup {"edited"}
    BY <1>4 DEF EditHome, local
  <2>2. QED BY <2>1 DEF ServeFits, Clean
<1>5. QED
  BY <1>1, <1>2, <1>3, <1>4, ServeTunnelStep, ServeWiringStep, NextSteps

LEMMA InitServe == Init => ServeFits
<1> SUFFICES ASSUME Init PROVE ServeFits
  OBVIOUS
<1>1. PICK t \in Tunnels, u \in Tunnels, cloudflared \in BOOLEAN, broken \in BOOLEAN,
           old \in BOOLEAN, ran \in BOOLEAN : Found(t, u, cloudflared, broken, old, ran)
  BY DEF Init
<1>2. pc = "idle"
  BY DEF Init
<1>3. \A d \in Dirs : conf[d].tunnel = None \/ (cloudflared /\ conf[d].tunnel = t)
  <2> DEFINE hand == [Rendered(t, <<"own", Generic>>) EXCEPT !.ingress = "routes"]
  <2>1. hand.tunnel = t /\ NoConf.tunnel = None /\ BrokenConf.tunnel = None
    BY DEF Rendered, NoConf, BrokenConf
  <2>2. \A d \in Dirs : conf[d] \in {NoConf, BrokenConf} \/ (cloudflared /\ conf[d] = hand)
    BY <1>1 DEF Found
  <2>3. QED BY <2>1, <2>2
<1>4. cloudflared => conf["own"].kind # "absent"
  <2> DEFINE hand == [Rendered(t, <<"own", Generic>>) EXCEPT !.ingress = "routes"]
  <2>1. cloudflared => conf["own"] = hand
    BY <1>1 DEF Found, Dirs
  <2>2. hand.kind = "map"
    BY DEF Rendered
  <2>3. QED BY <2>1, <2>2
<1>5. home.path \in Dirs /\ (home.ref \in Tunnels => cloudflared /\ home.ref = t)
  BY <1>1 DEF Found
<1>6. QED BY <1>2, <1>3, <1>4, <1>5 DEF ServeFits, OfHome

\* What ready means for the tunnel of the domains that are added.
LEMMA ReadyResolves ==
  ASSUME TypeOK, ServeFits, Ready, marks = {}, serving = Load
  PROVE  serving = Resolved
<1> DEFINE c == conf[home.path]
<1>1. Effective = home.path /\ c \in Confs
  <2>1. UnitPresent
    BY DEF Ready, Load, Effective
  <2>2. QED BY <2>1 DEF Ready, SetupReady, TypeOK
<1>2. Sound(c) /\ serving = SecretOf(c) /\ serving \in Tunnels
  BY <1>1 DEF Ready, Load, Sound
<1>3. c.tunnel \in Tunnels
  <2>1. c.tunnel \notin Names
    BY DEF ServeFits, TypeOK
  <2>2. c.tunnel # None
    BY <1>2 DEF Sound, Is
  <2>3. QED BY <1>1, <2>1, <2>2 DEF Confs
<1>4. serving = c.tunnel
  BY <1>2, <1>3 DEF Sound, Is, TypeOK
<1>5. home.ref \in Tunnels => c.tunnel = home.ref
  BY <1>3 DEF ServeFits, Clean, OfHome
<1>6. QED BY <1>3, <1>4, <1>5 DEF Resolved

\* When validate says ready, the domains that are added now are served: DNS will
\* name the tunnel cloudflared runs, if it runs what is on disk and no command was
\* stopped halfway, had to guess, or found its files edited.
THEOREM ReadyIsServed == Spec => []ReadyServes
<1>1. SecretsInv /\ MatchFit /\ ServeFits /\ [Next]_vars => ServeFits'
  BY ServeStep
<1>2. SecretsInv /\ ServeFits => ReadyServes
  BY ReadyResolves DEF SecretsInv, ReadyServes
<1>3. QED BY <1>1, <1>2, InitServe, Invariant, MatchInvariant, PTL DEF Spec

=============================================================================
