-------------------------- MODULE BootstrapProofs --------------------------
(* Proofs about Bootstrap, for any tunnels and names and any bounds.       *)
EXTENDS Bootstrap, TLAPS

USE BootstrapAssumption, FilesAssumption

-----------------------------------------------------------------------------
(* Types.                                                                  *)

\* TypeOK in two halves: the command, and the world.
CommandType ==
  /\ pc \in Steps /\ outcome \in Outcomes
  /\ tid \in Tunnels \cup {None} /\ file \in Files \cup {None} /\ from \in Files \cup {None}
  /\ plan \in Confs
  /\ told \in [want : Names \cup {None}, advice : {"useForce", "runRuntime"}] \cup {None}

WorldType ==
  /\ tunnels \in [Tunnels -> Names \cup {None}]
  /\ home \in [ref : Names \cup Tunnels, path : Dirs]
  /\ conf \in [Dirs -> Confs]
  /\ creds \in [Files -> Tunnels \cup {None, "cut"}]
  /\ system \in [SystemFiles -> Texts]
  /\ base \subseteq {"packages", "group", "traefik"}
  /\ writable \subseteq Dirs /\ rooted \subseteq {ConfigFile(d) : d \in Dirs} \cup Files
  /\ root \in BOOLEAN /\ serving \in Tunnels \cup {None}
  /\ cmd \in Commands \cup {NoCommand}
  /\ runs \in 0..MaxRuns /\ mishaps \in 0..MaxMishaps
  /\ marks \subseteq {"guessed", "torn", "halfway", "edited"}
  /\ promise \in Confs /\ settled \in BOOLEAN /\ wired \in BOOLEAN

LEMMA TypeHalves == /\ TypeOK => CommandType /\ WorldType
                    /\ (CommandType /\ WorldType)' => TypeOK'
BY DEF TypeOK, CommandType, WorldType

\* The locals a step relies on: a tunnel is created by name, a tunnel command
\* past that knows its tunnel, one that writes credentials has a new tunnel nobody
\* has the secret of, and a wiring copies a file under its own name.
LocalsFit ==
  /\ pc = "create" => Requested(cmd.want) \in Names
  /\ pc \in {"reuse", "writeCredentials", "writeConf", "chmod", "ref"} => tid \in Tunnels
  /\ pc = "writeCredentials" =>
       /\ file = <<home.path, tid>> /\ tunnels[tid] # None
       /\ \A f \in Files : creds[f] # tid
  /\ pc = "writeConf" => file \in Files
  /\ pc \in {"sharedConf", "copy", "permissions"} =>
       file \in Files /\ (from # None => from[2] = file[2])
  /\ pc \in {"plan", "sharedConf", "copy", "permissions"} => cmd.verb = "wiring"

\* A file that is named after a tunnel holds no other one's secret, and only
\* tunnels that exist have one.
SecretsFit ==
  /\ \A f \in Files : f[2] \in Tunnels => creds[f] \in {f[2], None, "cut"}
  /\ \A f \in Files, t \in Tunnels : creds[f] = t => tunnels[t] # None

\* A config names credentials beside it, and those it names after a tunnel are
\* that tunnel's, but for a wiring that guessed.
Named(c, d) ==
  c.creds # None =>
    /\ c.creds[1] = d
    /\ c.creds[2] \in Tunnels /\ c.tunnel # None =>
         c.tunnel = c.creds[2] \/ (d = "shared" /\ "guessed" \in marks)

\* What a tunnel command wrote or found, and what a wiring is about to write:
\* the credentials it copies are those of the tunnel in its plan, unless it takes
\* over a shared config that was mixed up before.
PlanFits ==
  /\ pc = "writeConf" => file[1] = home.path /\ creds[file] = tid
  /\ pc \in {"sharedConf", "copy"} =>
       /\ plan.kind = "map" /\ plan.creds = file /\ Named(plan, "shared")
       /\ from = None => promise = NoConf /\ "guessed" \in marks
       /\ from # None /\ creds[from] \in Tunnels /\ plan.tunnel # None =>
            \/ Is(creds[from], plan.tunnel)
            \/ from = file /\ promise = NoConf
  /\ pc = "copy" =>
       LET c == conf["shared"] IN
         c.kind = "map" /\ c.creds = file /\ c.tunnel = plan.tunnel

MatchFit ==
  /\ \A d \in Dirs : Named(conf[d], d)
  /\ PlanFits
  /\ CredentialsMatch

LEMMA ConfTypes ==
  /\ NoConf \in Confs /\ BrokenConf \in Confs /\ EmptyConf \in Confs
  /\ \A t \in Tunnels \cup Names \cup {None}, f \in Files \cup {None} : Rendered(t, f) \in Confs
BY DEF NoConf, BrokenConf, EmptyConf, Rendered, Confs

LEMMA ConfParts ==
  ASSUME NEW c \in Confs
  PROVE  /\ c.creds \in Files \cup {None} /\ c.tunnel \in Tunnels \cup Names \cup {None}
         /\ \A f \in Files : [c EXCEPT !.creds = f] \in Confs
         /\ [c EXCEPT !.ingress = "routes"] \in Confs
BY DEF Confs

LEMMA EndType ==
  ASSUME NEW how \in Outcomes, End(how)
  PROVE  /\ pc' \in Steps /\ outcome' \in Outcomes
         /\ tid' \in Tunnels \cup {None} /\ file' \in Files \cup {None}
         /\ from' \in Files \cup {None} /\ plan' \in Confs
         /\ pc' = "idle"
BY ConfTypes DEF End, Steps

LEMMA StopType ==
  ASSUME NEW how \in Outcomes, Stop(how)
  PROVE  CommandType' /\ pc' = "idle"
BY EndType DEF Stop, CommandType

LEMMA RefuseType ==
  ASSUME NEW why \in Outcomes, Refuse(why), CommandType, WorldType
  PROVE  CommandType' /\ pc' = "idle"
<1>1. cmd.verb = "tunnel" => cmd.want \in Names \cup {None}
  BY DEF WorldType, Commands, NoCommand
<1>2. told' \in [want : Names \cup {None}, advice : {"useForce", "runRuntime"}] \cup {None}
  BY <1>1 DEF Refuse, CommandType
<1>3. QED BY <1>2, EndType DEF Refuse, CommandType

LEMMA StepType ==
  ASSUME NEW step \in Steps, Step(step), CommandType
  PROVE  CommandType' /\ pc' = step
BY DEF Step, Go, CommandType

LEMMA WroteType ==
  ASSUME NEW cut \in BOOLEAN, NEW step \in Steps, Wrote(cut, step), CommandType, WorldType
  PROVE  /\ CommandType' /\ mishaps' \in 0..MaxMishaps
         /\ ~ cut => Step(step)
         /\ pc' = IF cut THEN "idle" ELSE step
<1>1. CASE cut
  <2>1. CommandType' /\ pc' = "idle"
    BY <1>1, StopType DEF Wrote, Outcomes
  <2>2. mishaps' \in 0..MaxMishaps
    BY <1>1 DEF Wrote, WorldType
  <2>3. QED BY <1>1, <2>1, <2>2
<1>2. CASE ~ cut
  BY <1>2, StepType DEF Wrote, WorldType
<1>3. QED BY <1>1, <1>2

LEMMA SecretType ==
  ASSUME WorldType, NEW c \in Confs
  PROVE  /\ CredentialsOf(c) \in Files \cup {None}
         /\ SecretOf(c) \in Tunnels \cup {None, "cut"}
         /\ SecretOf(c) \in Tunnels =>
              c.creds \in Files /\ c.creds # None /\ creds[c.creds] = SecretOf(c)
BY ConfParts DEF WorldType, CredentialsOf, SecretOf

LEMMA LoadType ==
  ASSUME WorldType
  PROVE  Load \in Tunnels \cup {None}
<1>1. CASE Effective = None
  BY <1>1 DEF Load
<1>2. CASE Effective # None
  <2>1. conf[Effective] \in Confs
    BY <1>2 DEF WorldType, Effective, Dirs
  <2>2. QED BY <2>1 DEF Load, Sound
<1>3. QED BY <1>1, <1>2

LEMMA BeginType ==
  ASSUME TypeOK, NEW c \in Commands, NEW step \in Steps, Begin(c, step),
         settled' \in BOOLEAN, told' \in {told, None}
  PROVE  TypeOK'
<1>1. runs' \in 0..MaxRuns
  BY DEF TypeOK, Begin
<1>2. promise' \in Confs
  BY ConfTypes DEF Begin
<1>3. outcome' \in Outcomes
  BY DEF Begin, Outcomes
<1>4. QED BY <1>1, <1>2, <1>3 DEF TypeOK, Begin, host

LEMMA InitType == Init => TypeOK /\ LocalsFit
<1> SUFFICES ASSUME Init PROVE TypeOK /\ LocalsFit
  OBVIOUS
<1>1. CommandType /\ LocalsFit
  BY ConfTypes DEF Init, CommandType, LocalsFit, Steps, Outcomes
<1>2. PICK t \in Tunnels, u \in Tunnels, cloudflared \in BOOLEAN, broken \in BOOLEAN,
           old \in BOOLEAN, ran \in BOOLEAN : Found(t, u, cloudflared, broken, old, ran)
  BY DEF Init
<1>3. tunnels \in [Tunnels -> Names \cup {None}] /\ home \in [ref : Names \cup Tunnels, path : Dirs]
  BY <1>2 DEF Found
<1>4. conf \in [Dirs -> Confs]
  <2>1. [Rendered(t, <<"own", Generic>>) EXCEPT !.ingress = "routes"] \in Confs
    <3>1. <<"own", Generic>> \in Files
      BY DEF Files, Dirs
    <3>2. QED BY <3>1, ConfTypes, ConfParts
  <2>2. QED BY <1>2, <2>1, ConfTypes DEF Found
<1>5. creds \in [Files -> Tunnels \cup {None, "cut"}]
  BY <1>2 DEF Found
<1>6. system \in [SystemFiles -> Texts] /\ base \subseteq {"packages", "group", "traefik"}
  BY <1>2 DEF Found, SystemFiles, Texts
<1>7. writable \subseteq Dirs /\ serving \in Tunnels \cup {None}
  BY <1>2 DEF Found, Dirs
<1>8. rooted \subseteq {ConfigFile(d) : d \in Dirs} \cup Files
  <2>1. <<"own", Generic>> \in Files /\ "own" \in Dirs
    BY DEF Files, Dirs
  <2>2. QED BY <1>2, <2>1 DEF Found
<1>9. WorldType
  <2>1. runs \in 0..MaxRuns /\ mishaps \in 0..MaxMishaps
    BY DEF Init
  <2>2. settled \in BOOLEAN /\ wired \in BOOLEAN /\ root \in BOOLEAN
    BY DEF Init
  <2>3. promise \in Confs /\ cmd \in Commands \cup {NoCommand} /\ marks = {}
    BY ConfTypes DEF Init
  <2>4. QED BY <1>3, <1>4, <1>5, <1>6, <1>7, <1>8, <2>1, <2>2, <2>3, Zenon DEF WorldType
<1>10. QED BY <1>1, <1>9 DEF TypeOK, CommandType, WorldType

LEMMA TunnelType ==
  ASSUME TypeOK, LocalsFit,
         \/ \E c \in Commands : BeginTunnel(c)
         \/ Lookup \/ Reuse \/ Create \/ WriteCredentials \/ WriteConf \/ Normalize \/ UpdateRef
  PROVE  TypeOK'
<1> USE TypeHalves
<1>1. ASSUME NEW c \in Commands, BeginTunnel(c) PROVE TypeOK'
  <2>1. settled' \in BOOLEAN /\ told' \in {told, None}
    BY <1>1 DEF BeginTunnel
  <2>2. QED BY <1>1, <2>1, BeginType DEF BeginTunnel, Steps
<1>2. CASE Lookup
  <2>1. CommandType'
    BY <1>2, StopType, StepType DEF Lookup, Go, CommandType, Steps, Outcomes
  <2>2. QED BY <1>2, <2>1 DEF Lookup, WorldType, host
<1>3. CASE Reuse
  <2>1. CASE SecretOf(conf[home.path]) = tid
    <3>1. conf[home.path] \in Confs
      BY DEF WorldType
    <3>2. CommandType'
      BY <1>3, <2>1, <3>1, ConfParts DEF Reuse, Go, CommandType, Steps
    <3>3. QED BY <1>3, <3>2 DEF Reuse, WorldType, host
  <2>2. CASE SecretOf(conf[home.path]) # tid
    <3>1. CommandType'
      BY <1>3, <2>2, RefuseType DEF Reuse, Outcomes
    <3>2. QED BY <1>3, <3>1 DEF Reuse, WorldType, host
  <2>3. QED BY <2>1, <2>2
<1>4. CASE Create
  <2>1. CommandType'
    BY <1>4, StopType DEF Create, Go, CommandType, Steps, Outcomes, Files, WorldType
  <2>2. tunnels' \in [Tunnels -> Names \cup {None}]
    BY <1>4 DEF Create, LocalsFit, WorldType
  <2>3. QED BY <1>4, <2>1, <2>2 DEF Create, WorldType, host
<1>5. CASE WriteCredentials
  <2>1. CommandType' /\ mishaps' \in 0..MaxMishaps
    BY <1>5, StopType, RefuseType, WroteType DEF WriteCredentials, Steps, Outcomes, WorldType
  <2>2. creds' \in [Files -> Tunnels \cup {None, "cut"}]
    BY <1>5 DEF WriteCredentials, WorldType, CommandType
  <2>3. QED BY <1>5, <2>1, <2>2 DEF WriteCredentials, WorldType, host
<1>6. CASE WriteConf
  <2>1. CommandType' /\ mishaps' \in 0..MaxMishaps
    BY <1>6, StopType, RefuseType, WroteType, StepType DEF WriteConf, Steps, Outcomes, WorldType
  <2>2. conf' \in [Dirs -> Confs]
    BY <1>6, ConfTypes DEF WriteConf, WorldType, CommandType
  <2>3. marks' \subseteq {"guessed", "torn", "halfway", "edited"} /\ wired' \in BOOLEAN
    BY <1>6 DEF WriteConf, WorldType
  <2>4. QED BY <1>6, <2>1, <2>2, <2>3 DEF WriteConf, WorldType, host
<1>7. CASE Normalize
  <2>1. CommandType'
    BY <1>7, RefuseType, StepType DEF Normalize, Steps, Outcomes
  <2>2. QED BY <1>7, <2>1 DEF Normalize, WorldType, host
<1>8. CASE UpdateRef
  <2>1. CommandType' /\ mishaps' \in 0..MaxMishaps
    BY <1>8, StopType, WroteType DEF UpdateRef, Steps, Outcomes, WorldType
  <2>2. home' \in [ref : Names \cup Tunnels, path : Dirs]
    <3>1. Default \in [ref : Names \cup Tunnels, path : Dirs]
      BY DEF Default, Dirs
    <3>2. tid \in Tunnels
      BY <1>8 DEF UpdateRef, LocalsFit
    <3>3. [home EXCEPT !.ref = tid] \in [ref : Names \cup Tunnels, path : Dirs]
      BY <3>2 DEF WorldType
    <3>4. QED BY <1>8, <3>1, <3>3 DEF UpdateRef
  <2>3. marks' \subseteq {"guessed", "torn", "halfway", "edited"} /\ wired' \in BOOLEAN
    BY <1>8 DEF UpdateRef, WorldType
  <2>4. QED BY <1>8, <2>1, <2>2, <2>3 DEF UpdateRef, WorldType, host
<1>9. QED BY <1>1, <1>2, <1>3, <1>4, <1>5, <1>6, <1>7, <1>8

LEMMA SystemFileType ==
  ASSUME TypeOK, NEW f \in SystemFiles, NEW step \in Steps, WriteSystemFile(f, step)
  PROVE  TypeOK'
<1> USE TypeHalves
<1>1. CommandType' /\ mishaps' \in 0..MaxMishaps
  BY RefuseType, WroteType, StepType DEF WriteSystemFile, Outcomes, WorldType
<1>2. system' \in [SystemFiles -> Texts] /\ wired' \in BOOLEAN
  BY DEF WriteSystemFile, WorldType, Texts
<1>3. QED BY <1>1, <1>2 DEF WriteSystemFile, WorldType

LEMMA WiringType ==
  ASSUME TypeOK, LocalsFit,
         \/ \E c \in Commands : BeginWiring(c)
         \/ Plan \/ WriteShared \/ CopyCredentials \/ Permissions \/ UpdatePath
         \/ WriteService \/ WriteSudoers \/ Enable
  PROVE  TypeOK'
<1> USE TypeHalves
<1>1. ASSUME NEW c \in Commands, BeginWiring(c) PROVE TypeOK'
  BY <1>1, BeginType DEF BeginWiring, Steps
<1>2. CASE Plan
  <2> DEFINE src == conf[Source]
             found == CredentialsOf(src)
             target == <<"shared", IF found # None THEN found[2]
                                   ELSE IF Settings.ref \in Tunnels THEN Settings.ref
                                   ELSE Generic>>
  <2>1. src \in Confs /\ Settings.ref \in Names \cup Tunnels
    BY DEF WorldType, Source, Settings, Default, Dirs
  <2>2. found \in Files \cup {None}
    BY <2>1, SecretType
  <2>3. target \in Files
    BY <2>1, <2>2 DEF Files, Dirs
  <2>4. CASE found = None /\ creds[target] = None
    <3>1. CommandType' /\ UNCHANGED <<marks, promise>>
      BY <1>2, <2>4, RefuseType DEF Plan, Outcomes
    <3>2. QED BY <1>2, <3>1 DEF Plan, WorldType, host
  <2>5. CASE ~ (found = None /\ creds[target] = None)
    <3>1. /\ from' = found /\ file' = target /\ Go("sharedConf") /\ UNCHANGED tid
          /\ plan' = IF src.kind = "map" THEN [src EXCEPT !.creds = target]
                                         ELSE Rendered(Settings.ref, target)
          /\ promise' = IF Sound(src) THEN src ELSE NoConf
          /\ marks' = IF found = None THEN marks \cup {"guessed"} ELSE marks
      BY <1>2, <2>5 DEF Plan
    <3>2. plan' \in Confs /\ promise' \in Confs
      BY <3>1, <2>1, <2>3, ConfTypes, ConfParts
    <3>3. CommandType'
      BY <3>1, <3>2, <2>2, <2>3 DEF CommandType, Go, Steps
    <3>4. QED BY <1>2, <3>1, <3>2, <3>3 DEF Plan, WorldType, host
  <2>6. QED BY <2>4, <2>5
<1>3. CASE WriteShared
  <2>1. CommandType' /\ mishaps' \in 0..MaxMishaps
    BY <1>3, RefuseType, WroteType, StepType DEF WriteShared, Steps, Outcomes, WorldType
  <2>2. conf' \in [Dirs -> Confs]
    BY <1>3, ConfTypes DEF WriteShared, WorldType, CommandType
  <2>3. marks' \subseteq {"guessed", "torn", "halfway", "edited"} /\ wired' \in BOOLEAN
    BY <1>3 DEF WriteShared, WorldType
  <2>4. QED BY <1>3, <2>1, <2>2, <2>3 DEF WriteShared, WorldType, host
<1>4. CASE CopyCredentials
  <2>1. CommandType' /\ mishaps' \in 0..MaxMishaps
    BY <1>4, RefuseType, WroteType, StepType DEF CopyCredentials, Steps, Outcomes, WorldType
  <2>2. creds' \in [Files -> Tunnels \cup {None, "cut"}]
    BY <1>4 DEF CopyCredentials, WorldType, CommandType
  <2>3. marks' \subseteq {"guessed", "torn", "halfway", "edited"} /\ wired' \in BOOLEAN
    BY <1>4 DEF CopyCredentials, WorldType
  <2>4. QED BY <1>4, <2>1, <2>2, <2>3 DEF CopyCredentials, WorldType, host
<1>5. CASE Permissions
  <2>1. CommandType'
    BY <1>5, RefuseType, StepType DEF Permissions, Steps, Outcomes
  <2>2. rooted' \subseteq {ConfigFile(d) : d \in Dirs} \cup Files /\ writable' \subseteq Dirs
    BY <1>5 DEF Permissions, WorldType, LocalsFit, Dirs
  <2>3. QED BY <1>5, <2>1, <2>2 DEF Permissions, WorldType
<1>6. CASE UpdatePath
  <2>1. CommandType' /\ mishaps' \in 0..MaxMishaps
    BY <1>6, WroteType DEF UpdatePath, Steps
  <2>2. home' \in [ref : Names \cup Tunnels, path : Dirs]
    <3>1. Default \in [ref : Names \cup Tunnels, path : Dirs]
      BY DEF Default, Dirs
    <3>2. [home EXCEPT !.path = "shared"] \in [ref : Names \cup Tunnels, path : Dirs]
      BY DEF WorldType, Dirs
    <3>3. QED BY <1>6, <3>1, <3>2 DEF UpdatePath, WorldType
  <2>3. wired' \in BOOLEAN
    BY <1>6 DEF UpdatePath
  <2>4. QED BY <1>6, <2>1, <2>2, <2>3 DEF UpdatePath, WorldType, host
<1>7. CASE WriteService
  BY <1>7, SystemFileType DEF WriteService, Steps, SystemFiles
<1>8. CASE WriteSudoers
  BY <1>8, SystemFileType DEF WriteSudoers, Steps, SystemFiles
<1>9. CASE Enable
  <2>1. CommandType'
    BY <1>9, StopType DEF Enable, Outcomes
  <2>2. serving' \in Tunnels \cup {None} /\ wired' \in BOOLEAN
    BY <1>9, LoadType DEF Enable, WorldType
  <2>3. QED BY <1>9, <2>1, <2>2 DEF Enable, WorldType
<1>10. QED BY <1>1, <1>2, <1>3, <1>4, <1>5, <1>6, <1>7, <1>8, <1>9

LEMMA RuntimeType ==
  ASSUME TypeOK,
         \/ \E c \in Commands : BeginRuntime(c)
         \/ Packages \/ Groups \/ Directories \/ WriteCompose \/ StartTraefik
  PROVE  TypeOK'
<1> USE TypeHalves
<1>1. ASSUME NEW c \in Commands, BeginRuntime(c) PROVE TypeOK'
  BY <1>1, BeginType DEF BeginRuntime, Steps
<1>2. ASSUME NEW step \in Steps, NEW what \in {"packages", "group"}, NEW next \in Steps,
             Install(step, what, next)
      PROVE  TypeOK'
  <2>1. CommandType'
    BY <1>2, StopType, StepType DEF Install, Outcomes
  <2>2. QED BY <1>2, <2>1 DEF Install, WorldType
<1>3. CASE Packages \/ Groups
  BY <1>2, <1>3 DEF Packages, Groups, Steps
<1>4. CASE Directories
  <2>1. CommandType'
    BY <1>4, StepType DEF Directories, Steps
  <2>2. Settings.path \in Dirs
    BY DEF Settings, Default, Dirs, WorldType
  <2>3. QED BY <1>4, <2>1, <2>2 DEF Directories, WorldType
<1>5. CASE WriteCompose
  BY <1>5, SystemFileType DEF WriteCompose, Steps, SystemFiles
<1>6. CASE StartTraefik
  <2>1. CommandType'
    BY <1>6, StopType DEF StartTraefik, Outcomes
  <2>2. QED BY <1>6, <2>1 DEF StartTraefik, WorldType
<1>7. QED BY <1>1, <1>3, <1>4, <1>5, <1>6

LEMMA BesideType ==
  ASSUME TypeOK,
         Kill \/ AddRoutes \/ RestartService \/ \E d \in Dirs : EditHome(d)
  PROVE  TypeOK'
<1> USE TypeHalves
<1>1. CASE Kill
  <2>1. CommandType'
    BY <1>1, StopType DEF Kill, Outcomes
  <2>2. QED BY <1>1, <2>1 DEF Kill, WorldType, host
<1>2. CASE AddRoutes
  <2>1. conf' \in [Dirs -> Confs] /\ promise' \in Confs /\ wired' \in BOOLEAN
    BY <1>2, ConfParts, ConfTypes DEF AddRoutes, WorldType
  <2>2. QED BY <1>2, <2>1 DEF AddRoutes, WorldType, CommandType, host, local
<1>3. CASE RestartService
  BY <1>3, LoadType DEF RestartService, WorldType, CommandType, local, history
<1>4. ASSUME NEW d \in Dirs, EditHome(d) PROVE TypeOK'
  <2>1. mishaps' \in 0..MaxMishaps
    BY <1>4 DEF EditHome, WorldType
  <2>2. QED BY <1>4, <2>1 DEF EditHome, WorldType, CommandType, host, local
<1>5. QED BY <1>1, <1>2, <1>3, <1>4

LEMMA TypeStep ==
  ASSUME TypeOK, LocalsFit, [Next]_vars
  PROVE  TypeOK'
<1>1. CASE UNCHANGED vars
  BY <1>1 DEF TypeOK, vars, host, local, history
<1>2. CASE Next
  BY <1>2, TunnelType, WiringType, RuntimeType, BesideType DEF Next
<1>3. QED BY <1>1, <1>2

-----------------------------------------------------------------------------
(* The locals and the secrets.                                             *)

\* A step after which the command is nowhere the locals matter.
LEMMA FitElsewhere ==
  ASSUME pc' \notin {"create", "reuse", "writeCredentials", "writeConf", "chmod", "ref",
                     "plan", "sharedConf", "copy", "permissions"}
  PROVE  LocalsFit'
BY DEF LocalsFit

LEMMA ElsewherePc ==
  /\ \A why : Refuse(why) => pc' = "idle"
  /\ \A how : Stop(how) => pc' = "idle"
  /\ \A step : Step(step) => pc' = step /\ UNCHANGED <<tid, file, from>>
  /\ \A cut, step : Wrote(cut, step) => pc' = "idle" \/ Step(step)
BY DEF Refuse, Stop, End, Step, Go, Wrote

LEMMA FitStep ==
  ASSUME TypeOK, LocalsFit, SecretsFit, [Next]_vars
  PROVE  LocalsFit'
<1> USE TypeHalves
<1>1. CASE UNCHANGED vars
  BY <1>1 DEF LocalsFit, Requested, vars, host, local
<1>2. CASE \E c \in Commands : BeginTunnel(c) \/ BeginWiring(c) \/ BeginRuntime(c)
  BY <1>2, FitElsewhere DEF BeginTunnel, BeginWiring, BeginRuntime, Begin, LocalsFit
<1>3. CASE Lookup
  BY <1>3, ElsewherePc DEF Lookup, Go, LocalsFit, Requested
<1>4. CASE Reuse
  <2>1. SecretOf(conf[home.path]) = tid => conf[home.path].creds \in Files
    BY <1>4, SecretType DEF Reuse, LocalsFit, WorldType
  <2>2. QED BY <1>4, <2>1, ElsewherePc DEF Reuse, Go, LocalsFit
<1>5. CASE Create
  <2>1. CASE pc' = "idle"
    BY <2>1, FitElsewhere
  <2>2. CASE pc' # "idle"
    <3>1. PICK t \in Tunnels :
            /\ tunnels[t] = None
            /\ tunnels' = [tunnels EXCEPT ![t] = Requested(cmd.want)]
            /\ pc' = "writeCredentials" /\ tid' = t /\ file' = <<home.path, t>>
            /\ UNCHANGED <<home, creds>>
      BY <1>5, <2>2, ElsewherePc DEF Create, Go
    <3>2. tunnels'[t] # None
      BY <1>5, <3>1 DEF Create, LocalsFit, WorldType
    <3>3. \A f \in Files : creds[f] # t
      BY <3>1 DEF SecretsFit
    <3>4. QED BY <3>1, <3>2, <3>3 DEF LocalsFit
  <2>3. QED BY <2>1, <2>2
<1>6. CASE WriteCredentials
  <2>1. file \in Files
    BY <1>6 DEF WriteCredentials, LocalsFit, WorldType, Files
  <2>2. QED BY <1>6, <2>1, ElsewherePc DEF WriteCredentials, LocalsFit
<1>7. CASE WriteConf
  BY <1>7, ElsewherePc DEF WriteConf, LocalsFit
<1>8. CASE Normalize
  BY <1>8, ElsewherePc DEF Normalize, LocalsFit
<1>9. CASE UpdateRef
  BY <1>9, ElsewherePc, FitElsewhere DEF UpdateRef, Wrote
<1>10. CASE Plan
  <2>1. CASE pc' = "idle"
    BY <2>1, FitElsewhere
  <2>2. CASE pc' # "idle"
    <3> DEFINE found == CredentialsOf(conf[Source])
    <3>1. /\ pc' = "sharedConf" /\ from' = found
          /\ cmd.verb = "wiring" /\ UNCHANGED cmd
          /\ file' = <<"shared", IF found # None THEN found[2]
                                 ELSE IF Settings.ref \in Tunnels THEN Settings.ref
                                 ELSE Generic>>
      BY <1>10, <2>2, ElsewherePc DEF Plan, Go, LocalsFit
    <3>2. found \in Files \cup {None}
      BY SecretType DEF WorldType, Source, Settings, Default, Dirs
    <3>3. file' \in Files
      BY <3>1, <3>2 DEF Files, Dirs
    <3>4. from' # None => from'[2] = file'[2]
      BY <3>1
    <3>5. QED BY <3>1, <3>3, <3>4 DEF LocalsFit
  <2>3. QED BY <2>1, <2>2
<1>11. CASE WriteShared
  BY <1>11, ElsewherePc DEF WriteShared, LocalsFit
<1>12. CASE CopyCredentials
  BY <1>12, ElsewherePc DEF CopyCredentials, LocalsFit
<1>13. CASE Permissions \/ UpdatePath
  BY <1>13, ElsewherePc, FitElsewhere DEF Permissions, UpdatePath
<1>14. CASE WriteService \/ WriteSudoers \/ WriteCompose
  BY <1>14, ElsewherePc, FitElsewhere DEF WriteService, WriteSudoers, WriteCompose, WriteSystemFile
<1>15. CASE Enable \/ Packages \/ Groups \/ Directories \/ StartTraefik \/ Kill
  BY <1>15, ElsewherePc, FitElsewhere
     DEF Enable, Packages, Groups, Directories, StartTraefik, Kill, Install
<1>16. CASE AddRoutes \/ RestartService
  BY <1>16 DEF AddRoutes, RestartService, local, LocalsFit, Requested
<1>17. ASSUME NEW d \in Dirs, EditHome(d) PROVE LocalsFit'
  BY <1>17, FitElsewhere DEF EditHome, local
<1>18. QED
  BY <1>1, <1>2, <1>3, <1>4, <1>5, <1>6, <1>7, <1>8, <1>9, <1>10, <1>11, <1>12, <1>13,
     <1>14, <1>15, <1>16, <1>17 DEF Next

\* Who writes credentials, and who creates tunnels.
LEMMA Writers ==
  ASSUME [Next]_vars
  PROVE  /\ UNCHANGED creds \/ WriteCredentials \/ CopyCredentials
         /\ UNCHANGED tunnels \/ Create
BY DEF Next, vars, host, local, BeginTunnel, BeginWiring, BeginRuntime, Begin, Lookup, Reuse,
       Create, WriteCredentials, WriteConf, Normalize, UpdateRef, Plan, WriteShared,
       CopyCredentials, Permissions, UpdatePath, WriteService, WriteSudoers, Enable, Packages,
       Groups, Install, Directories, WriteCompose, WriteSystemFile, StartTraefik, Kill,
       AddRoutes, RestartService, EditHome

LEMMA SecretsStep ==
  ASSUME TypeOK, LocalsFit, SecretsFit, [Next]_vars
  PROVE  SecretsFit'
<1> USE TypeHalves
<1>1. CASE UNCHANGED <<creds, tunnels>>
  BY <1>1 DEF SecretsFit
<1>2. CASE Create
  <2>1. UNCHANGED creds /\ \A t \in Tunnels : tunnels[t] # None => tunnels'[t] # None
    BY <1>2 DEF Create, LocalsFit, WorldType
  <2>2. QED BY <2>1 DEF SecretsFit
<1>3. CASE WriteCredentials /\ creds' # creds
  <2>1. UNCHANGED tunnels /\ \A f \in Files : creds'[f] \in {creds[f], "cut", tid}
    BY <1>3 DEF WriteCredentials, WorldType
  <2>2. tid \in Tunnels /\ tunnels[tid] # None /\ file[2] = tid
    BY <1>3 DEF WriteCredentials, LocalsFit
  <2>3. \A f \in Files : creds'[f] = tid => f = file \/ creds[f] = tid
    BY <1>3 DEF WriteCredentials, WorldType
  <2>4. QED BY <2>1, <2>2, <2>3 DEF SecretsFit
<1>4. CASE CopyCredentials /\ creds' # creds
  <2>1. UNCHANGED tunnels /\ from \in Files /\ file \in Files /\ from[2] = file[2]
    BY <1>4 DEF CopyCredentials, LocalsFit, CommandType
  <2>2. \A f \in Files : creds'[f] = creds[f] \/ (f = file /\ creds'[f] \in {"cut", creds[from]})
    BY <1>4, <2>1 DEF CopyCredentials, WorldType
  <2>3. QED BY <2>1, <2>2 DEF SecretsFit
<1>5. QED
  <2>1. UNCHANGED creds \/ (UNCHANGED tunnels /\ (WriteCredentials \/ CopyCredentials))
    BY Writers DEF WriteCredentials, CopyCredentials
  <2>2. QED BY <1>1, <1>2, <1>3, <1>4, <2>1, Writers

LEMMA InitSecrets == Init => SecretsFit
<1> SUFFICES ASSUME Init PROVE SecretsFit
  OBVIOUS
<1>1. PICK t \in Tunnels, u \in Tunnels, cloudflared \in BOOLEAN, broken \in BOOLEAN,
           old \in BOOLEAN, ran \in BOOLEAN : Found(t, u, cloudflared, broken, old, ran)
  BY DEF Init
<1>2. /\ cloudflared => tunnels[t] # None
      /\ old => tunnels[u] # None
  BY <1>1 DEF Found
<1>3. \A f \in Files : \/ creds[f] = None
                       \/ f = <<"own", Generic>> /\ cloudflared /\ creds[f] = t
                       \/ f = <<"shared", Generic>> /\ old /\ creds[f] = u
  BY <1>1 DEF Found
<1>4. QED BY <1>2, <1>3 DEF SecretsFit, Generic

SecretsInv == TypeOK /\ LocalsFit /\ SecretsFit

LEMMA Invariant == Spec => []SecretsInv
<1>1. Init => SecretsInv
  BY InitType, InitSecrets DEF SecretsInv
<1>2. SecretsInv /\ [Next]_vars => SecretsInv'
  BY TypeStep, FitStep, SecretsStep DEF SecretsInv
<1>3. QED BY <1>1, <1>2, PTL DEF Spec

\* Every reachable state of the bootstrap commands is well typed.
THEOREM TypeCorrect == Spec => []TypeOK
<1>1. SecretsInv => TypeOK
  BY DEF SecretsInv
<1>2. QED BY <1>1, Invariant, PTL

\* No command but `bootstrap wiring --force` loses the last copy of a tunnel's
\* secret, wherever commands stop: bootstrap tunnel writes only where no secret is,
\* and a wiring without --force only where no file is.
THEOREM SecretsAreKept == Spec => SecretsKept
<1> DEFINE Kept == \A t \in Tunnels : (\E f \in Files : creds[f] = t) =>
                     (\E f \in Files : creds'[f] = t) \/ (cmd.verb = "wiring" /\ cmd.force)
<1>1. SecretsInv /\ [Next]_vars => [Kept]_vars
  <2> SUFFICES ASSUME SecretsInv, [Next]_vars PROVE Kept
    OBVIOUS
  <2> USE TypeHalves DEF SecretsInv
  <2>1. CASE UNCHANGED creds
    BY <2>1
  <2>2. CASE WriteCredentials
    <3>1. \A f \in Files : f # file => creds'[f] = creds[f]
      BY <2>2 DEF WriteCredentials, WorldType
    <3>2. creds[file] \notin Tunnels
      <4>1. file \in Files
        BY <2>2 DEF WriteCredentials, LocalsFit, WorldType, Files
      <4>2. QED BY <2>2, <4>1 DEF WriteCredentials, LocalsFit, SecretsFit
    <3>3. QED BY <3>1, <3>2
  <2>3. CASE CopyCredentials
    <3>1. CASE cmd.force
      <4>1. cmd.verb = "wiring"
        BY <2>3 DEF CopyCredentials, LocalsFit
      <4>2. QED BY <3>1, <4>1
    <3>2. CASE ~ cmd.force
      BY <2>3, <3>2 DEF CopyCredentials, WorldType, LocalsFit
    <3>3. QED BY <3>1, <3>2
  <2>4. QED BY <2>1, <2>2, <2>3, Writers
<1>2. QED BY <1>1, Invariant, PTL DEF Spec, SecretsKept

-----------------------------------------------------------------------------
(* Configs and credentials.                                                *)

LEMMA InitMatch == Init => MatchFit
<1> SUFFICES ASSUME Init PROVE MatchFit
  OBVIOUS
<1>1. PICK t \in Tunnels, u \in Tunnels, cloudflared \in BOOLEAN, broken \in BOOLEAN,
           old \in BOOLEAN, ran \in BOOLEAN : Found(t, u, cloudflared, broken, old, ran)
  BY DEF Init
<1>2. \A d \in Dirs : \/ conf[d].kind # "map" /\ conf[d].creds = None /\ conf[d].tunnel = None
                      \/ /\ d = "own" /\ cloudflared
                         /\ conf[d].creds = <<"own", Generic>> /\ conf[d].tunnel = t
  <2> DEFINE hand == [Rendered(t, <<"own", Generic>>) EXCEPT !.ingress = "routes"]
  <2>1. hand.creds = <<"own", Generic>> /\ hand.tunnel = t
    BY DEF Rendered
  <2>2. \A c \in {NoConf, BrokenConf} : c.kind # "map" /\ c.creds = None /\ c.tunnel = None
    BY DEF NoConf, BrokenConf
  <2>3. \A d \in Dirs : conf[d] \in {NoConf, BrokenConf} \/ (d = "own" /\ cloudflared /\ conf[d] = hand)
    BY <1>1 DEF Found, Dirs
  <2>4. QED BY <2>1, <2>2, <2>3
<1>3. Generic \notin Tunnels
  BY DEF Generic
<1>4. \A d \in Dirs : Named(conf[d], d)
  BY <1>2, <1>3 DEF Named
<1>5. PlanFits
  BY DEF Init, PlanFits
<1>6. ~ Mixed(conf["own"]) /\ ~ Mixed(conf["shared"])
  <2>1. <<"own", Generic>> \in Files /\ (cloudflared => creds[<<"own", Generic>>] = t /\ tunnels[t] # None)
    BY <1>1 DEF Found, Files, Dirs
  <2>2. QED BY <1>2, <2>1 DEF Mixed, SecretOf, CredentialsOf, Is, Dirs
<1>7. QED BY <1>4, <1>5, <1>6 DEF MatchFit, CredentialsMatch, Dirs

\* Nothing but tunnels and marks changes.
LEMMA Quiet ==
  ASSUME TypeOK, SecretsFit, MatchFit, UNCHANGED <<conf, creds>>,
         \A t \in Tunnels : tunnels[t] # None => tunnels'[t] = tunnels[t],
         \A m \in {"guessed", "torn"} : m \in marks => m \in marks'
  PROVE  (\A d \in Dirs : Named(conf[d], d))' /\ CredentialsMatch'
<1>1. (\A d \in Dirs : Named(conf[d], d))'
  BY DEF MatchFit, Named
<1>2. ASSUME NEW d \in Dirs, Mixed(conf[d])' PROVE Mixed(conf[d])
  <2>1. SecretOf(conf[d])' = SecretOf(conf[d])
    BY DEF SecretOf, CredentialsOf
  <2>2. SecretOf(conf[d]) \in Tunnels => tunnels[SecretOf(conf[d])] # None
    <3>1. conf[d] \in Confs /\ WorldType
      BY TypeHalves DEF TypeOK
    <3>2. QED BY <3>1, SecretType DEF SecretsFit
  <2>3. QED BY <1>2, <2>1, <2>2 DEF Mixed, Is
<1>3. CredentialsMatch'
  BY <1>2 DEF MatchFit, CredentialsMatch
<1>4. QED BY <1>1, <1>3

\* A step after which no command relies on what it read.
LEMMA PlanElsewhere ==
  ASSUME pc' \notin {"writeConf", "sharedConf", "copy"}
  PROVE  PlanFits'
BY DEF PlanFits

LEMMA MatchTunnelStep ==
  ASSUME TypeOK, LocalsFit, SecretsFit, MatchFit,
         Lookup \/ Reuse \/ Create \/ WriteCredentials \/ WriteConf \/ Normalize \/ UpdateRef
  PROVE  MatchFit'
<1> USE TypeHalves
<1>1. CASE Lookup \/ Normalize \/ UpdateRef
  <2>1. pc' \in {"idle", "reuse", "create", "ref"}
    <3>1. CASE Lookup
      BY <3>1, ElsewherePc DEF Lookup, Go
    <3>2. CASE Normalize
      BY <3>2, ElsewherePc DEF Normalize
    <3>3. CASE UpdateRef
      BY <3>3, ElsewherePc DEF UpdateRef, Wrote
    <3>4. QED BY <1>1, <3>1, <3>2, <3>3
  <2>2. PlanFits'
    BY <2>1, PlanElsewhere
  <2>3. QED BY <1>1, <2>2, Quiet DEF Lookup, Normalize, UpdateRef, MatchFit
<1>2. CASE Reuse
  <2> DEFINE c == conf[home.path]
  <2>1. CASE SecretOf(c) = tid
    <3>1. pc' = "writeConf" /\ file' = c.creds /\ UNCHANGED <<tid, home, creds>>
      BY <1>2, <2>1 DEF Reuse, Go
    <3>2. tid \in Tunnels /\ home.path \in Dirs /\ c \in Confs
      BY <1>2 DEF Reuse, LocalsFit, WorldType
    <3>3. c.creds \in Files /\ c.creds # None /\ creds[c.creds] = tid
      BY <2>1, <3>2, SecretType
    <3>4. c.creds[1] = home.path
      BY <3>2, <3>3 DEF MatchFit, Named, Files
    <3>5. PlanFits'
      BY <3>1, <3>3, <3>4 DEF PlanFits
    <3>6. QED BY <1>2, <3>5, Quiet DEF Reuse, MatchFit
  <2>2. CASE SecretOf(c) # tid
    <3>1. PlanFits'
      BY <1>2, <2>2, ElsewherePc, PlanElsewhere DEF Reuse
    <3>2. QED BY <1>2, <3>1, Quiet DEF Reuse, MatchFit
  <2>3. QED BY <2>1, <2>2
<1>3. CASE Create
  <2>1. PlanFits'
    BY <1>3, ElsewherePc, PlanElsewhere DEF Create, Go
  <2>2. \A t \in Tunnels : tunnels[t] # None => tunnels'[t] = tunnels[t]
    BY <1>3 DEF Create, WorldType
  <2>3. QED BY <1>3, <2>1, <2>2, Quiet DEF Create, MatchFit
<1>4. CASE WriteCredentials
  <2>1. file = <<home.path, tid>> /\ tid \in Tunnels /\ tunnels[tid] # None
    BY <1>4 DEF WriteCredentials, LocalsFit
  <2>2. file \in Files
    BY <2>1 DEF Files, WorldType
  <2>3. /\ UNCHANGED <<conf, tunnels, marks, home>>
        /\ \A f \in Files : f # file => creds'[f] = creds[f]
        /\ creds'[file] \in {creds[file], "cut", tid}
    BY <1>4, <2>2 DEF WriteCredentials, WorldType, host
  <2>4. PlanFits'
    <3>1. CASE pc' = "writeConf"
      <4>1. creds' = [creds EXCEPT ![file] = tid] /\ UNCHANGED <<tid, file, home>>
        BY <1>4, <3>1, ElsewherePc DEF WriteCredentials, Wrote, Stop, End, Step
      <4>2. QED BY <2>1, <2>2, <3>1, <4>1 DEF PlanFits, WorldType
    <3>2. CASE pc' # "writeConf"
      BY <1>4, <3>2, ElsewherePc, PlanElsewhere DEF WriteCredentials
    <3>3. QED BY <3>1, <3>2
  <2>5. (\A d \in Dirs : Named(conf[d], d))'
    BY <2>3 DEF MatchFit, Named
  <2>6. ASSUME NEW d \in Dirs, Mixed(conf[d])'
        PROVE  d = "shared" /\ marks \cap {"guessed", "torn"} # {}
    <3> DEFINE c == conf[d]
    <3>1. c \in Confs /\ c' = c
      BY <2>3 DEF WorldType
    <3>2. CASE c.creds = file
      <4>1. SecretOf(c)' \in Tunnels => SecretOf(c)' = tid
        <5>1. creds[file] \in {tid, None, "cut"}
          BY <2>1, <2>2 DEF SecretsFit
        <5>2. QED BY <2>3, <3>1, <3>2, <5>1 DEF SecretOf, CredentialsOf
      <4>2. c.creds # None /\ c.tunnel # None /\ c.tunnel # tid
        <5>1. SecretOf(c)' = tid /\ c.tunnel # None /\ c.tunnel # tid
          BY <2>1, <2>3, <2>6, <3>1, <4>1 DEF Mixed, Is
        <5>2. c.creds # None
          BY <2>1, <3>1, <5>1 DEF SecretOf, CredentialsOf
        <5>3. QED BY <5>1, <5>2
      <4>3. QED BY <2>1, <3>2, <4>2 DEF MatchFit, Named
    <3>3. CASE c.creds # file
      <4>1. SecretOf(c)' = SecretOf(c)
        BY <2>3, <3>1, <3>3, ConfParts DEF SecretOf, CredentialsOf
      <4>2. Mixed(c)
        BY <2>3, <2>6, <3>1, <4>1 DEF Mixed, Is
      <4>3. QED BY <4>2 DEF MatchFit, CredentialsMatch
    <3>4. QED BY <3>2, <3>3
  <2>7. QED BY <2>3, <2>4, <2>5, <2>6 DEF MatchFit, CredentialsMatch
<1>5. CASE WriteConf
  <2>1. PlanFits'
    BY <1>5, ElsewherePc, PlanElsewhere DEF WriteConf
  <2>2. CASE UNCHANGED conf
    BY <1>5, <2>1, <2>2, Quiet DEF WriteConf, MatchFit
  <2>3. CASE ~ UNCHANGED conf
    <3> DEFINE d0 == home.path
    <3>1. /\ UNCHANGED <<creds, tunnels>> /\ marks' = marks \cup {"halfway"}
          /\ \E c \in {EmptyConf, Rendered(tid, file)} : conf' = [conf EXCEPT ![d0] = c]
      BY <1>5, <2>3 DEF WriteConf
    <3>2. /\ tid \in Tunnels /\ d0 \in Dirs /\ file \in Files
          /\ file[1] = d0 /\ creds[file] = tid /\ tunnels[tid] # None
          /\ file[2] \in Tunnels => file[2] = tid
      <4>1. tid \in Tunnels /\ d0 \in Dirs /\ file \in Files /\ file[1] = d0 /\ creds[file] = tid
        BY <1>5 DEF WriteConf, LocalsFit, MatchFit, PlanFits, WorldType
      <4>2. file[2] \in Tunnels => creds[file] \in {file[2], None, "cut"}
        BY <4>1 DEF SecretsFit
      <4>3. QED BY <4>1, <4>2 DEF SecretsFit
    <3>3. PICK c \in {EmptyConf, Rendered(tid, file)} : conf' = [conf EXCEPT ![d0] = c]
      BY <3>1
    <3>4. /\ (c.creds = None /\ c.tunnel = None) \/ (c.creds = file /\ c.tunnel = tid)
          /\ conf'[d0] = c
      BY <3>2, <3>3 DEF EmptyConf, NoConf, Rendered, WorldType
    <3>5. ASSUME NEW d \in Dirs
          PROVE  Named(conf[d], d)' /\ (Mixed(conf[d])' => Mixed(conf[d]) /\ d # d0)
      <4>1. CASE d = d0
        <5>1. Named(conf[d], d)'
          BY <3>1, <3>2, <3>4, <4>1 DEF Named
        <5>2. ~ Mixed(conf[d])'
          BY <3>1, <3>2, <3>4, <4>1 DEF Mixed, SecretOf, CredentialsOf, Is
        <5>3. QED BY <4>1, <5>1, <5>2
      <4>2. CASE d # d0
        <5>1. conf'[d] = conf[d]
          BY <3>3, <4>2 DEF WorldType
        <5>2. QED BY <3>1, <4>2, <5>1 DEF MatchFit, Named, Mixed, SecretOf, CredentialsOf, Is
      <4>3. QED BY <4>1, <4>2
    <3>6. QED BY <2>1, <3>1, <3>5 DEF MatchFit, CredentialsMatch
  <2>4. QED BY <2>2, <2>3
<1>6. QED BY <1>1, <1>2, <1>3, <1>4, <1>5

LEMMA PlanStep ==
  ASSUME TypeOK, LocalsFit, SecretsFit, MatchFit, Plan
  PROVE  MatchFit'
<1> USE TypeHalves
<1> DEFINE src == conf[Source]
           found == CredentialsOf(src)
           target == <<"shared", IF found # None THEN found[2]
                                 ELSE IF Settings.ref \in Tunnels THEN Settings.ref
                                 ELSE Generic>>
<1>1. Source \in Dirs /\ src \in Confs
  BY DEF WorldType, Source, Settings, Default, Dirs
<1>2. (\A d \in Dirs : Named(conf[d], d))' /\ CredentialsMatch'
  BY Quiet DEF Plan, host
<1>3. CASE found = None /\ creds[target] = None
  <2>1. PlanFits'
    BY <1>3, ElsewherePc, PlanElsewhere DEF Plan
  <2>2. QED BY <1>2, <2>1 DEF MatchFit
<1>4. CASE ~ (found = None /\ creds[target] = None)
  <2>1. /\ from' = found /\ file' = target /\ pc' = "sharedConf" /\ UNCHANGED <<tunnels, creds>>
        /\ plan' = IF src.kind = "map" THEN [src EXCEPT !.creds = target]
                                       ELSE Rendered(Settings.ref, target)
        /\ promise' = IF Sound(src) THEN src ELSE NoConf
        /\ marks' = IF found = None THEN marks \cup {"guessed"} ELSE marks
    BY <1>4 DEF Plan, Go
  <2>2. plan'.kind = "map" /\ plan'.creds = target /\ (found # None => plan'.tunnel = src.tunnel)
    <3>1. found # None => src.kind = "map"
      BY DEF CredentialsOf
    <3>2. QED BY <1>1, <2>1, <3>1 DEF Confs, Rendered
  <2>3. found # None => found = src.creds /\ src.creds # None /\ found[1] = Source /\ found \in Files
    BY <1>1, ConfParts DEF CredentialsOf, MatchFit, Named
  <2>4. Named(plan, "shared")'
    <3>1. target[1] = "shared" /\ (found # None => target[2] = found[2])
      OBVIOUS
    <3>2. found # None /\ found[2] \in Tunnels /\ src.tunnel # None =>
            src.tunnel = found[2] \/ "guessed" \in marks
      BY <1>1, <2>3 DEF MatchFit, Named
    <3>3. QED BY <2>1, <2>2, <3>1, <3>2 DEF Named
  <2>5. found = None => promise' = NoConf /\ "guessed" \in marks'
    BY <2>1, Zenon DEF Sound, SecretOf
  <2>6. found # None /\ creds[found] \in Tunnels /\ plan'.tunnel # None =>
          Is(creds[found], plan'.tunnel) \/ (found = target /\ promise' = NoConf)
    <3> SUFFICES ASSUME found # None, creds[found] \in Tunnels, plan'.tunnel # None,
                        ~ Is(creds[found], plan'.tunnel)
                 PROVE  found = target /\ promise' = NoConf
      OBVIOUS
    <3>1. SecretOf(src) = creds[found]
      BY <2>3 DEF SecretOf
    <3>2. Mixed(src) /\ ~ Sound(src)
      BY <2>2, <3>1 DEF Mixed, Sound
    <3>3. Source = "shared"
      BY <1>1, <3>2 DEF MatchFit, CredentialsMatch
    <3>4. found = <<found[1], found[2]>>
      BY <2>3 DEF Files
    <3>5. QED BY <2>1, <2>3, <3>2, <3>3, <3>4
  <2>7. PlanFits'
    <3>1. Is(creds[found], plan'.tunnel) <=> Is(creds[from], plan.tunnel)'
      BY <2>1 DEF Is
    <3>2. QED BY <2>1, <2>2, <2>4, <2>5, <2>6, <3>1 DEF PlanFits
  <2>8. QED BY <1>2, <2>7 DEF MatchFit
<1>5. QED BY <1>3, <1>4

LEMMA SharedStep ==
  ASSUME TypeOK, LocalsFit, SecretsFit, MatchFit, WriteShared
  PROVE  MatchFit'
<1> USE TypeHalves
<1>1. PlanFits /\ plan.kind = "map" /\ plan.creds = file /\ Named(plan, "shared")
  BY DEF WriteShared, MatchFit, PlanFits
<1>2. UNCHANGED <<tunnels, creds, home, promise>>
  BY DEF WriteShared
<1>3. CASE UNCHANGED conf
  <2>1. (\A d \in Dirs : Named(conf[d], d))' /\ CredentialsMatch'
    BY <1>3, Quiet DEF WriteShared
  <2>2. CASE pc' = "copy"
    <3>1. UNCHANGED <<tid, file, from, plan>>
      BY <2>2, ElsewherePc DEF WriteShared, Step, Wrote
    <3>2. conf["shared"] = plan /\ \A m \in marks : m \in marks'
      <4>1. (\A why : ~ Refuse(why)) /\ ~ Wrote(TRUE, "copy")
        BY <2>2, ElsewherePc DEF Wrote
      <4>2. conf["shared"] = plan \/ conf' = [conf EXCEPT !["shared"] = plan]
        BY <4>1 DEF WriteShared
      <4>3. conf["shared"] = plan
        BY <1>3, <4>2 DEF WorldType, Dirs
      <4>4. \A m \in marks : m \in marks'
        BY <4>1 DEF WriteShared
      <4>5. QED BY <4>3, <4>4
    <3>3. PlanFits'
      BY <1>1, <1>2, <1>3, <2>2, <3>1, <3>2 DEF PlanFits, Named, Is, WriteShared
    <3>4. QED BY <2>1, <3>3 DEF MatchFit
  <2>3. CASE pc' # "copy"
    <3>1. PlanFits'
      BY <2>3, ElsewherePc, PlanElsewhere DEF WriteShared
    <3>2. QED BY <2>1, <3>1 DEF MatchFit
  <2>4. QED BY <2>2, <2>3
<1>4. CASE ~ UNCHANGED conf
  <2>1. PICK cut \in BOOLEAN :
          /\ conf' = [conf EXCEPT !["shared"] = IF cut THEN EmptyConf ELSE plan]
          /\ Wrote(cut, "copy") /\ marks' = marks \cup {"torn"}
    BY <1>4 DEF WriteShared
  <2>2. /\ conf'["shared"] = (IF cut THEN EmptyConf ELSE plan)
        /\ \A d \in Dirs : d # "shared" => conf'[d] = conf[d]
    BY <2>1 DEF WorldType, Dirs
  <2>3. ASSUME NEW d \in Dirs PROVE Named(conf[d], d)'
    BY <1>1, <2>1, <2>2 DEF MatchFit, Named, EmptyConf, NoConf
  <2>4. ASSUME NEW d \in Dirs, d # "shared" PROVE ~ Mixed(conf[d])'
    BY <1>2, <2>2, <2>4 DEF MatchFit, CredentialsMatch, Mixed, SecretOf, CredentialsOf, Is
  <2>5. CredentialsMatch'
    BY <2>1, <2>4 DEF CredentialsMatch
  <2>6. PlanFits'
    <3>1. CASE cut
      BY <2>1, <3>1, ElsewherePc, PlanElsewhere DEF Wrote
    <3>2. CASE ~ cut
      <4>1. pc' = "copy" /\ UNCHANGED <<tid, file, from, plan>> /\ conf'["shared"] = plan
        BY <2>1, <2>2, <3>2 DEF Wrote, Step, Go
      <4>2. QED BY <1>1, <1>2, <2>1, <4>1 DEF PlanFits, Named, Is, WriteShared
    <3>3. QED BY <3>1, <3>2
  <2>7. QED BY <2>3, <2>5, <2>6 DEF MatchFit
<1>5. QED BY <1>3, <1>4

LEMMA CopyStep ==
  ASSUME TypeOK, LocalsFit, SecretsFit, MatchFit, CopyCredentials
  PROVE  MatchFit'
<1> USE TypeHalves
<1> DEFINE c == conf["shared"]
<1>1. /\ file \in Files /\ file[1] = "shared" /\ (from # None => from \in Files)
      /\ c.kind = "map" /\ c.creds = file /\ c.tunnel = plan.tunnel
      /\ from = None => promise = NoConf
      /\ from # None /\ creds[from] \in Tunnels /\ plan.tunnel # None =>
           Is(creds[from], plan.tunnel) \/ (from = file /\ promise = NoConf)
  <2>1. PlanFits /\ file \in Files /\ (from # None => from \in Files)
    BY DEF CopyCredentials, LocalsFit, MatchFit, CommandType
  <2>2. QED BY <2>1 DEF CopyCredentials, PlanFits, Named
<1>2. PlanFits'
  BY ElsewherePc, PlanElsewhere DEF CopyCredentials
<1>3. UNCHANGED <<tunnels, conf, promise>> /\ \A f \in Files : f # file => creds'[f] = creds[f]
  BY DEF CopyCredentials, WorldType, host
<1>4. "guessed" \in marks => "guessed" \in marks'
  BY DEF CopyCredentials
<1>5. ASSUME NEW d \in Dirs PROVE Named(conf[d], d)'
  BY <1>3, <1>4 DEF MatchFit, Named
<1>6. ASSUME NEW d \in Dirs, d # "shared" PROVE ~ Mixed(conf[d])'
  <2>1. conf[d].creds # None => conf[d].creds # file
    BY <1>1, <1>6 DEF MatchFit, Named
  <2>2. SecretOf(conf[d])' = SecretOf(conf[d])
    BY <1>3, <2>1, ConfParts DEF SecretOf, CredentialsOf, WorldType
  <2>3. ~ Mixed(conf[d])
    BY <1>6 DEF MatchFit, CredentialsMatch
  <2>4. QED BY <1>3, <2>2, <2>3 DEF Mixed, Is
<1>7. Mixed(c)' => marks' \cap {"guessed", "torn"} # {}
  <2> SUFFICES ASSUME Mixed(c)' PROVE marks' \cap {"guessed", "torn"} # {}
    OBVIOUS
  <2>1. creds'[file] \in Tunnels /\ ~ Is(creds'[file], plan.tunnel) /\ plan.tunnel # None
    BY <1>1, <1>3 DEF Mixed, SecretOf, CredentialsOf, Is
  <2>2. CASE creds'[file] = creds[file]
    <3>1. Mixed(c)
      <4>1. SecretOf(c) = creds[file]
        BY <1>1, <2>1, <2>2 DEF SecretOf, CredentialsOf
      <4>2. QED BY <1>1, <2>1, <2>2, <4>1 DEF Mixed
    <3>2. marks \cap {"guessed", "torn"} # {}
      BY <3>1 DEF MatchFit, CredentialsMatch, Dirs
    <3>3. CASE promise = NoConf
      BY <3>2, <3>3 DEF CopyCredentials
    <3>4. CASE promise # NoConf
      <4>1. from # None /\ (creds[from] \in Tunnels => Is(creds[from], plan.tunnel))
        BY <1>1, <2>1, <3>4
      <4>2. creds'[file] # creds[from] /\ creds'[file] # "cut"
        BY <2>1, <4>1
      <4>3. marks' = marks
        BY <1>1, <2>2, <4>1, <4>2 DEF CopyCredentials, WorldType
      <4>4. QED BY <3>2, <4>3
    <3>5. QED BY <3>3, <3>4
  <2>3. CASE creds'[file] # creds[file]
    <3>1. from # None /\ creds'[file] = creds[from] /\ from # file
      BY <1>1, <2>1, <2>3 DEF CopyCredentials, WorldType
    <3>2. QED BY <1>1, <2>1, <3>1
  <2>4. QED BY <2>2, <2>3
<1>8. QED BY <1>2, <1>3, <1>5, <1>6, <1>7 DEF MatchFit, CredentialsMatch

LEMMA MatchStep ==
  ASSUME TypeOK, LocalsFit, SecretsFit, MatchFit, [Next]_vars
  PROVE  MatchFit'
<1> USE TypeHalves
<1>1. CASE UNCHANGED vars
  <2>1. PlanFits'
    BY <1>1 DEF MatchFit, PlanFits, Named, Is, vars, host, local, history
  <2>2. QED BY <1>1, <2>1, Quiet DEF MatchFit, vars, history
<1>2. CASE \E c \in Commands : BeginTunnel(c) \/ BeginWiring(c) \/ BeginRuntime(c)
  <2>1. pc' \in {"lookup", "plan", "packages"} /\ UNCHANGED <<tunnels, conf, creds, marks>>
    BY <1>2 DEF BeginTunnel, BeginWiring, BeginRuntime, Begin
  <2>2. QED BY <2>1, Quiet, PlanElsewhere DEF MatchFit
<1>3. CASE Permissions \/ UpdatePath \/ WriteService \/ WriteSudoers \/ Enable
  <2>1. pc' \notin {"writeConf", "sharedConf", "copy"}
    BY <1>3, ElsewherePc
       DEF Permissions, UpdatePath, WriteService, WriteSudoers, WriteSystemFile, Enable
  <2>2. UNCHANGED <<tunnels, conf, creds, marks>>
    BY <1>3 DEF Permissions, UpdatePath, WriteService, WriteSudoers, WriteSystemFile, Enable
  <2>3. QED BY <2>1, <2>2, Quiet, PlanElsewhere DEF MatchFit
<1>4. CASE Packages \/ Groups \/ Directories \/ WriteCompose \/ StartTraefik \/ Kill
  <2>1. pc' \notin {"writeConf", "sharedConf", "copy"}
    BY <1>4, ElsewherePc
       DEF Packages, Groups, Install, Directories, WriteCompose, WriteSystemFile, StartTraefik, Kill
  <2>2. UNCHANGED <<tunnels, conf, creds, marks>>
    BY <1>4
       DEF Packages, Groups, Install, Directories, WriteCompose, WriteSystemFile, StartTraefik, Kill
  <2>3. QED BY <2>1, <2>2, Quiet, PlanElsewhere DEF MatchFit
<1>5. CASE AddRoutes
  <2>1. /\ UNCHANGED <<tunnels, creds, marks, home, local>> /\ promise' = NoConf
        /\ \A d \in Dirs : /\ conf'[d].kind = conf[d].kind /\ conf'[d].creds = conf[d].creds
                           /\ conf'[d].tunnel = conf[d].tunnel
    <3>1. \A d \in Dirs : \A k \in {"kind", "creds", "tunnel"} :
            [conf[d] EXCEPT !.ingress = "routes"][k] = conf[d][k]
      BY DEF WorldType, Confs
    <3>2. \A d \in Dirs : conf'[d] \in {conf[d], [conf[d] EXCEPT !.ingress = "routes"]}
      BY <1>5 DEF AddRoutes, WorldType
    <3>3. QED BY <1>5, <3>1, <3>2 DEF AddRoutes
  <2>2. (\A d \in Dirs : Named(conf[d], d))'
    BY <2>1 DEF MatchFit, Named
  <2>3. CredentialsMatch'
    BY <2>1 DEF MatchFit, CredentialsMatch, Mixed, SecretOf, CredentialsOf, Is
  <2>4. PlanFits'
    BY <2>1 DEF MatchFit, PlanFits, Named, Is, local, Dirs
  <2>5. QED BY <2>2, <2>3, <2>4 DEF MatchFit
<1>6. CASE RestartService
  <2>1. UNCHANGED <<tunnels, conf, creds, marks, promise, home, local>>
    BY <1>6 DEF RestartService, history
  <2>2. PlanFits'
    BY <2>1 DEF MatchFit, PlanFits, Named, Is, local
  <2>3. QED BY <2>1, <2>2, Quiet DEF MatchFit
<1>7. ASSUME NEW d \in Dirs, EditHome(d) PROVE MatchFit'
  <2>1. pc' = "idle" /\ UNCHANGED <<tunnels, conf, creds>> /\ marks' = marks \cup {"edited"}
    BY <1>7 DEF EditHome, local
  <2>2. QED BY <2>1, Quiet, PlanElsewhere DEF MatchFit
<1>8. QED
  BY <1>1, <1>2, <1>3, <1>4, <1>5, <1>6, <1>7, MatchTunnelStep, PlanStep, SharedStep, CopyStep
     DEF Next

\* A config never names a tunnel beside the credentials of another one, but for the
\* shared config of a wiring that was cut short or had to guess.
THEOREM CredentialsStayMatched == Spec => []CredentialsMatch
<1>1. Init => MatchFit
  BY InitMatch
<1>2. SecretsInv /\ MatchFit /\ [Next]_vars => MatchFit'
  BY MatchStep DEF SecretsInv
<1>3. MatchFit => CredentialsMatch
  BY DEF MatchFit
<1>4. QED BY <1>1, <1>2, <1>3, Invariant, PTL DEF Spec

=============================================================================
