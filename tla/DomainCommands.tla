--------------------------- MODULE DomainCommands ---------------------------
(* `domain add` / `domain repair`, `domain remove` and `domain status`,    *)
(* one command at a time: what each does to the DNS records of the apex    *)
(* and the wildcard and to the ingress file, how far it gets before it     *)
(* fails, and how the report relates to the mutation.  Between commands    *)
(* the operator edits both by hand.  DomainRouting takes the commands      *)
(* apart into steps that interleave.                                       *)
EXTENDS Ingress, Dns

CONSTANTS Domain,       \* the bare domain the commands are about, as labels
          Service,      \* its effective traefik_url
          OtherHosts,   \* hostnames of entries that are not targets
          MaxEntries,   \* bound on the entries before the fallback
          Fallback,     \* the service of the fallback entry
          None,         \* no entry for a hostname, in the view DomainWiring takes
          Twice         \* two entries or more

ASSUME ServiceAssumption == {Service, Fallback} \subseteq Services

\* Names are labels.  Nobody routes a wildcard above a registrable domain
\* through a tunnel, nor the name the wildcard is probed with.
ASSUME HostsAssumption ==
  /\ Domain \in Seq(STRING)
  /\ \A h \in OtherHosts :
       /\ h = EmptyHost \/ h \in Hostnames
       /\ h \notin Targets(Domain) \cup {Probe(Domain)}
       /\ h # EmptyHost /\ h.wild => ~ IsPrefix(h.labels, Domain)

\* The API has an id for a new record.
ASSUME RecordIdsAssumption == RecordIds # {}

\* None and Twice are no services, and an unreadable file is no view.
ASSUME ViewAssumption ==
  /\ None \notin Services /\ Twice \notin Services /\ None # Twice
  /\ Broken \notin [Targets(Domain) \cup OtherHosts -> Services \cup {None, Twice}]

VARIABLES file,    \* the ingress list of the configured file, or Broken
          dns,     \* dns[t]: the records of the name t
          result   \* how the last command ended, and what it found

vars == <<file, dns, result>>

Apex == Host(Domain)
Star == Wild(Domain)
Names == Targets(Domain)
Hosts == Names \cup OtherHosts
\* The entries the operator writes: those of other hosts all name one service,
\* because no command reads it.
Entries == {Entry(h, s) : h \in Names, s \in Services} \cup {Entry(h, Fallback) : h \in OtherHosts}
FallbackEntry == Entry(NoHost, Fallback)

Done(command, outcome) == [command |-> command, outcome |-> outcome]
NoCommand == Done("none", "ok")

Init ==
  /\ file = <<FallbackEntry>>
  /\ dns = [t \in Names |-> {}]
  /\ result = NoCommand

-----------------------------------------------------------------------------
(* The operator's own edits.                                               *)

InsertEntry ==
  /\ file # Broken
  /\ Len(file) <= MaxEntries
  /\ \E i \in 1..(Len(file) + 1), e \in Entries \cup {FallbackEntry} :
       file' = InsertAt(file, i, e)
  /\ UNCHANGED dns
  /\ result' = NoCommand

BreakFile ==
  /\ file' = Broken
  /\ UNCHANGED dns
  /\ result' = NoCommand

EditDns ==
  /\ \E t \in Names, rs \in RecordSets : rs # dns[t] /\ dns' = [dns EXCEPT ![t] = rs]
  /\ UNCHANGED file
  /\ result' = NoCommand

-----------------------------------------------------------------------------
(* The commands.                                                           *)

\* apply_dns_record(_removal) on one name: the records it may leave, or
\* nothing when it refuses.
Results(rs, calls) ==
  {Effect(rs, c, id) : c \in calls \ {Refusal}, id \in RecordIds}
AfterUpsert(rs) == Results(rs, UpsertCalls(rs))
AfterRemoval(rs) == Results(rs, RemovalCalls(rs))

\* The order of a command: preflight, apex, wildcard, ingress.  The first
\* refusal ends it and what is already done stays.  after[t] is what its
\* request may leave of the records of t.
Run(command, after, newFile) ==
  \/ /\ after[Apex] = {}
     /\ UNCHANGED <<file, dns>>
     /\ result' = Done(command, "dns refused")
  \/ \E rs \in after[Apex] :
       /\ after[Star] = {}
       /\ dns' = [dns EXCEPT ![Apex] = rs]
       /\ UNCHANGED file
       /\ result' = Done(command, "dns refused")
  \/ \E rs1 \in after[Apex], rs2 \in after[Star] :
       /\ dns' = [dns EXCEPT ![Apex] = rs1, ![Star] = rs2]
       /\ IF Accepts(file, Domain)
          THEN file' = newFile /\ result' = Done(command, "ok")
          ELSE UNCHANGED file /\ result' = Done(command, "ingress refused")

\* _require_cloudflared_ingress_mutation_ready: the file is missing, not
\* writable, or not the one the systemd service uses.  Its content is not
\* looked at.
PreflightFails(command) ==
  UNCHANGED <<file, dns>> /\ result' = Done(command, "not ready")

DomainAdd == Run("add", [t \in Names |-> AfterUpsert(dns[t])], Added(file, Domain, Service))
DomainRemove == Run("remove", [t \in Names |-> AfterRemoval(dns[t])], Without(file, Domain))

Next ==
  \/ InsertEntry
  \/ BreakFile
  \/ EditDns
  \/ \E command \in {"add", "remove"} : PreflightFails(command)
  \/ DomainAdd
  \/ DomainRemove

Spec == Init /\ [][Next]_vars

-----------------------------------------------------------------------------
(* domain status.                                                          *)

DnsStatuses == {DnsStatus(dns[t]) : t \in Names}
Reports == IngressStatuses(file, Domain, Service)

\* _overall_domain_status: "misconfigured" and "partial" are told apart by
\* what exists; both are "not ok" to what follows.
Overall ==
  IF (\A d \in DnsStatuses : d.matches) /\ (\A i \in Reports : i.matches) THEN "ok"
  ELSE IF (\E d \in DnsStatuses : d.exists /\ ~d.matches)
          \/ (\E i \in Reports : i.exists /\ ~i.matches) THEN "misconfigured"
  ELSE "partial"

\* A faulty _domain_status_repairability that forgets duplicate entries.
RepairableDns ==
  Overall # "ok" /\ ~ (\E d \in DnsStatuses : d.multiple)

\* _domain_status_repairability
Repairable ==
  /\ Overall # "ok"
  /\ ~ \E d \in DnsStatuses : d.multiple
  /\ ~ \E i \in Reports : i.duplicate \/ i.shadowed

-----------------------------------------------------------------------------
(* Properties.                                                             *)

Outcomes == {"ok", "not ready", "dns refused", "ingress refused"}

\* Every value has its type; no command writes an empty ingress list.
TypeOK ==
  /\ file = Broken \/ file \in Seq(Entries \cup {FallbackEntry}) \ {<<>>}
  /\ dns \in [Names -> RecordSets]
  /\ result \in [command : {"none", "add", "remove"}, outcome : Outcomes]

\* The report and the mutation agree on what "wired" means: `domain status`
\* says ok exactly when `domain add` would find nothing to do.
AddHasNothingToDo ==
  /\ \A t \in Names : UpsertCalls(dns[t]) = {NoCall}
  /\ Accepts(file, Domain)
  /\ Added(file, Domain, Service) = file
StatusOkMeansNothingToDo == WellFormed(file) => (Overall = "ok" <=> AddHasNothingToDo)

\* `repairable` and `manual_fix_required` keep their promise: a repair that
\* passes its preflight ends with status ok when the report called the domain
\* repairable, and fails when it said to clean up by hand first.
RepairDoesWhatStatusSaid ==
  [][result'.command = "add" /\ result'.outcome # "not ready" /\ WellFormed(file) =>
       /\ Repairable => result'.outcome = "ok" /\ Overall' = "ok"
       /\ ~Repairable /\ Overall # "ok" => result'.outcome # "ok"]_vars

\* Adding or removing a domain leaves the routing of everything else alone: a
\* hostname outside the domain is captured by the same entry as before, no
\* entry loses its own hostname to the domain's wildcard, and the fallback
\* stays.
OutsideDomain(h) == IsHostname(h) /\ ~ IsPrefix(Domain, h.labels)
CommandsKeepOtherRoutes ==
  [][result'.command # "none" /\ WellFormed(file) =>
       /\ WellFormed(file') /\ Last(file') = Last(file)
       /\ \A h \in OtherHosts : OutsideDomain(h) => Route(file', h) = Route(file, h)
       /\ \A h \in OtherHosts \ {EmptyHost} :
            Route(file, h).host = h => Route(file', h) = Route(file, h)]_vars

\* A remove that reports ok leaves no entry and no routing record of the
\* domain, and a mail record of a name outlives it.
RemoveIsComplete ==
  [][result'.command = "remove" =>
       /\ \A t \in Names : Mail(dns[t]) \subseteq dns'[t]
       /\ result'.outcome = "ok" =>
            /\ \A t \in Names : Positions(file', t) = {}
            /\ \A t \in Names : Routing(dns'[t]) = {}]_vars

\* What config-test, doctor and validate call free of blocking issues, add
\* and remove accept, and each entry that names its hostname is the one that
\* serves it.
NoBlockingIssueMeansUsable ==
  WellFormed(file) /\ EmptyHost \notin {file[i].host : i \in DOMAIN file} /\ Blocking(file) = {} =>
    /\ Accepts(file, Domain)
    /\ \A i \in 1..(Len(file) - 1) :
         ~file[i].host.wild => Route(file, file[i].host) = file[i]

\* The ingress list as which service each hostname has.
ServiceOf(f, h) ==
  LET is == Positions(f, h)
  IN IF is = {} THEN None
     ELSE IF Cardinality(is) > 1 THEN Twice
     ELSE f[CHOOSE i \in is : TRUE].service
View(f) == IF WellFormed(f) THEN [h \in Hosts |-> ServiceOf(f, h)] ELSE Broken

\* The commands implement DomainWiring: whatever order the entries are in and
\* whatever captures what, to rewrite the list is to give the domain's two
\* names their service, or none, and every other name keeps what it has; and
\* a command that stops has done the names before the one it stops at, whole.
Wiring == INSTANCE DomainWiring WITH services <- View(file), records <- dns

KeepsWiring == Wiring!Spec

\* Every duplicate of a hostname is a blocking issue, whatever else is in the
\* list.
EveryDuplicateIsBlocking ==
  WellFormed(file) =>
    \A h \in Hosts \ {EmptyHost} :
      Cardinality(Positions(file, h)) > 1 =>
        \E i \in Blocking(file) : file[i.first].host = h

\* A command that stops at the ingress file has not touched DNS.
NoDnsOnlyUpdate ==
  [][result'.outcome = "ingress refused" => dns' = dns]_vars
=============================================================================
