------------------------------- MODULE Ingress -------------------------------
(* The ingress list of the cloudflared config file, as cloudflared.py      *)
(* reads, checks, plans and rewrites it, and the per-domain report that    *)
(* domain_cmd.py makes of it.  Pure operators, no state: DomainCommands and *)
(* DomainRouting use them.                                                 *)
(*                                                                         *)
(* A hostname is its labels from the top-level domain down, and whether it *)
(* starts with "*.".  An ingress entry is a hostname and a service; the    *)
(* other keys of an entry are left out.  Comparisons are of stripped and   *)
(* lowercased names in the code, so names are compared as they are here.   *)
EXTENDS Naturals, Sequences, FiniteSets, SequencesExt

CONSTANTS Services,   \* origin services an entry may name
          NoHost,     \* an entry without a hostname key: the fallback
          EmptyHost,  \* a hostname key whose value is the empty string
          Broken      \* a file that is missing, is not YAML, or is no mapping

Host(labels) == [labels |-> labels, wild |-> FALSE]
Wild(labels) == [labels |-> labels, wild |-> TRUE]
IsHostname(h) == h \notin {NoHost, EmptyHost}

Entry(h, s) == [host |-> h, service |-> s]

\* _target_hostnames: the apex and the wildcard of a bare domain.
Targets(domain) == {Host(domain), Wild(domain)}

Hostnames == [labels : Seq(STRING), wild : BOOLEAN]

\* The three stand-ins are neither hostnames nor lists of entries.
ASSUME StandInsAssumption ==
  /\ NoHost # EmptyHost
  /\ \A h \in {NoHost, EmptyHost} : h \notin Hostnames
  /\ Broken \notin Seq([host : Hostnames \cup {NoHost, EmptyHost}, service : Services])

\* _hostname_matches: does the rule p of an entry capture the hostname h?
Matches(p, h) ==
  \/ p = h
  \/ /\ p.wild
     /\ IsPrefix(p.labels, h.labels)
     /\ h.wild \/ Len(h.labels) > Len(p.labels)

\* _wildcard_precedence_risk: a wildcard before a narrower one.
PrecedenceRisk(p, h) ==
  p.wild /\ h.wild /\ IsStrictPrefix(p.labels, h.labels)

-----------------------------------------------------------------------------
(* Reading the file.                                                       *)

\* _load_config and _normalize_ingress: a non-empty list in which the only
\* entry without a hostname is the last.
WellFormed(file) ==
  /\ file # Broken
  /\ file # <<>>
  /\ \A i \in DOMAIN file : file[i].host = NoHost <=> i = Len(file)

\* Positions before the fallback whose entry names exactly h.
Positions(file, h) == {i \in 1..(Len(file) - 1) : file[i].host = h}

\* _reconcile_ingress and _plan_ingress_removal refuse a file that names a
\* target of the domain twice.
Accepts(file, domain) ==
  WellFormed(file) /\ \A t \in Targets(domain) : Cardinality(Positions(file, t)) <= 1

\* list_exact_hostname_routes(...)[0]: the first entry that names h.
ExactService(file, h) ==
  LET is == Positions(file, h) IN {file[i].service : i \in {j \in is : \A k \in is : j <= k}}

\* inspect_hostname_route: the entries that capture h, first one first.  An
\* entry whose hostname is empty is passed over.
Captures(file, h) ==
  {i \in 1..(Len(file) - 1) : IsHostname(file[i].host) /\ Matches(file[i].host, h)}
Route(file, h) ==
  LET is == Captures(file, h)
  IN IF is = {} THEN file[Len(file)] ELSE file[CHOOSE i \in is : \A k \in is : i <= k]

-----------------------------------------------------------------------------
(* Planning and rewriting.                                                 *)

\* A faulty reconciliation that looks at the apex only.
ReconciledApex(file, domain, service) ==
  ExactService(file, Host(domain)) = {service}

\* _reconcile_ingress: nothing to do when each target has its entry already.
Reconciled(file, domain, service) ==
  \A t \in Targets(domain) : ExactService(file, t) = {service}

\* _plan_ingress_removal: nothing to do when no target has an entry.
Removed(file, domain) ==
  \A t \in Targets(domain) : Positions(file, t) = {}

\* A comprehension over the entries keeps their order: the positions S from
\* the lowest to the highest.
Rank(S, i) == Cardinality({j \in S : j <= i})
InOrder(S) == [k \in 1..Cardinality(S) |-> CHOOSE i \in S : Rank(S, i) = k]

\* A faulty choice that takes every host under the domain for the domain's.
KeptOutsideDomain(file, domain) ==
  {i \in 1..(Len(file) - 1) :
     ~ (IsHostname(file[i].host) /\ IsPrefix(domain, file[i].host.labels))}

\* The entries of other hostnames, without the fallback.
Kept(file, domain) == {i \in 1..(Len(file) - 1) : file[i].host \notin Targets(domain)}
Others(file, domain) ==
  LET kept == InOrder(Kept(file, domain))
  IN [k \in DOMAIN kept |-> file[kept[k]]]

TargetEntries(domain, service) ==
  <<Entry(Host(domain), service), Entry(Wild(domain), service)>>

\* A faulty rewrite that puts the domain's entries in front of the others.
RewriteInFront(file, domain, service) ==
  TargetEntries(domain, service) \o Others(file, domain) \o <<Last(file)>>

\* The list apply_domain_ingress writes: the other entries in their order,
\* then the apex and the wildcard, then the fallback.
Rewrite(file, domain, service) ==
  Others(file, domain) \o TargetEntries(domain, service) \o <<Last(file)>>

\* apply_domain_ingress, on a file that Accepts.
Added(file, domain, service) ==
  IF Reconciled(file, domain, service) THEN file ELSE Rewrite(file, domain, service)

\* A faulty removal that forgets to put the fallback back.
RemovedWithoutFallback(file, domain) == Others(file, domain)

\* apply_domain_ingress_removal, on a file that Accepts.
Without(file, domain) ==
  IF Removed(file, domain) THEN file ELSE Others(file, domain) \o <<Last(file)>>

-----------------------------------------------------------------------------
(* Reports.                                                                *)

\* The entries inspect_cloudflared_config_issues looks at: those before the
\* fallback whose hostname is not empty, with their index in the ingress.
HostEntries(file) ==
  LET indexes == InOrder({i \in 1..(Len(file) - 1) : file[i].host # EmptyHost})
  IN [k \in DOMAIN indexes |-> [index |-> indexes[k], host |-> file[indexes[k]].host]]

\* The pairs of entries it compares.  The slice host_entries[index + 1:] takes
\* the entry's index in the ingress for its position among the host entries.
Compared(file) ==
  LET named == HostEntries(file)
  IN {<<named[jk[1]], named[jk[2]]>> : jk \in
        {jk \in (DOMAIN named) \X (DOMAIN named) : jk[2] > named[jk[1]].index}}

Issue(code, first, later) == [code |-> code, first |-> first, later |-> later]

\* Advisory issues about the target service are left out.
Issues(file) ==
  UNION {LET p == pair[1].host  h == pair[2].host IN
         IF p = h THEN {Issue("duplicate-exact-hostname", pair[1].index, pair[2].index)}
         ELSE IF PrecedenceRisk(p, h) THEN {Issue("wildcard-precedence-risk", pair[1].index, pair[2].index)}
         ELSE IF Matches(p, h) THEN {Issue("wildcard-shadows-hostname", pair[1].index, pair[2].index)}
         ELSE {} : pair \in Compared(file)}

\* A faulty report in which a duplicate is advisory.
BlockingShadowsOnly(file) == {i \in Issues(file) : i.code = "wildcard-shadows-hostname"}

Blocking(file) ==
  {i \in Issues(file) : i.code \in {"duplicate-exact-hostname", "wildcard-shadows-hostname"}}

\* _wildcard_probe_hostname: a name nobody serves under the domain.
Probe(domain) == Host(Append(domain, "_homesrvctl-probe"))

\* _build_domain_ingress_statuses: one status for each of the two targets.
IngressStatus(file, domain, target, service) ==
  LET probe == IF target.wild THEN Probe(domain) ELSE target
      exact == Positions(file, target)
      configured == ExactService(file, target)
      effective == Route(file, probe)
  IN [exists    |-> exact # {},
      duplicate |-> Cardinality(exact) > 1,
      shadowed  |-> effective.host \notin {target, NoHost},
      matches   |-> /\ Cardinality(exact) = 1
                    /\ configured = {service}
                    /\ effective = Entry(target, service)]

IngressStatuses(file, domain, service) ==
  {IngressStatus(file, domain, t, service) : t \in Targets(domain)}
=============================================================================
