----------------------------- MODULE Observers -----------------------------
(* What the five read-only observers make of the host, of Cloudflare and   *)
(* of SES.  An observer's result is whether it is ok, the status it gives  *)
(* its target, and whether its list of issues is empty; the facts it looks *)
(* at are its arguments.  A stack is a host that has a directory.          *)

Result(ok, status, issues) == [ok |-> ok, status |-> status, issues |-> issues]

RuntimeStatuses == {"ok", "issues", "error", "active", "inactive", "reachable", "unreachable"}
ProviderStatuses == {"ready", "degraded", "unknown", "blocked"}
Results == [ok : BOOLEAN, status : RuntimeStatuses \cup ProviderStatuses, issues : BOOLEAN]

-----------------------------------------------------------------------------
(* Stacks: docker compose ps, first as JSON and then as text.              *)

\* What a stack's compose file and the two forms of `ps` can show.
JsonAnswers == {"failed", "garbage", "none", "all", "some", "stopped"}
TextAnswers == {"failed", "up", "other", "empty"}
StackFacts == [compose : BOOLEAN, json : JsonAnswers, text : TextAnswers]

\* No container is "not running", some of them are "degraded".
Summarized ==
  [none |-> "not_running", all |-> "running", some |-> "degraded", stopped |-> "not_running"]

\* The text is searched for "Up" or "running" when the JSON cannot be used.
Fallback ==
  [failed |-> "error", up |-> "running", other |-> "not_running", empty |-> "unknown"]

StackStatus(docker, f) ==
  CASE ~f.compose -> "no_compose"
    [] f.compose /\ ~docker -> "error"
    [] f.compose /\ docker /\ f.json \in {"failed", "garbage"} -> Fallback[f.text]
    [] OTHER -> Summarized[f.json]

\* Only an error is an issue: a stack that is down or degraded is not.
StackRuntime(sitesRoot, docker, facts) ==
  LET erroneous == \E h \in DOMAIN facts : StackStatus(docker, facts[h]) = "error"
  IN  IF ~sitesRoot THEN Result(FALSE, "error", TRUE)
      ELSE Result(~erroneous, IF erroneous THEN "issues" ELSE "ok", erroneous)

-----------------------------------------------------------------------------
(* The local services.                                                     *)

\* A config is missing, unreadable, refused by the validation or fine.
CloudflaredConfigs == {"missing", "unreadable", "invalid", "valid"}

\* path: whether the unit names a config path, and whether it is this one.
CloudflaredRuntime(config, active, path) ==
  LET issues == config # "valid" \/ ~active \/ path = "other"
  IN  Result(~issues,
             IF ~active THEN "inactive" ELSE IF issues THEN "issues" ELSE "active",
             issues)

\* An HTTP error is an answer; no answer is an issue.
TraefikRuntime(answered) ==
  Result(answered, IF answered THEN "reachable" ELSE "unreachable", ~answered)

-----------------------------------------------------------------------------
(* The providers: ready, or unknown without a target, is ok.               *)

ProviderResult(status, issues) ==
  Result(status = "ready" \/ (status = "unknown" /\ ~issues), status, issues)

\* What Cloudflare says of one host: its zone, the tunnel of its account
\* (asked only while no target is known), its DNS records.
DnsAnswers == {"error", "missing", "multiple", "wrong", "match"}
HostFacts == [zone : BOOLEAN, account : BOOLEAN, dns : DnsAnswers]

\* A faulty status that asks only whether a host could be checked.
CloudflareStatusOfChecked(known, issues, checked) ==
  CASE ~known -> "blocked"
    [] known /\ checked = {} -> "unknown"
    [] OTHER -> "ready"

CloudflareStatus(known, issues, checked) ==
  CASE ~known -> "blocked"
    [] known /\ issues -> "degraded"
    [] known /\ ~issues /\ checked = {} -> "unknown"
    [] OTHER -> "ready"

\* tunnel: whether the API or the local config names the tunnel's target.  If
\* neither does that is an issue, even when a host's account finds it later.
CloudflareProvider(token, client, tunnel, facts) ==
  LET hosts == DOMAIN facts
      known == tunnel \/ \E h \in hosts : facts[h].zone /\ facts[h].account
      checked == {h \in hosts : facts[h].zone /\ facts[h].dns # "error"}
      issues == ~tunnel \/ \E h \in hosts : ~facts[h].zone \/ facts[h].dns # "match"
  IN  CASE ~token -> ProviderResult("blocked", TRUE)
        [] token /\ hosts = {} -> ProviderResult("unknown", FALSE)
        [] token /\ hosts # {} /\ ~client -> ProviderResult("blocked", TRUE)
        [] OTHER -> ProviderResult(CloudflareStatus(known, issues, checked), issues)

\* What SES says of one domain.
DomainFacts ==
  [identity : BOOLEAN, verified : BOOLEAN, dkim : {"off", "unknown", "pending", "success"},
   mailFrom : {"none", "pending", "success"}]

\* MAIL FROM is only a hint while it is not configured.
DomainIssue(f) ==
  \/ ~f.identity
  \/ ~f.verified
  \/ f.dkim \in {"off", "pending"}
  \/ f.mailFrom = "pending"

SesStatus(targets, issues) ==
  IF issues THEN "degraded" ELSE IF targets THEN "ready" ELSE "unknown"

\* stage is the call that fails, if one does: it ends the inspection, as
\* blocked.  A disabled account is an issue that is kept.  records is what the comparison with
\* Cloudflare finds, if there is a token to compare with.
SesProvider(stage, sending, facts, records) ==
  LET targets == DOMAIN facts # {}
      domains == \E d \in DOMAIN facts : DomainIssue(facts[d])
      issues == ~sending \/ domains \/ records = "unpublished"
  IN  CASE stage \in {"region", "client", "account"} -> ProviderResult("blocked", TRUE)
        [] stage = "identities" /\ targets -> ProviderResult("blocked", TRUE)
        [] stage \in {"identities", "none"} /\ ~targets -> ProviderResult("unknown", ~sending)
        [] OTHER -> ProviderResult(SesStatus(targets, issues), issues)

-----------------------------------------------------------------------------
(* run_observers: all the results first, then their records.               *)

\* A result's events have the severity of its ok.
Severity(r) == IF r.ok THEN "info" ELSE "warning"

RunOk(results) == \A r \in results : r.ok /\ ~r.issues
=============================================================================
