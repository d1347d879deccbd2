---------------------------- MODULE DomainRouting ----------------------------
(* `domain add` / `domain repair` and `domain remove` run by several       *)
(* processes at once, one step for each request to Cloudflare and for each *)
(* system call on the ingress file, with what goes wrong in between: API   *)
(* failures, lost answers, failed writes, killed processes, edits by hand, *)
(* and a tunnel process that serves the file as it was when it started.    *)
(*                                                                         *)
(* DomainCommands is about the order of the entries and what a domain's    *)
(* report says; here the ingress file is only which service each hostname  *)
(* has, and no lock guards it: the code takes none.                        *)
EXTENDS Routes, Dns, Naturals

CONSTANTS Procs,       \* homesrvctl processes
          Domains,     \* bare domains, one zone each
          OtherHosts,  \* hostnames of the file outside of the Domains
          Services,    \* origin services
          Service,     \* the effective traefik_url
          None,        \* no entry for a hostname
          MaxEdits,    \* bound on the edits by hand
          MaxRuns      \* bound on the commands started

ASSUME RoutingAssumption ==
  /\ Service \in Services
  /\ None \notin Services /\ Twice \notin Services /\ None # Twice
  /\ MaxEdits \in Nat /\ MaxRuns \in Nat

Names == Domains \X {"apex", "star"}
Targets(d) == {<<d, "apex">>, <<d, "star">>}
Hosts == Names \cup OtherHosts
Files == [Hosts -> Services \cup {None, Twice}]

ASSUME HostsAssumption == OtherHosts \cap Names = {} /\ Broken \notin Files

VARIABLES
  file,      \* what the ingress file says, or Broken
  dns,       \* dns[n]: the records of the name n
  running,   \* the file the tunnel process was started with, Broken if down
  edits,     \* edits by hand so far
  runs,      \* commands started so far
  pc,        \* where each process is
  cmd,       \* its verb, its domain, and whether a restart was asked for
  leg,       \* the name of the domain it is at: "apex", then "star"
  listed,    \* the records the API listed for that name
  loaded,    \* the file as it read it
  outcome,   \* how its command ended
  restarted, \* "ok", "failed", or "none" when it has not tried
  settled,   \* history: when it started there was nothing to do
  touched    \* history: somebody has since changed what it relies on

locals == <<pc, cmd, leg, listed, loaded, outcome, restarted>>
vars == <<file, dns, running, edits, runs, locals, settled, touched>>

Commands == [verb : {"add", "remove"}, domain : Domains, restart : BOOLEAN]
NoCommand == [verb |-> "none", domain |-> None, restart |-> FALSE]
Steps == {"idle", "preflight", "list", "call", "read", "truncate", "write", "restart", "done"}

Here(p) == <<cmd[p].domain, leg[p]>>
Mine(p) == Targets(cmd[p].domain)
Wanted(c) == IF c.verb = "add" THEN Service ELSE None

\* What apply_dns_record(_removal) may do about the records it was given.
Calls(c, rs) == IF c.verb = "add" THEN UpsertCalls(rs) ELSE RemovalCalls(rs)

\* _reconcile_ingress and _plan_ingress_removal: refuse, or nothing to do.
Accepts(f, d) == Usable(f, Targets(d))
FileSettled(f, c) == Says(f, Targets(c.domain), Wanted(c))

\* A faulty rewrite that keeps only the domain's own entries.
EditedAlone(f, c) == [h \in Targets(c.domain) |-> Wanted(c)]

\* apply_domain_ingress(_removal): the list that is written.
Edited(f, c) == Rewired(f, Targets(c.domain), Wanted(c))

\* A command would find everything as it wants it.
Settled(c) ==
  /\ \A t \in Targets(c.domain) : Calls(c, dns[t]) = {NoCall}
  /\ Accepts(file, c.domain) /\ FileSettled(file, c)

\* Some of the domains are wired already, by earlier commands.
Init ==
  /\ \E ds \in SUBSET Domains, id \in RecordIds :
       /\ file = [h \in Hosts |-> IF h \in OtherHosts \cup UNION {Targets(d) : d \in ds}
                                  THEN Service ELSE None]
       /\ dns = [n \in Names |-> IF n[1] \in ds THEN {[id |-> id, kind |-> "tunnel"]} ELSE {}]
  /\ running = file
  /\ edits = 0 /\ runs = 0
  /\ pc = [p \in Procs |-> "idle"]
  /\ cmd = [p \in Procs |-> NoCommand]
  /\ leg = [p \in Procs |-> "apex"]
  /\ listed = [p \in Procs |-> {}]
  /\ loaded = [p \in Procs |-> Broken]
  /\ outcome = [p \in Procs |-> "none"]
  /\ restarted = [p \in Procs |-> "none"]
  /\ settled = [p \in Procs |-> FALSE]
  /\ touched = [p \in Procs |-> FALSE]

-----------------------------------------------------------------------------
(* Who is disturbed by a change: the history variable touched.             *)

\* A process has read the file and is about to write what it made of it.
Rewriting(p) == pc[p] \in {"truncate", "write"}

Disturb(ps) == touched' = [p \in Procs |-> touched[p] \/ p \in ps]

\* A change of the records of a name, or of the file, for the domain d.
Concerned(d) == {p \in Procs : cmd[p].domain = d}

\* Whoever has read the file now holds an old one.
Overtaken == {p \in Procs : Rewriting(p)}

-----------------------------------------------------------------------------
(* One command.                                                            *)

Begin(p) ==
  /\ pc[p] = "idle" /\ runs < MaxRuns
  /\ \E c \in Commands :
       /\ cmd' = [cmd EXCEPT ![p] = c]
       /\ settled' = [settled EXCEPT ![p] = Settled(c)]
  /\ runs' = runs + 1
  /\ pc' = [pc EXCEPT ![p] = "preflight"]
  /\ touched' = [touched EXCEPT ![p] = FALSE]
  /\ UNCHANGED <<file, dns, running, edits, leg, listed, loaded, outcome, restarted>>

End(p, how) ==
  /\ pc' = [pc EXCEPT ![p] = "done"]
  /\ outcome' = [outcome EXCEPT ![p] = how]
  /\ loaded' = [loaded EXCEPT ![p] = Broken]
  /\ listed' = [listed EXCEPT ![p] = {}]
  /\ leg' = [leg EXCEPT ![p] = "apex"]

\* The process is gone: it has printed its result, or it was killed.
Leave(p) ==
  /\ pc' = [pc EXCEPT ![p] = "idle"]
  /\ cmd' = [cmd EXCEPT ![p] = NoCommand]
  /\ leg' = [leg EXCEPT ![p] = "apex"]
  /\ listed' = [listed EXCEPT ![p] = {}]
  /\ loaded' = [loaded EXCEPT ![p] = Broken]
  /\ outcome' = [outcome EXCEPT ![p] = "none"]
  /\ restarted' = [restarted EXCEPT ![p] = "none"]
  /\ settled' = [settled EXCEPT ![p] = FALSE]
  /\ touched' = [touched EXCEPT ![p] = FALSE]
  /\ UNCHANGED <<file, dns, running, edits, runs>>

Exit(p) == pc[p] = "done" /\ Leave(p)
Crash(p) == pc[p] \notin {"idle", "done"} /\ Leave(p)

\* A step of p that changes nothing it shares.
Privately == UNCHANGED <<file, dns, running, edits, runs, cmd, restarted, settled, touched>>

\* _require_cloudflared_ingress_mutation_ready, get_zone and
\* _resolve_domain_tunnel_target: the command fails, or goes on.
Preflight(p) ==
  /\ pc[p] = "preflight"
  /\ pc' = [pc EXCEPT ![p] = "list"]
  /\ UNCHANGED <<leg, listed, loaded, outcome>>
  /\ Privately

\* Any request may fail, and a file that is read or opened may be out of
\* reach: the command reports it and has done what it has done.
Fail(p) ==
  /\ pc[p] \in {"preflight", "list", "call", "read", "truncate"}
  /\ End(p, "failed")
  /\ Privately

\* A faulty loop that leaves out the wildcard.
NextNameApexOnly(p) ==
  pc' = [pc EXCEPT ![p] = "read"] /\ leg' = [leg EXCEPT ![p] = "apex"]

\* After the apex comes the wildcard, and after that the ingress file.
NextName(p) ==
  IF leg[p] = "apex"
  THEN /\ leg' = [leg EXCEPT ![p] = "star"]
       /\ pc' = [pc EXCEPT ![p] = "list"]
  ELSE /\ leg' = [leg EXCEPT ![p] = "apex"]
       /\ pc' = [pc EXCEPT ![p] = "read"]

\* _list_dns_records, and what follows from the list alone.
ListRecords(p) ==
  /\ pc[p] = "list"
  /\ \/ /\ Calls(cmd[p], dns[Here(p)]) = {Refusal}
        /\ End(p, "failed")
     \/ /\ Calls(cmd[p], dns[Here(p)]) = {NoCall}
        /\ NextName(p)
        /\ UNCHANGED <<listed, loaded, outcome>>
     \/ /\ Calls(cmd[p], dns[Here(p)]) \cap {NoCall, Refusal} = {}
        /\ listed' = [listed EXCEPT ![p] = dns[Here(p)]]
        /\ pc' = [pc EXCEPT ![p] = "call"]
        /\ UNCHANGED <<leg, loaded, outcome>>
  /\ Privately

\* The API takes a call: there is no CNAME beside another routing record, and
\* a record is replaced or deleted only while it is there.
Taken(rs, call) ==
  IF call.method = "POST" THEN Routing(rs) = {} ELSE Known(rs, call)

\* The request that creates, replaces or deletes.  Its effect on the records
\* as they are now may come without its answer.
CallApi(p) ==
  /\ pc[p] = "call"
  /\ \E call \in Calls(cmd[p], listed[p]), id \in RecordIds :
       /\ Taken(dns[Here(p)], call)
       /\ call.method = "POST" => ~ Known(dns[Here(p)], Call("POST", id))
       /\ dns' = [dns EXCEPT ![Here(p)] = Effect(@, call, id)]
  /\ Disturb(Concerned(cmd[p].domain) \ {p})
  /\ \/ NextName(p) /\ listed' = [listed EXCEPT ![p] = {}] /\ UNCHANGED <<loaded, outcome>>
     \/ End(p, "failed")
  /\ UNCHANGED <<file, running, edits, runs, cmd, restarted, settled>>

\* A faulty read that goes on to write what is there already.
ReadFileAlways(p) ==
  /\ pc[p] = "read"
  /\ \/ /\ ~ Accepts(file, cmd[p].domain)
        /\ End(p, "failed")
     \/ /\ Accepts(file, cmd[p].domain)
        /\ loaded' = [loaded EXCEPT ![p] = file]
        /\ pc' = [pc EXCEPT ![p] = "truncate"]
        /\ UNCHANGED <<leg, listed, outcome>>
  /\ Privately

\* _load_config, _normalize_ingress and the plan made of the list.
ReadFile(p) ==
  /\ pc[p] = "read"
  /\ \/ /\ ~ Accepts(file, cmd[p].domain)
        /\ End(p, "failed")
     \/ /\ Accepts(file, cmd[p].domain) /\ FileSettled(file, cmd[p])
        /\ End(p, "ok")
     \/ /\ Accepts(file, cmd[p].domain) /\ ~ FileSettled(file, cmd[p])
        /\ loaded' = [loaded EXCEPT ![p] = file]
        /\ pc' = [pc EXCEPT ![p] = "truncate"]
        /\ UNCHANGED <<leg, listed, outcome>>
  /\ Privately

\* write_text opens the file, which empties it, and then writes.
Truncate(p) ==
  /\ pc[p] = "truncate"
  /\ file' = Broken
  /\ Disturb((Concerned(cmd[p].domain) \cup Overtaken) \ {p})
  /\ pc' = [pc EXCEPT ![p] = "write"]
  /\ UNCHANGED <<dns, running, edits, runs, cmd, leg, listed, loaded, outcome, restarted, settled>>

\* The new list is in place.  Made of a file that has changed since, it undoes
\* the change.
WriteBack(p) ==
  /\ pc[p] = "write"
  /\ file' = Edited(loaded[p], cmd[p])
  /\ Disturb((IF touched[p] THEN Procs ELSE Concerned(cmd[p].domain) \cup Overtaken) \ {p})
  /\ IF cmd[p].restart
     THEN /\ pc' = [pc EXCEPT ![p] = "restart"]
          /\ loaded' = [loaded EXCEPT ![p] = Broken]
          /\ UNCHANGED <<leg, listed, outcome>>
     ELSE End(p, "ok")
  /\ UNCHANGED <<dns, running, edits, runs, cmd, restarted, settled>>

\* The write fails, a full disk say, and leaves the emptied file.
WriteFails(p) ==
  /\ pc[p] = "write"
  /\ End(p, "failed")
  /\ Privately

\* restart_cloudflared_service: cloudflared starts with the file as it is now.
Restart(p) ==
  /\ pc[p] = "restart" /\ file # Broken
  /\ running' = file
  /\ restarted' = [restarted EXCEPT ![p] = "ok"]
  /\ End(p, "ok")
  /\ UNCHANGED <<file, dns, edits, runs, cmd, settled, touched>>

\* A faulty restart that does not look at the exit status.
RestartUnchecked(p) ==
  /\ pc[p] = "restart"
  /\ running' \in {running, Broken}
  /\ restarted' = [restarted EXCEPT ![p] = "ok"]
  /\ End(p, "ok")
  /\ UNCHANGED <<file, dns, edits, runs, cmd, settled, touched>>

\* _restart_cloudflared: a restart that was not permitted, or that left the
\* tunnel down, is a warning, and the command ends as it would have.
RestartFails(p) ==
  /\ pc[p] = "restart"
  /\ running' \in {running, Broken}
  /\ restarted' = [restarted EXCEPT ![p] = "failed"]
  /\ End(p, "ok")
  /\ UNCHANGED <<file, dns, edits, runs, cmd, settled, touched>>

-----------------------------------------------------------------------------
(* What happens outside of homesrvctl.                                     *)

EditFile ==
  /\ edits < MaxEdits
  /\ edits' = edits + 1
  /\ file # Broken
  /\ file' \in {[file EXCEPT ![h] = s] : h \in Hosts, s \in Services \cup {None, Twice}} \cup {Broken}
  /\ Disturb(Procs)
  /\ UNCHANGED <<dns, running, runs, locals, settled>>

RestoreFile ==
  /\ edits < MaxEdits
  /\ edits' = edits + 1
  /\ file = Broken
  /\ file' = [h \in Hosts |-> IF h \in OtherHosts THEN Service ELSE None]
  /\ Disturb(Procs)
  /\ UNCHANGED <<dns, running, runs, locals, settled>>

EditDns ==
  /\ edits < MaxEdits
  /\ edits' = edits + 1
  /\ \E d \in Domains, l \in {"apex", "star"}, rs \in RecordSets :
       /\ dns' = [dns EXCEPT ![<<d, l>>] = rs]
       /\ Disturb(Concerned(d))
  /\ UNCHANGED <<file, running, runs, locals, settled>>

RestartByHand ==
  /\ running' = file
  /\ UNCHANGED <<file, dns, edits, runs, locals, settled, touched>>

Step(p) ==
  \/ Begin(p) \/ Preflight(p) \/ ListRecords(p) \/ CallApi(p) \/ ReadFile(p)
  \/ Truncate(p) \/ WriteBack(p) \/ WriteFails(p) \/ Restart(p) \/ RestartFails(p)
  \/ Fail(p) \/ Exit(p) \/ Crash(p)

Next ==
  \/ \E p \in Procs : Step(p)
  \/ EditFile \/ RestoreFile \/ EditDns \/ RestartByHand

Spec == Init /\ [][Next]_vars

-----------------------------------------------------------------------------
(* Properties.                                                             *)

DnsDone(c, n) ==
  IF c.verb = "add" THEN Matching(dns[n]) # {} ELSE Routing(dns[n]) = {}

\* A file that is whole says what the command wants.
Serves(f, c) == f = Broken \/ FileSettled(f, c)

\* Every value has its type; no list that is written misses a hostname.
TypeOK ==
  /\ file \in Files \cup {Broken} /\ running \in Files \cup {Broken}
  /\ dns \in [Names -> RecordSets]
  /\ edits \in 0..MaxEdits /\ runs \in 0..MaxRuns
  /\ pc \in [Procs -> Steps]
  /\ cmd \in [Procs -> Commands \cup {NoCommand}]
  /\ leg \in [Procs -> {"apex", "star"}]
  /\ listed \in [Procs -> RecordSets]
  /\ loaded \in [Procs -> Files \cup {Broken}]
  /\ outcome \in [Procs -> {"none", "ok", "failed"}]
  /\ restarted \in [Procs -> {"none", "ok", "failed"}]
  /\ settled \in [Procs -> BOOLEAN] /\ touched \in [Procs -> BOOLEAN]

\* A command that reported ok has wired, or unwired, both names in DNS and in
\* the file, and stays so while nobody works on its domain or edits the file:
\* commands for other domains, failed and killed ones included, do not undo
\* it unless they overlapped with a change they had not seen.
OkIsDone ==
  \A p \in Procs :
    pc[p] = "done" /\ outcome[p] = "ok" /\ ~touched[p] =>
      (\A n \in Mine(p) : DnsDone(cmd[p], n)) /\ Serves(file, cmd[p])

\* Mutations are idempotent: a command that started with everything as it
\* wants it sends no request that changes DNS, does not open the file for
\* writing and does not restart the tunnel, whoever works beside it.
NothingToDoChangesNothing ==
  \A p \in Procs :
    settled[p] /\ ~touched[p] => pc[p] \notin {"call", "truncate", "write", "restart"}

\* When a restart was reported, the tunnel serves what the command wrote, and
\* goes on doing so through the restarts of others.
RestartedServes ==
  \A p \in Procs :
    restarted[p] = "ok" /\ ~touched[p] => Serves(running, cmd[p])

\* A command that was asked to restart cloudflared, that ended ok and that
\* warned of no failed restart has applied its change to the running tunnel.
RestartApplies ==
  \A p \in Procs :
    /\ pc[p] = "done" /\ outcome[p] = "ok" /\ ~touched[p]
    /\ cmd[p].restart /\ restarted[p] # "failed"
    => Serves(running, cmd[p])
=============================================================================
