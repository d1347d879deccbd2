----------------------------- MODULE DomainWiring -----------------------------
(* What `domain add`, `domain repair` and `domain remove` promise of one   *)
(* domain: they wire, or unwire, the records of the apex, then those of    *)
(* the wildcard, then the ingress file; they do as many of the three as    *)
(* the outcome says, each of them whole; and they touch nothing else.  The *)
(* file is the service each hostname has, whatever the order of the list.  *)
(* Between commands the operator may leave anything.                       *)
EXTENDS Routes, Dns, Naturals

CONSTANTS Apex, Star,   \* the two names of the domain
          OtherHosts,   \* the other hostnames of the file
          Services,     \* origin services
          Service,      \* the effective traefik_url
          None          \* no entry for a hostname

VARIABLES services,  \* services[h]: what the file has for h, or Broken
          records,   \* records[n]: the DNS records of the name n
          result     \* the last command and its outcome

Names == {Apex, Star}
Files == [Names \cup OtherHosts -> Services \cup {None, Twice}]

Init ==
  /\ services = [h \in Names \cup OtherHosts |-> None]
  /\ records = [n \in Names |-> {}]
  /\ result = [command |-> "none", outcome |-> "ok"]

\* What a command is for, in DNS and in the file.
Wired(verb, rs) == IF verb = "add" THEN Matching(rs) # {} ELSE Routing(rs) = {}
Wanted(verb) == IF verb = "add" THEN Service ELSE None

\* What a command that got past a name may have made of its records: wired
\* with at most one of them changed, none when it was wired before, and none
\* of the mail records but by an add that found no routing record to replace.
Leaves(verb, rs, new) ==
  /\ new \in RecordSets /\ Wired(verb, new)
  /\ Wired(verb, rs) => new = rs
  /\ ~ Several(rs \ new) /\ ~ Several(new \ rs)
  /\ Mail(rs) \subseteq new \/ (verb = "add" /\ Routing(rs) = {})

\* How far a command gets: past no name, the apex, both names, or the file.
Outcomes(past) ==
  CASE past = 0 -> {"not ready", "dns refused"}
    [] past = 1 -> {"dns refused"}
    [] past = 2 -> {"ingress refused"}
    [] past = 3 -> {"ok"}

Command(verb, past) ==
  /\ \E outcome \in Outcomes(past) : result' = [command |-> verb, outcome |-> outcome]
  /\ records' \in [Names -> RecordSets]
  /\ IF past >= 1 THEN Leaves(verb, records[Apex], records'[Apex])
                  ELSE records'[Apex] = records[Apex]
  /\ IF past >= 2 THEN Leaves(verb, records[Star], records'[Star])
                  ELSE records'[Star] = records[Star]
  /\ past >= 2 => (past = 3 <=> Usable(services, Names))
  /\ services' = IF past = 3 THEN Rewired(services, Names, Wanted(verb)) ELSE services

EditServices ==
  /\ result' = [command |-> "none", outcome |-> "ok"]
  /\ UNCHANGED records
  /\ services' \in Files \cup {Broken}

EditRecords ==
  /\ result' = [command |-> "none", outcome |-> "ok"]
  /\ records' \in [Names -> RecordSets]
  /\ UNCHANGED services

Next ==
  \/ \E verb \in {"add", "remove"}, past \in 0..3 : Command(verb, past)
  \/ EditServices
  \/ EditRecords

Spec == Init /\ [][Next]_<<services, records, result>>
=============================================================================
