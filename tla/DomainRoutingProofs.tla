------------------------- MODULE DomainRoutingProofs -------------------------
(* Proofs about DomainRouting, for any number of processes, domains and    *)
(* records, and any bounds.                                                *)
EXTENDS DomainRouting, TLAPS

USE RoutingAssumption, HostsAssumption

-----------------------------------------------------------------------------
(* The records of one name.                                                *)

\* Nothing to do about the records of a name: they are as the command wants.
LEMMA NoCallMeansDone ==
  ASSUME NEW rs, NEW c, Calls(c, rs) = {NoCall}
  PROVE  IF c.verb = "add" THEN Matching(rs) # {} ELSE Routing(rs) = {}
<1>0. /\ NoCall # Refusal
      /\ \A id : NoCall \notin {Call("POST", id), Call("PUT", id), Call("DELETE", id)}
  BY DEF NoCall, Refusal, Call
<1>1. CASE c.verb = "add"
  <2>1. UpsertCalls(rs) = {NoCall}
    BY <1>1 DEF Calls
  <2>2. /\ UpsertCalls(rs) # {Refusal}
        /\ UpsertCalls(rs) # {Call("POST", NoId)}
        /\ UpsertCalls(rs) # {Call("PUT", r.id) : r \in Overwritable(rs)}
    BY <1>0, <2>1
  <2>3. QED BY <1>1, <2>1, <2>2 DEF UpsertCalls
<1>2. CASE c.verb # "add"
  <2>1. RemovalCalls(rs) = {NoCall}
    BY <1>2 DEF Calls
  <2>2. /\ RemovalCalls(rs) # {Refusal}
        /\ RemovalCalls(rs) # {Call("DELETE", r.id) : r \in Routing(rs)}
    BY <1>0, <2>1
  <2>3. rs = {} => Routing(rs) = {}
    BY DEF Routing, OfKind
  <2>4. QED BY <1>2, <2>1, <2>2, <2>3 DEF RemovalCalls
<1>3. QED BY <1>1, <1>2

\* One call does all that is to do about the records it was planned from.
LEMMA CallMeansDone ==
  ASSUME NEW rs, NEW c, NEW call \in Calls(c, rs), NEW id,
         call \notin {NoCall, Refusal}
  PROVE  IF c.verb = "add" THEN Matching(Effect(rs, call, id)) # {}
                           ELSE Routing(Effect(rs, call, id)) = {}
<1>1. CASE c.verb = "add"
  <2>1. call.method \in {"POST", "PUT"}
    BY <1>1 DEF Calls, UpsertCalls, NoCall, Refusal, Call
  <2>2. [id |-> id, kind |-> "tunnel"].kind = "tunnel" /\ [id |-> call.id, kind |-> "tunnel"].kind = "tunnel"
    OBVIOUS
  <2>3. CASE call.method = "POST"
    <3>1. [id |-> id, kind |-> "tunnel"] \in Effect(rs, call, id)
      BY <2>3 DEF Effect
    <3>2. QED BY <1>1, <2>2, <3>1, Zenon DEF Matching, OfKind
  <2>4. CASE call.method = "PUT"
    <3>1. [id |-> call.id, kind |-> "tunnel"] \in Effect(rs, call, id)
      BY <2>4 DEF Effect
    <3>2. QED BY <1>1, <2>2, <3>1, Zenon DEF Matching, OfKind
  <2>5. QED BY <2>1, <2>3, <2>4
<1>2. CASE c.verb # "add"
  <2>1. call \in RemovalCalls(rs)
    BY <1>2 DEF Calls
  <2>2. /\ ~ ConflictingRemoval(rs)
        /\ call \in {Call("DELETE", r.id) : r \in Routing(rs)}
    BY <2>1 DEF RemovalCalls
  <2>3. PICK r \in Routing(rs) : call = Call("DELETE", r.id)
    BY <2>2
  <2>4. \A s \in Routing(rs) : s = r
    BY <2>2, <2>3 DEF ConflictingRemoval, Several
  <2>5. Effect(rs, call, id) = {s \in rs : s.id # r.id}
    BY <2>3 DEF Effect, Call
  <2>6. QED BY <1>2, <2>4, <2>5 DEF Routing, OfKind
<1>3. QED BY <1>1, <1>2

\* The API keeps the ids of a name's records apart.
LEMMA EffectType ==
  ASSUME NEW rs \in RecordSets, NEW call, NEW id \in RecordIds, Taken(rs, call),
         call.method = "POST" => ~ Known(rs, Call("POST", id))
  PROVE  Effect(rs, call, id) \in RecordSets
<1>1. CASE call.method = "POST"
  BY <1>1 DEF Effect, RecordSets, Records, Kinds, Known, Call
<1>2. CASE call.method = "PUT"
  BY <1>2 DEF Effect, RecordSets, Records, Kinds, Known, Taken
<1>3. CASE call.method \notin {"POST", "PUT"}
  BY <1>3 DEF Effect, RecordSets, Records
<1>4. QED BY <1>1, <1>2, <1>3

LEMMA EditedType ==
  ASSUME NEW f \in Files, NEW c \in Commands
  PROVE  /\ Edited(f, c) \in Files
         /\ FileSettled(Edited(f, c), c)
         /\ \A e \in Commands : e.domain # c.domain /\ FileSettled(f, e) => FileSettled(Edited(f, c), e)
BY DEF Edited, Rewired, Files, FileSettled, Says, Wanted, Commands, Targets, Hosts, Names

-----------------------------------------------------------------------------
(* Types.                                                                  *)

\* A process that is not idle has a command, one that rewrites has read a
\* whole file, one in front of a call has something to do, and only a command
\* that is over has restarted the tunnel.
LocalsFit ==
  \A p \in Procs :
    /\ pc[p] # "idle" => cmd[p] \in Commands
    /\ pc[p] = "idle" => ~settled[p]
    /\ Rewriting(p) => loaded[p] \in Files
    /\ pc[p] = "call" => Calls(cmd[p], listed[p]) \cap {NoCall, Refusal} = {}
    /\ restarted[p] # "none" => pc[p] = "done" /\ outcome[p] = "ok"
    /\ pc[p] \notin {"list", "call"} => leg[p] = "apex"

TypeInv == TypeOK /\ LocalsFit

LEMMA InitType == Init => TypeInv
<1> SUFFICES ASSUME Init PROVE TypeInv
  OBVIOUS
<1>1. file \in Files
  BY DEF Init, Files, Hosts
<1>2. dns \in [Names -> RecordSets]
  BY DEF Init, RecordSets, Records, Kinds
<1>3. {} \in RecordSets
  BY DEF RecordSets
<1>4. TypeOK
  <2>1. running \in Files /\ edits \in 0..MaxEdits /\ runs \in 0..MaxRuns
    BY <1>1 DEF Init
  <2>2. pc \in [Procs -> Steps] /\ cmd \in [Procs -> Commands \cup {NoCommand}]
    BY DEF Init, Steps
  <2>3. /\ leg \in [Procs -> {"apex", "star"}]
        /\ outcome \in [Procs -> {"none", "ok", "failed"}]
        /\ restarted \in [Procs -> {"none", "ok", "failed"}]
    BY DEF Init
  <2>4. listed \in [Procs -> RecordSets] /\ loaded \in [Procs -> Files \cup {Broken}]
    BY <1>3 DEF Init
  <2>5. settled \in [Procs -> BOOLEAN] /\ touched \in [Procs -> BOOLEAN]
    BY DEF Init
  <2>6. QED BY <1>1, <1>2, <2>1, <2>2, <2>3, <2>4, <2>5 DEF TypeOK
<1>5. LocalsFit
  BY DEF Init, LocalsFit, Rewriting
<1>6. QED BY <1>4, <1>5 DEF TypeInv

LEMMA DisturbType ==
  ASSUME NEW ps, touched \in [Procs -> BOOLEAN], Disturb(ps)
  PROVE  touched' \in [Procs -> BOOLEAN]
BY DEF Disturb

LEMMA EndType ==
  ASSUME TypeOK, NEW p \in Procs, NEW how \in {"ok", "failed"}, End(p, how)
  PROVE  /\ pc' \in [Procs -> Steps] /\ leg' \in [Procs -> {"apex", "star"}]
         /\ listed' \in [Procs -> RecordSets] /\ loaded' \in [Procs -> Files \cup {Broken}]
         /\ outcome' \in [Procs -> {"none", "ok", "failed"}]
<1>1. {} \in RecordSets
  BY DEF RecordSets
<1>2. QED BY <1>1 DEF TypeOK, End, Steps

LEMMA NextNameType ==
  ASSUME TypeOK, NEW p \in Procs, NextName(p)
  PROVE  pc' \in [Procs -> Steps] /\ leg' \in [Procs -> {"apex", "star"}]
BY DEF TypeOK, NextName, Steps

LEMMA PrivateType ==
  ASSUME TypeOK, Privately,
         pc' \in [Procs -> Steps], leg' \in [Procs -> {"apex", "star"}],
         listed' \in [Procs -> RecordSets], loaded' \in [Procs -> Files \cup {Broken}],
         outcome' \in [Procs -> {"none", "ok", "failed"}]
  PROVE  TypeOK'
BY DEF TypeOK, Privately

LEMMA TypeStep ==
  ASSUME TypeInv, [Next]_vars
  PROVE  TypeOK'
<1> USE DEF TypeInv
<1>1. {} \in RecordSets
  BY DEF RecordSets
<1>2. CASE UNCHANGED vars
  BY <1>2 DEF TypeOK, vars, locals
<1>3. ASSUME NEW p \in Procs, Step(p)
      PROVE  TypeOK'
  <2>1. CASE Begin(p)
    BY <2>1 DEF TypeOK, Begin, Settled, Steps
  <2>2. CASE Preflight(p)
    BY <2>2 DEF TypeOK, Preflight, Privately, Steps
  <2>3. CASE ListRecords(p)
    <3>1. pc[p] # "idle" => Here(p) \in Names
      BY DEF TypeOK, LocalsFit, Commands, Here, Names
    <3>2. /\ pc' \in [Procs -> Steps] /\ leg' \in [Procs -> {"apex", "star"}]
          /\ listed' \in [Procs -> RecordSets] /\ loaded' \in [Procs -> Files \cup {Broken}]
          /\ outcome' \in [Procs -> {"none", "ok", "failed"}]
      <4>1. CASE End(p, "failed")
        BY <4>1, EndType
      <4>2. CASE NextName(p) /\ UNCHANGED <<listed, loaded, outcome>>
        BY <4>2, NextNameType DEF TypeOK
      <4>3. CASE /\ listed' = [listed EXCEPT ![p] = dns[Here(p)]]
                 /\ pc' = [pc EXCEPT ![p] = "call"]
                 /\ UNCHANGED <<leg, loaded, outcome>>
        <5>1. dns[Here(p)] \in RecordSets
          BY <2>3, <3>1 DEF ListRecords, TypeOK
        <5>2. QED BY <4>3, <5>1 DEF TypeOK, Steps
      <4>4. QED BY <2>3, <4>1, <4>2, <4>3 DEF ListRecords
    <3>3. QED BY <2>3, <3>2, PrivateType DEF ListRecords
  <2>4. CASE CallApi(p)
    <3>1. Here(p) \in Names
      BY <2>4 DEF CallApi, TypeOK, LocalsFit, Commands, Here, Names
    <3>2. dns[Here(p)] \in RecordSets
      BY <3>1 DEF TypeOK
    <3>3. dns' \in [Names -> RecordSets]
      BY <2>4, <3>1, <3>2, EffectType DEF CallApi, TypeOK
    <3>4. touched' \in [Procs -> BOOLEAN]
      BY <2>4, DisturbType DEF CallApi, TypeOK
    <3>5. /\ pc' \in [Procs -> Steps] /\ leg' \in [Procs -> {"apex", "star"}]
          /\ listed' \in [Procs -> RecordSets] /\ loaded' \in [Procs -> Files \cup {Broken}]
          /\ outcome' \in [Procs -> {"none", "ok", "failed"}]
      <4>1. CASE End(p, "failed")
        BY <4>1, EndType
      <4>2. CASE NextName(p) /\ listed' = [listed EXCEPT ![p] = {}] /\ UNCHANGED <<loaded, outcome>>
        BY <1>1, <4>2, NextNameType DEF TypeOK
      <4>3. QED BY <2>4, <4>1, <4>2 DEF CallApi
    <3>6. QED BY <2>4, <3>3, <3>4, <3>5 DEF TypeOK, CallApi
  <2>5. CASE ReadFile(p)
    <3>1. /\ pc' \in [Procs -> Steps] /\ leg' \in [Procs -> {"apex", "star"}]
          /\ listed' \in [Procs -> RecordSets] /\ loaded' \in [Procs -> Files \cup {Broken}]
          /\ outcome' \in [Procs -> {"none", "ok", "failed"}]
      <4>1. CASE End(p, "failed") \/ End(p, "ok")
        BY <4>1, EndType
      <4>2. CASE /\ loaded' = [loaded EXCEPT ![p] = file]
                 /\ pc' = [pc EXCEPT ![p] = "truncate"]
                 /\ UNCHANGED <<leg, listed, outcome>>
        BY <4>2 DEF TypeOK, Steps
      <4>3. QED BY <2>5, <4>1, <4>2 DEF ReadFile
    <3>2. QED BY <2>5, <3>1, PrivateType DEF ReadFile
  <2>6. CASE Truncate(p)
    BY <2>6, DisturbType DEF TypeOK, Truncate, Steps
  <2>7. CASE WriteBack(p)
    <3>1. file' \in Files
      BY <2>7, EditedType DEF WriteBack, LocalsFit, Rewriting
    <3>2. touched' \in [Procs -> BOOLEAN]
      BY <2>7, DisturbType DEF WriteBack, TypeOK
    <3>3. /\ pc' \in [Procs -> Steps] /\ leg' \in [Procs -> {"apex", "star"}]
          /\ listed' \in [Procs -> RecordSets] /\ loaded' \in [Procs -> Files \cup {Broken}]
          /\ outcome' \in [Procs -> {"none", "ok", "failed"}]
      <4>1. CASE End(p, "ok")
        BY <4>1, EndType
      <4>2. CASE /\ pc' = [pc EXCEPT ![p] = "restart"]
                 /\ loaded' = [loaded EXCEPT ![p] = Broken]
                 /\ UNCHANGED <<leg, listed, outcome>>
        BY <4>2 DEF TypeOK, Steps
      <4>3. QED BY <2>7, <4>1, <4>2 DEF WriteBack
    <3>4. QED BY <2>7, <3>1, <3>2, <3>3 DEF TypeOK, WriteBack
  <2>8. CASE WriteFails(p) \/ Fail(p)
    BY <2>8, EndType, PrivateType DEF WriteFails, Fail
  <2>9. CASE Restart(p) \/ RestartFails(p)
    <3>1. End(p, "ok")
      BY <2>9 DEF Restart, RestartFails
    <3>2. running' \in Files \cup {Broken}
      BY <2>9 DEF TypeOK, Restart, RestartFails
    <3>3. restarted' \in [Procs -> {"none", "ok", "failed"}]
      BY <2>9 DEF TypeOK, Restart, RestartFails
    <3>4. QED BY <2>9, <3>1, <3>2, <3>3, EndType DEF TypeOK, Restart, RestartFails
  <2>10. CASE Exit(p) \/ Crash(p)
    <3>1. /\ pc' \in [Procs -> Steps] /\ cmd' \in [Procs -> Commands \cup {NoCommand}]
          /\ leg' \in [Procs -> {"apex", "star"}]
      BY <2>10 DEF TypeOK, Exit, Crash, Leave, Steps
    <3>2. /\ listed' = [listed EXCEPT ![p] = {}] /\ loaded' = [loaded EXCEPT ![p] = Broken]
          /\ outcome' = [outcome EXCEPT ![p] = "none"]
          /\ restarted' = [restarted EXCEPT ![p] = "none"]
      BY <2>10 DEF Exit, Crash, Leave
    <3>3. listed' \in [Procs -> RecordSets] /\ loaded' \in [Procs -> Files \cup {Broken}]
      BY <1>1, <3>2 DEF TypeOK
    <3>4. outcome' \in [Procs -> {"none", "ok", "failed"}] /\ restarted' \in [Procs -> {"none", "ok", "failed"}]
      BY <3>2 DEF TypeOK
    <3>5. settled' \in [Procs -> BOOLEAN] /\ touched' \in [Procs -> BOOLEAN]
      BY <2>10 DEF TypeOK, Exit, Crash, Leave
    <3>6. QED BY <2>10, <3>1, <3>3, <3>4, <3>5 DEF TypeOK, Exit, Crash, Leave
  <2>11. QED BY <1>3, <2>1, <2>2, <2>3, <2>4, <2>5, <2>6, <2>7, <2>8, <2>9, <2>10 DEF Step
<1>4. CASE EditFile \/ RestoreFile
  <2>1. file' \in Files \cup {Broken}
    BY <1>4 DEF EditFile, RestoreFile, TypeOK, Files, Hosts
  <2>2. touched' \in [Procs -> BOOLEAN]
    BY <1>4, DisturbType DEF EditFile, RestoreFile, TypeOK
  <2>3. QED BY <1>4, <2>1, <2>2 DEF TypeOK, EditFile, RestoreFile, locals
<1>5. CASE EditDns
  <2>1. dns' \in [Names -> RecordSets]
    BY <1>5 DEF EditDns, TypeOK, Names
  <2>2. touched' \in [Procs -> BOOLEAN]
    BY <1>5, DisturbType DEF EditDns, TypeOK
  <2>3. QED BY <1>5, <2>1, <2>2 DEF TypeOK, EditDns, locals
<1>6. CASE RestartByHand
  BY <1>6 DEF TypeOK, RestartByHand, locals
<1>7. QED BY <1>2, <1>3, <1>4, <1>5, <1>6 DEF Next

\* A step of p leaves the locals of the others alone, and forgets of nobody
\* that he was disturbed.
LEMMA OtherLocals ==
  ASSUME TypeOK, NEW p \in Procs, Step(p), NEW q \in Procs, q # p
  PROVE  /\ pc'[q] = pc[q] /\ cmd'[q] = cmd[q] /\ leg'[q] = leg[q]
         /\ listed'[q] = listed[q] /\ loaded'[q] = loaded[q]
         /\ outcome'[q] = outcome[q] /\ restarted'[q] = restarted[q]
         /\ settled'[q] = settled[q]
         /\ touched[q] => touched'[q]
BY DEF Step, Begin, Preflight, ListRecords, CallApi, ReadFile, Truncate, WriteBack, Disturb,
   WriteFails, Restart, RestartFails, Fail, Exit, Crash, Leave, End, NextName, Privately, TypeOK

LEMMA LocalsStep ==
  ASSUME TypeInv, [Next]_vars
  PROVE  LocalsFit'
<1> USE DEF TypeInv
<1>1. CASE UNCHANGED vars \/ EditFile \/ RestoreFile \/ EditDns \/ RestartByHand
  <2>1. UNCHANGED <<locals, settled>>
    BY <1>1 DEF vars, EditFile, RestoreFile, EditDns, RestartByHand
  <2>2. QED BY <2>1 DEF LocalsFit, Rewriting, locals
<1>2. ASSUME NEW p \in Procs, Step(p)
      PROVE  /\ pc'[p] # "idle" => cmd'[p] \in Commands
             /\ pc'[p] = "idle" => ~settled'[p]
             /\ pc'[p] \in {"truncate", "write"} => loaded'[p] \in Files
             /\ pc'[p] = "call" => Calls(cmd'[p], listed'[p]) \cap {NoCall, Refusal} = {}
             /\ restarted'[p] # "none" => pc'[p] = "done" /\ outcome'[p] = "ok"
             /\ pc'[p] \notin {"list", "call"} => leg'[p] = "apex"
  <2> USE DEF LocalsFit, TypeOK
  <2>1. CASE Begin(p)
    BY <1>2, <2>1 DEF Begin
  <2>2. CASE Preflight(p)
    BY <1>2, <2>2 DEF Preflight, Privately
  <2>3. CASE ListRecords(p)
    BY <1>2, <2>3 DEF ListRecords, NextName, End, Privately
  <2>4. CASE CallApi(p)
    BY <1>2, <2>4 DEF CallApi, NextName, End
  <2>5. CASE ReadFile(p)
    BY <1>2, <2>5 DEF ReadFile, End, Privately, Accepts, Usable
  <2>6. CASE Truncate(p)
    BY <1>2, <2>6 DEF Truncate, Rewriting
  <2>7. CASE WriteBack(p)
    BY <1>2, <2>7 DEF WriteBack, End
  <2>8. CASE WriteFails(p) \/ Fail(p)
    BY <1>2, <2>8 DEF WriteFails, Fail, End, Privately
  <2>9. CASE Restart(p) \/ RestartFails(p)
    BY <1>2, <2>9 DEF Restart, RestartFails, End
  <2>10. CASE Exit(p) \/ Crash(p)
    BY <1>2, <2>10 DEF Exit, Crash, Leave
  <2>11. QED BY <1>2, <2>1, <2>2, <2>3, <2>4, <2>5, <2>6, <2>7, <2>8, <2>9, <2>10 DEF Step
<1>3. ASSUME NEW p \in Procs, Step(p)
      PROVE  LocalsFit'
  <2> USE <1>3
  <2> SUFFICES ASSUME NEW q \in Procs
               PROVE  /\ pc'[q] # "idle" => cmd'[q] \in Commands
                      /\ pc'[q] = "idle" => ~settled'[q]
                      /\ pc'[q] \in {"truncate", "write"} => loaded'[q] \in Files
                      /\ pc'[q] = "call" => Calls(cmd'[q], listed'[q]) \cap {NoCall, Refusal} = {}
                      /\ restarted'[q] # "none" => pc'[q] = "done" /\ outcome'[q] = "ok"
                      /\ pc'[q] \notin {"list", "call"} => leg'[q] = "apex"
    BY DEF LocalsFit, Rewriting, Calls
  <2>1. CASE q = p
    BY <1>2, <2>1
  <2>2. CASE q # p
    <3>1. /\ pc'[q] = pc[q] /\ cmd'[q] = cmd[q] /\ listed'[q] = listed[q]
          /\ loaded'[q] = loaded[q] /\ outcome'[q] = outcome[q]
          /\ restarted'[q] = restarted[q] /\ settled'[q] = settled[q] /\ leg'[q] = leg[q]
      BY <2>2, OtherLocals
    <3>2. QED BY <3>1 DEF LocalsFit, Rewriting
  <2>3. QED BY <2>1, <2>2
<1>4. QED BY <1>1, <1>3 DEF Next

THEOREM TypeInvariant == Spec => []TypeInv
<1>1. TypeInv /\ [Next]_vars => TypeInv'
  BY TypeStep, LocalsStep DEF TypeInv
<1>2. QED BY <1>1, InitType, PTL DEF Spec

\* Type correctness, for every value of the constants.
THEOREM TypeCorrect == Spec => []TypeOK
BY TypeInvariant, PTL DEF TypeInv

-----------------------------------------------------------------------------
(* What an undisturbed command relies on.                                  *)

\* Both names are dealt with; the domain stands as the command wants it.
Past(p) ==
  \/ pc[p] \in {"read", "truncate", "write", "restart"}
  \/ pc[p] = "done" /\ outcome[p] = "ok"
Standing(p) ==
  \/ settled[p] \/ pc[p] = "restart"
  \/ pc[p] = "done" /\ outcome[p] = "ok"

\* The records of the names it is done with are as it wants them, and those it
\* has listed are still there.
DnsPart(p) ==
  /\ pc[p] = "call" => listed[p] = dns[Here(p)]
  /\ leg[p] = "star" \/ Past(p) => DnsDone(cmd[p], <<cmd[p].domain, "apex">>)
  /\ Past(p) => DnsDone(cmd[p], <<cmd[p].domain, "star">>)
  /\ settled[p] => \A n \in Mine(p) : Calls(cmd[p], dns[n]) = {NoCall}

\* The file is the one it has read, or emptied.
FilePart(p) ==
  /\ pc[p] = "truncate" => loaded[p] = file
  /\ pc[p] = "write" => file = Broken

\* What the others will write back keeps what it has done.
KeptBy(p, q) ==
  Rewriting(q) /\ ~touched[q] /\ cmd[q].domain # cmd[p].domain => FileSettled(loaded[q], cmd[p])

StandPart(p) ==
  /\ Standing(p) => Serves(file, cmd[p]) /\ \A q \in Procs : KeptBy(p, q)
  /\ settled[p] => pc[p] \notin {"call", "truncate", "write", "restart"}
  /\ restarted[p] = "ok" => Serves(running, cmd[p])

Undisturbed(p) == ~touched[p] => DnsPart(p) /\ FilePart(p) /\ StandPart(p)
RoutingInv == \A p \in Procs : Undisturbed(p)
-----------------------------------------------------------------------------
(* Steps of others.                                                        *)

\* Somebody else's step, or an edit, changes no record that an undisturbed
\* process is concerned with.
LEMMA OthersKeepDns ==
  ASSUME TypeInv, NEW p \in Procs, [Next]_vars, ~touched'[p],
         \/ \E q \in Procs \ {p} : Step(q)
         \/ EditDns \/ RestartByHand \/ UNCHANGED vars
  PROVE  \A n \in Mine(p) : dns'[n] = dns[n]
<1> USE DEF TypeInv
<1>1. CASE EditDns
  <2>1. PICK d \in Domains, l \in {"apex", "star"}, rs \in RecordSets :
          dns' = [dns EXCEPT ![<<d, l>>] = rs] /\ Disturb(Concerned(d))
    BY <1>1 DEF EditDns
  <2>2. cmd[p].domain # d
    BY <2>1 DEF Disturb, Concerned
  <2>3. QED BY <2>1, <2>2 DEF Mine, Targets, TypeOK
<1>2. ASSUME NEW q \in Procs, q # p, CallApi(q)
      PROVE  \A n \in Mine(p) : dns'[n] = dns[n]
  <2>1. cmd[p].domain # cmd[q].domain
    BY <1>2 DEF CallApi, Disturb, Concerned
  <2>2. PICK rs : dns' = [dns EXCEPT ![Here(q)] = rs]
    BY <1>2 DEF CallApi
  <2>3. QED BY <2>1, <2>2 DEF Mine, Targets, Here, TypeOK
<1>3. ASSUME NEW q \in Procs, q # p, Step(q), ~ CallApi(q)
      PROVE  dns' = dns
  BY <1>3 DEF Step, Begin, Preflight, ListRecords, ReadFile, Truncate, WriteBack,
     WriteFails, Restart, RestartFails, Fail, Exit, Crash, Leave, Privately
<1>4. QED BY <1>1, <1>2, <1>3 DEF RestartByHand, vars

\* DnsPart speaks of the locals of p and of the records of its names.
LEMMA DnsPartKept ==
  ASSUME TypeInv, NEW p \in Procs, DnsPart(p),
         pc'[p] = pc[p], cmd'[p] = cmd[p], leg'[p] = leg[p], listed'[p] = listed[p],
         outcome'[p] = outcome[p], settled'[p] = settled[p],
         \A n \in Mine(p) : dns'[n] = dns[n]
  PROVE  DnsPart(p)'
<1>1. Here(p) \in Mine(p)
  BY DEF Here, Mine, Targets, TypeInv, TypeOK
<1>2. <<cmd[p].domain, "apex">> \in Mine(p) /\ <<cmd[p].domain, "star">> \in Mine(p)
  BY DEF Mine, Targets
<1>3. QED BY <1>1, <1>2 DEF DnsPart, Past, DnsDone, Here, Mine, Calls

\* A step that leaves the file alone, and after which whoever rewrites has
\* read the file as it is or was rewriting before.
LEMMA SameFileKept ==
  ASSUME TypeInv, NEW p \in Procs, FilePart(p), StandPart(p),
         pc'[p] = pc[p], cmd'[p] = cmd[p], loaded'[p] = loaded[p],
         outcome'[p] = outcome[p], restarted'[p] = restarted[p], settled'[p] = settled[p],
         file' = file, running' \in {running, file, Broken},
         \A q \in Procs : Rewriting(q)' /\ ~touched'[q] =>
           \/ Rewriting(q) /\ ~touched[q] /\ cmd'[q] = cmd[q] /\ loaded'[q] = loaded[q]
           \/ loaded'[q] = file /\ file # Broken
  PROVE  FilePart(p)' /\ StandPart(p)'
<1>1. FilePart(p)'
  BY DEF FilePart
<1>2. Standing(p)' = Standing(p) /\ Serves(file, cmd[p])' = Serves(file, cmd[p])
  BY DEF Standing, Serves, FileSettled, Says, Wanted, Targets
<1>3. ASSUME Standing(p), NEW q \in Procs
      PROVE  KeptBy(p, q)'
  BY <1>3 DEF StandPart, KeptBy, Serves, FileSettled, Says, Rewriting
<1>4. restarted[p] = "ok" => Standing(p)
  BY DEF TypeInv, LocalsFit, Standing
<1>5. restarted'[p] = "ok" => Serves(running, cmd[p])'
  BY <1>4 DEF StandPart, Serves, FileSettled, Says
<1>6. QED BY <1>1, <1>2, <1>3, <1>5 DEF StandPart

\* Steps of another process that do not touch the file.
LEMMA OthersOffFile ==
  ASSUME TypeInv, NEW p \in Procs, NEW q \in Procs, q # p, Step(q),
         ~ Truncate(q), ~ WriteBack(q), FilePart(p), StandPart(p)
  PROVE  FilePart(p)' /\ StandPart(p)'
<1>1. file' = file /\ running' \in {running, file, Broken}
  BY DEF Step, Begin, Preflight, ListRecords, CallApi, ReadFile, WriteFails,
     Restart, RestartFails, Fail, Exit, Crash, Leave, Privately
<1>2. Rewriting(q)' => \/ Rewriting(q) /\ cmd'[q] = cmd[q] /\ loaded'[q] = loaded[q] /\ touched'[q] = touched[q]
                       \/ loaded'[q] = file /\ file # Broken
  BY DEF TypeInv, TypeOK, Step, Begin, Preflight, ListRecords, CallApi, ReadFile, WriteFails, NextName,
     Restart, RestartFails, Fail, Exit, Crash, Leave, Privately, Rewriting, End, Accepts, Usable
<1>3. ASSUME NEW r \in Procs, r # q
      PROVE  Rewriting(r)' /\ ~touched'[r] =>
               Rewriting(r) /\ ~touched[r] /\ cmd'[r] = cmd[r] /\ loaded'[r] = loaded[r]
  BY <1>3, OtherLocals DEF TypeInv, Rewriting
<1>4. QED BY <1>1, <1>2, <1>3, SameFileKept, OtherLocals DEF TypeInv

\* Emptying the file, and writing it, by another process.
LEMMA OthersOnFile ==
  ASSUME TypeInv, NEW p \in Procs, NEW q \in Procs, q # p, Truncate(q) \/ WriteBack(q),
         ~touched'[p], FilePart(p), StandPart(p)
  PROVE  FilePart(p)' /\ StandPart(p)'
<1> USE DEF TypeInv
<1>1. Step(q) /\ running' = running
  BY DEF Step, Truncate, WriteBack
<1>2. ~ Rewriting(p) /\ cmd[q].domain # cmd[p].domain /\ ~touched[p]
  <2>1. PICK ps : Disturb(ps \ {q}) /\ Concerned(cmd[q].domain) \cup Overtaken \subseteq ps
    <3>1. CASE Truncate(q)
      BY <3>1 DEF Truncate
    <3>2. CASE WriteBack(q)
      BY <3>2 DEF WriteBack, Concerned, Overtaken
    <3>3. QED BY <3>1, <3>2
  <2>2. p \notin ps /\ ~touched[p]
    BY <2>1 DEF Disturb
  <2>3. QED BY <2>1, <2>2 DEF Overtaken, Concerned
<1>3. /\ pc'[p] = pc[p] /\ cmd'[p] = cmd[p] /\ outcome'[p] = outcome[p]
      /\ settled'[p] = settled[p] /\ restarted'[p] = restarted[p]
  BY <1>1, OtherLocals
<1>4. FilePart(p)'
  BY <1>2, <1>3 DEF FilePart, Rewriting
<1>5. Standing(p)' = Standing(p)
  BY <1>3 DEF Standing
<1>6. ASSUME Standing(p)
      PROVE  Serves(file, cmd[p])'
  <2>1. CASE Truncate(q)
    BY <2>1 DEF Truncate, Serves
  <2>2. CASE WriteBack(q)
    <3>1. Rewriting(q) /\ ~touched[q]
      BY <2>2 DEF WriteBack, Disturb, Rewriting
    <3>2. FileSettled(loaded[q], cmd[p])
      BY <1>2, <1>6, <3>1 DEF StandPart, KeptBy
    <3>3. cmd[q] \in Commands /\ loaded[q] \in Files /\ (pc[p] # "idle" => cmd[p] \in Commands)
      BY <3>1 DEF LocalsFit, Rewriting
    <3>4. pc[p] # "idle"
      BY <1>6 DEF LocalsFit, Standing
    <3>5. FileSettled(file', cmd[p])
      BY <1>2, <2>2, <3>2, <3>3, <3>4, EditedType DEF WriteBack
    <3>6. QED BY <1>3, <3>5 DEF Serves, FileSettled, Says
  <2>3. QED BY <2>1, <2>2
<1>7. ASSUME Standing(p), NEW r \in Procs
      PROVE  KeptBy(p, r)'
  <2>1. Rewriting(r)' /\ ~touched'[r] => Rewriting(r) /\ ~touched[r] /\ cmd'[r] = cmd[r] /\ loaded'[r] = loaded[r]
    <3>1. CASE r # q
      BY <1>1, <3>1, OtherLocals DEF Rewriting
    <3>2. CASE r = q
      BY <3>2 DEF Truncate, WriteBack, Rewriting, Disturb, End, TypeOK
    <3>3. QED BY <3>1, <3>2
  <2>2. KeptBy(p, r)
    BY <1>7 DEF StandPart
  <2>3. QED BY <1>3, <2>1, <2>2 DEF KeptBy, FileSettled, Says
<1>8. Serves(running, cmd[p])' = Serves(running, cmd[p])
  BY <1>1, <1>3 DEF Serves, FileSettled, Says
<1>9. QED BY <1>3, <1>4, <1>5, <1>6, <1>7, <1>8 DEF StandPart
-----------------------------------------------------------------------------
(* A command's own steps.                                                  *)

\* The two names of a command that is at one of them.
LEMMA NamesOf ==
  ASSUME TypeInv, NEW p \in Procs, pc[p] # "idle"
  PROVE  /\ Mine(p) = {<<cmd[p].domain, "apex">>, <<cmd[p].domain, "star">>}
         /\ Here(p) \in Mine(p) /\ Mine(p) \subseteq Names
         /\ leg[p] = "apex" => Here(p) = <<cmd[p].domain, "apex">>
         /\ leg[p] # "apex" => leg[p] = "star" /\ Here(p) = <<cmd[p].domain, "star">>
BY DEF Mine, Targets, Here, Names, TypeInv, TypeOK, LocalsFit, Commands

\* A command that starts, and finds everything as it wants it or not.
LEMMA BeginStands ==
  ASSUME TypeInv, RoutingInv, NEW p \in Procs, Begin(p)
  PROVE  Undisturbed(p)'
<1> USE DEF TypeInv
<1>1. /\ pc'[p] = "preflight" /\ leg'[p] = "apex" /\ restarted'[p] = "none"
      /\ file' = file /\ dns' = dns
  BY DEF Begin, TypeOK, LocalsFit
<1>2. PICK c \in Commands : cmd'[p] = c /\ settled'[p] = Settled(c)
  BY DEF Begin, TypeOK
<1>3. DnsPart(p)'
  BY <1>1, <1>2 DEF DnsPart, Past, Settled, Mine, Calls
<1>4. FilePart(p)'
  BY <1>1 DEF FilePart
<1>5. ASSUME Settled(c)
      PROVE  Serves(file, c)' /\ \A q \in Procs : KeptBy(p, q)'
  <2>1. FileSettled(file, c) /\ file # Broken
    BY <1>5 DEF Settled, Accepts, Usable
  <2>2. ASSUME NEW q \in Procs, q # p, Rewriting(q), ~touched[q]
        PROVE  loaded[q] = file
    BY <2>1, <2>2 DEF RoutingInv, Undisturbed, FilePart, Rewriting
  <2>3. \A q \in Procs : Rewriting(q)' => q # p /\ Rewriting(q) /\ touched'[q] = touched[q] /\ loaded'[q] = loaded[q]
    BY <1>1 DEF Begin, Rewriting, TypeOK
  <2>4. QED BY <1>1, <1>2, <2>1, <2>2, <2>3 DEF Serves, FileSettled, Says, KeptBy
<1>6. StandPart(p)'
  BY <1>1, <1>2, <1>5 DEF StandPart, Standing, Serves, FileSettled, Says
<1>7. QED BY <1>3, <1>4, <1>6 DEF Undisturbed

\* What it has done in DNS.
LEMMA OwnDns ==
  ASSUME TypeInv, NEW p \in Procs, DnsPart(p), StandPart(p), Step(p), ~ Begin(p)
  PROVE  DnsPart(p)'
<1> USE DEF TypeInv
<1>1. CASE ListRecords(p)
  <2>1. dns' = dns /\ cmd' = cmd /\ settled' = settled /\ pc[p] = "list"
    BY <1>1 DEF ListRecords, Privately
  <2>2. CASE Calls(cmd[p], dns[Here(p)]) = {NoCall} /\ NextName(p) /\ UNCHANGED <<listed, loaded, outcome>>
    <3>1. DnsDone(cmd[p], Here(p))
      BY <2>2, NoCallMeansDone DEF DnsDone
    <3>2. QED BY <2>1, <2>2, <3>1, NamesOf DEF DnsPart, Past, DnsDone, NextName, Mine, Calls, TypeOK
  <2>3. CASE End(p, "failed")
    BY <2>1, <2>3 DEF DnsPart, Past, DnsDone, End, Mine, Calls, TypeOK
  <2>4. CASE /\ listed' = [listed EXCEPT ![p] = dns[Here(p)]]
             /\ pc' = [pc EXCEPT ![p] = "call"]
             /\ UNCHANGED <<leg, loaded, outcome>>
    BY <2>1, <2>4 DEF DnsPart, Past, DnsDone, Here, Mine, Calls, TypeOK
  <2>5. QED BY <1>1, <2>2, <2>3, <2>4 DEF ListRecords
<1>2. CASE CallApi(p)
  <2>1. PICK call \in Calls(cmd[p], listed[p]), id \in RecordIds :
          dns' = [dns EXCEPT ![Here(p)] = Effect(@, call, id)]
    BY <1>2 DEF CallApi
  <2>2. /\ pc[p] = "call" /\ cmd' = cmd /\ settled' = settled /\ ~settled[p]
        /\ listed[p] = dns[Here(p)] /\ call \notin {NoCall, Refusal}
    BY <1>2 DEF CallApi, DnsPart, StandPart, LocalsFit
  <2>3. PICK n \in Mine(p) : n = Here(p)
    BY <2>2, NamesOf
  <2>4. dns'[n] = Effect(listed[p], call, id)
    BY <2>1, <2>2, <2>3, NamesOf DEF TypeOK
  <2>5. IF cmd[p].verb = "add" THEN Matching(dns'[n]) # {} ELSE Routing(dns'[n]) = {}
    BY <2>2, <2>4, CallMeansDone
  <2>6. CASE NextName(p) /\ UNCHANGED <<loaded, outcome>>
    <3>1. CASE leg[p] = "apex"
      <4>1. n = <<cmd[p].domain, "apex">>
        BY <2>2, <2>3, <3>1, NamesOf
      <4>2. DnsDone(cmd[p], <<cmd[p].domain, "apex">>)'
        BY <2>2, <2>5, <4>1 DEF DnsDone
      <4>3. pc'[p] = "list" /\ ~settled'[p]
        BY <2>2, <2>6, <3>1 DEF NextName, TypeOK
      <4>4. QED BY <2>2, <4>2, <4>3 DEF DnsPart, Past
    <3>2. CASE leg[p] # "apex"
      <4>1. n = <<cmd[p].domain, "star">> /\ leg[p] = "star"
        BY <2>2, <2>3, <3>2, NamesOf
      <4>2. dns'[<<cmd[p].domain, "apex">>] = dns[<<cmd[p].domain, "apex">>]
        BY <2>1, <2>2, <2>3, <4>1, NamesOf DEF TypeOK
      <4>3. DnsDone(cmd[p], <<cmd[p].domain, "apex">>)'
        BY <2>2, <4>1, <4>2 DEF DnsPart, DnsDone
      <4>4. DnsDone(cmd[p], <<cmd[p].domain, "star">>)'
        BY <2>2, <2>5, <4>1 DEF DnsDone
      <4>5. pc'[p] = "read" /\ ~settled'[p]
        BY <2>2, <2>6, <3>2 DEF NextName, TypeOK
      <4>6. QED BY <2>2, <4>3, <4>4, <4>5 DEF DnsPart, Past
    <3>3. QED BY <3>1, <3>2
  <2>7. CASE End(p, "failed")
    BY <2>2, <2>7 DEF DnsPart, Past, DnsDone, End, TypeOK
  <2>8. QED BY <1>2, <2>6, <2>7 DEF CallApi
<1>3. CASE ~ ListRecords(p) /\ ~ CallApi(p)
  <2>1. dns' = dns
    BY <1>3 DEF Step, Preflight, ReadFile, Truncate, WriteBack, WriteFails, Restart, RestartFails,
       Fail, Exit, Crash, Leave, Privately
  <2>2. CASE Exit(p) \/ Crash(p)
    BY <2>2 DEF Exit, Crash, Leave, DnsPart, Past, TypeOK
  <2>3. CASE ~ Exit(p) /\ ~ Crash(p)
    <3>1. /\ cmd'[p] = cmd[p] /\ settled'[p] = settled[p]
          /\ pc'[p] # "call" /\ (leg'[p] = "star" => leg[p] = "star") /\ (Past(p)' => Past(p))
      BY <1>3, <2>3 DEF Step, Preflight, ReadFile, Truncate, WriteBack, WriteFails, Restart,
         RestartFails, Fail, Privately, End, Past, TypeOK
    <3>2. QED BY <2>1, <3>1 DEF DnsPart, DnsDone, Mine, Calls
  <2>4. QED BY <2>2, <2>3
<1>4. QED BY <1>1, <1>2, <1>3
\* What it has done to the file.  A settled command finds the file settled, or
\* emptied by somebody, and writes nothing.
LEMMA OwnFile ==
  ASSUME TypeInv, RoutingInv, NEW p \in Procs, Undisturbed(p), ~touched[p], Step(p), ~ Begin(p)
  PROVE  FilePart(p)' /\ StandPart(p)'
<1> USE DEF TypeInv
<1>0. DnsPart(p) /\ FilePart(p) /\ StandPart(p)
  BY DEF Undisturbed
<1>1. ASSUME NEW r \in Procs, r # p
      PROVE  Rewriting(r)' /\ ~touched'[r] =>
               Rewriting(r) /\ ~touched[r] /\ cmd'[r] = cmd[r] /\ loaded'[r] = loaded[r]
  BY <1>1, OtherLocals DEF Rewriting
<1>2. CASE Exit(p) \/ Crash(p)
  BY <1>2 DEF Exit, Crash, Leave, FilePart, StandPart, Standing, TypeOK
<1>3. CASE ReadFile(p)
  <2>1. /\ file' = file /\ cmd' = cmd /\ settled' = settled /\ restarted' = restarted
        /\ running' = running /\ restarted[p] = "none" /\ touched' = touched /\ pc[p] = "read"
    BY <1>3 DEF ReadFile, Privately, LocalsFit
  <2>2. CASE ~ Accepts(file, cmd[p].domain) /\ End(p, "failed")
    <3>1. pc'[p] = "done" /\ outcome'[p] = "failed" /\ ~ Rewriting(p)'
      BY <2>2 DEF End, TypeOK, Rewriting
    <3>2. \A r \in Procs : Standing(p) => KeptBy(p, r)'
      BY <1>0, <1>1, <2>1, <3>1 DEF StandPart, KeptBy, FileSettled, Says
    <3>3. Standing(p)' => Standing(p)
      BY <2>1, <3>1 DEF Standing
    <3>4. QED BY <1>0, <2>1, <3>1, <3>2, <3>3 DEF FilePart, StandPart, Serves, FileSettled, Says
  <2>3. CASE Accepts(file, cmd[p].domain) /\ FileSettled(file, cmd[p]) /\ End(p, "ok")
    <3>1. pc'[p] = "done" /\ ~ Rewriting(p)'
      BY <2>3 DEF End, TypeOK, Rewriting
    <3>2. ASSUME NEW r \in Procs
          PROVE  KeptBy(p, r)'
      <4>1. Rewriting(r)' /\ ~touched'[r] => r # p /\ loaded'[r] = loaded[r] /\ loaded[r] = file
        BY <1>1, <2>3, <3>1 DEF RoutingInv, Undisturbed, FilePart, Rewriting, Accepts, Usable
      <4>2. QED BY <2>1, <2>3, <4>1 DEF KeptBy, FileSettled, Says
    <3>3. QED BY <2>1, <2>3, <3>1, <3>2 DEF FilePart, StandPart, Serves, FileSettled, Says
  <2>4. CASE /\ Accepts(file, cmd[p].domain) /\ ~ FileSettled(file, cmd[p])
             /\ loaded' = [loaded EXCEPT ![p] = file]
             /\ pc' = [pc EXCEPT ![p] = "truncate"]
             /\ UNCHANGED <<leg, listed, outcome>>
    <3>1. ~ settled[p]
      BY <1>0, <2>4 DEF StandPart, Standing, Serves, Accepts, Usable
    <3>2. QED BY <2>1, <2>4, <3>1 DEF FilePart, StandPart, Standing, TypeOK
  <2>5. QED BY <1>3, <2>2, <2>3, <2>4 DEF ReadFile
<1>4. CASE Truncate(p)
  <2>1. ~settled'[p] /\ restarted'[p] = "none" /\ pc'[p] = "write" /\ file' = Broken
    BY <1>0, <1>4 DEF Truncate, StandPart, LocalsFit, TypeOK
  <2>2. QED BY <2>1 DEF FilePart, StandPart, Standing
<1>5. CASE WriteBack(p)
  <2>1. /\ ~settled'[p] /\ restarted'[p] = "none" /\ cmd'[p] = cmd[p]
        /\ pc'[p] \in {"restart", "done"} /\ loaded[p] \in Files /\ cmd[p] \in Commands
    BY <1>0, <1>5 DEF WriteBack, End, StandPart, LocalsFit, Rewriting, TypeOK
  <2>2. FileSettled(file', cmd[p])
    BY <1>5, <2>1, EditedType DEF WriteBack
  <2>3. ASSUME NEW r \in Procs
        PROVE  KeptBy(p, r)'
    <3>1. CASE r # p
      <4>1. Rewriting(r) => touched'[r]
        BY <1>5, <3>1 DEF WriteBack, Disturb, Overtaken
      <4>2. QED BY <1>1, <3>1, <4>1 DEF KeptBy
    <3>2. CASE r = p
      BY <3>2 DEF KeptBy
    <3>3. QED BY <3>1, <3>2
  <2>4. QED BY <2>1, <2>2, <2>3 DEF FilePart, StandPart, Serves, FileSettled, Says
<1>6. CASE Restart(p) \/ RestartFails(p)
  <2>1. /\ file' = file /\ cmd' = cmd /\ settled' = settled /\ pc'[p] = "done" /\ Standing(p)
        /\ outcome'[p] = "ok" /\ ~ Rewriting(p)'
    BY <1>6 DEF Restart, RestartFails, End, TypeOK, Standing, Rewriting
  <2>2. \A r \in Procs : KeptBy(p, r)'
    BY <1>0, <1>1, <2>1 DEF StandPart, KeptBy, FileSettled, Says
  <2>3. restarted'[p] = "ok" => running' = file
    BY <1>6 DEF Restart, RestartFails, TypeOK
  <2>4. QED BY <1>0, <2>1, <2>2, <2>3 DEF FilePart, StandPart, Serves, FileSettled, Says
<1>7. CASE Preflight(p) \/ ListRecords(p) \/ CallApi(p) \/ WriteFails(p) \/ Fail(p)
  <2>1. /\ file' = file /\ running' = running /\ cmd' = cmd /\ settled' = settled
        /\ restarted' = restarted /\ restarted[p] = "none"
    BY <1>7 DEF Preflight, ListRecords, CallApi, WriteFails, Fail, Privately, LocalsFit
  <2>2. /\ pc'[p] \in {"list", "call", "read", "done"} /\ (pc'[p] = "done" => outcome'[p] = "failed")
        /\ (settled[p] => pc'[p] # "call")
    <3>1. CASE ListRecords(p)
      <4>1. settled[p] => Calls(cmd[p], dns[Here(p)]) = {NoCall}
        BY <1>0, <3>1, NamesOf DEF DnsPart, ListRecords
      <4>2. QED BY <3>1, <4>1 DEF ListRecords, NextName, End, TypeOK
    <3>2. CASE CallApi(p)
      BY <3>2 DEF CallApi, NextName, End, TypeOK
    <3>3. CASE Preflight(p) \/ WriteFails(p) \/ Fail(p)
      BY <3>3 DEF Preflight, WriteFails, Fail, End, TypeOK
    <3>4. QED BY <1>7, <3>1, <3>2, <3>3
  <2>3. \A r \in Procs : settled[p] => KeptBy(p, r)'
    BY <1>0, <1>1, <2>1, <2>2 DEF StandPart, Standing, KeptBy, FileSettled, Says, Rewriting
  <2>4. QED BY <1>0, <2>1, <2>2, <2>3 DEF FilePart, StandPart, Standing, Serves, FileSettled, Says
<1>8. QED BY <1>2, <1>3, <1>4, <1>5, <1>6, <1>7 DEF Step
-----------------------------------------------------------------------------
(* The invariant, and what follows from it.                                *)

LEMMA RoutingInit == Init => RoutingInv
<1> SUFFICES ASSUME Init, NEW p \in Procs PROVE DnsPart(p) /\ FilePart(p) /\ StandPart(p)
  BY DEF RoutingInv, Undisturbed
<1>1. /\ pc[p] = "idle" /\ leg[p] = "apex" /\ ~settled[p] /\ restarted[p] = "none"
  BY DEF Init
<1>2. QED BY <1>1 DEF DnsPart, FilePart, StandPart, Past, Standing

LEMMA RoutingStep ==
  ASSUME TypeInv, RoutingInv, [Next]_vars
  PROVE  RoutingInv'
<1> SUFFICES ASSUME NEW p \in Procs, ~touched'[p]
             PROVE  DnsPart(p)' /\ FilePart(p)' /\ StandPart(p)'
  BY DEF RoutingInv, Undisturbed
<1>1. CASE Step(p) /\ ~ Begin(p)
  <2>1. CASE touched[p]
    <3>1. Exit(p) \/ Crash(p)
      BY <1>1, <2>1 DEF TypeInv, TypeOK, Step, Preflight, ListRecords, CallApi, ReadFile,
         Truncate, WriteBack, WriteFails, Restart, RestartFails, Fail, Privately, Disturb
    <3>2. QED BY <3>1 DEF TypeInv, TypeOK, Exit, Crash, Leave, DnsPart, FilePart, StandPart, Past, Standing
  <2>2. CASE ~touched[p]
    BY <1>1, <2>2, OwnDns, OwnFile DEF RoutingInv, Undisturbed
  <2>3. QED BY <2>1, <2>2
<1>2. CASE Begin(p)
  BY <1>2, BeginStands DEF Undisturbed
<1>3. ASSUME NEW q \in Procs, q # p, Step(q)
      PROVE  DnsPart(p)' /\ FilePart(p)' /\ StandPart(p)'
  <2>1. ~touched[p] /\ DnsPart(p) /\ FilePart(p) /\ StandPart(p)
    BY <1>3, OtherLocals DEF TypeInv, RoutingInv, Undisturbed
  <2>2. DnsPart(p)'
    BY <1>3, <2>1, OthersKeepDns, DnsPartKept, OtherLocals DEF TypeInv
  <2>3. CASE Truncate(q) \/ WriteBack(q)
    BY <1>3, <2>1, <2>2, <2>3, OthersOnFile
  <2>4. CASE ~ Truncate(q) /\ ~ WriteBack(q)
    BY <1>3, <2>1, <2>2, <2>4, OthersOffFile
  <2>5. QED BY <2>3, <2>4
<1>4. CASE EditFile \/ RestoreFile
  <2>1. Disturb(Procs)
    BY <1>4 DEF EditFile, RestoreFile
  <2>2. touched'[p]
    BY <2>1 DEF Disturb
  <2>3. QED BY <2>2
<1>5. CASE EditDns \/ RestartByHand \/ UNCHANGED vars
  <2>1. /\ UNCHANGED <<file, locals, settled>> /\ running' \in {running, file}
        /\ \A q \in Procs : touched[q] => touched'[q]
    BY <1>5 DEF EditDns, RestartByHand, vars, Disturb
  <2>2. DnsPart(p) /\ FilePart(p) /\ StandPart(p)
    BY <2>1 DEF RoutingInv, Undisturbed
  <2>3. DnsPart(p)'
    BY <1>5, <2>1, <2>2, OthersKeepDns, DnsPartKept DEF locals
  <2>4. FilePart(p)' /\ StandPart(p)'
    BY <2>1, <2>2, SameFileKept DEF locals, Rewriting
  <2>5. QED BY <2>3, <2>4
<1>6. QED BY <1>1, <1>2, <1>3, <1>4, <1>5 DEF Next

THEOREM RoutingInvariant == Spec => []RoutingInv
<1>1. TypeInv /\ RoutingInv /\ [Next]_vars => RoutingInv'
  BY RoutingStep
<1>2. QED BY <1>1, RoutingInit, TypeInvariant, PTL DEF Spec

\* A command that reported ok, and that nobody has disturbed, has wired or
\* unwired its domain, and it stays so.
THEOREM OkMeansDone == Spec => []OkIsDone
<1>1. RoutingInv => OkIsDone
  BY DEF RoutingInv, Undisturbed, DnsPart, StandPart, Past, Standing, OkIsDone, Mine, Targets
<1>2. QED BY <1>1, RoutingInvariant, PTL

\* A command with nothing to do changes nothing.
THEOREM MutationsAreIdempotent == Spec => []NothingToDoChangesNothing
<1>1. RoutingInv => NothingToDoChangesNothing
  BY DEF RoutingInv, Undisturbed, StandPart, NothingToDoChangesNothing
<1>2. QED BY <1>1, RoutingInvariant, PTL

\* After a restart that was reported, the tunnel serves what was written.
THEOREM RestartIsEffective == Spec => []RestartedServes
<1>1. RoutingInv => RestartedServes
  BY DEF RoutingInv, Undisturbed, StandPart, RestartedServes
<1>2. QED BY <1>1, RoutingInvariant, PTL
=============================================================================
