----------------------------- MODULE InfraProofs -----------------------------
(* Proofs about Infra, for any number of terminals, any settings and any    *)
(* bounds.                                                                  *)
EXTENDS Infra, TLAPS

USE SettingsAssumption, BoundsAssumption

Locals ==
  [at : Steps, kind : Kinds, settings : {None} \cup Settings, refresh : BOOLEAN,
   flag : BOOLEAN, next : 1..5, op : Nat, ok : BOOLEAN, event : BOOLEAN,
   alone : BOOLEAN, fresh : BOOLEAN]

Row == [kind : {"plan", "apply"}, status : {"running", "completed", "failed"},
        event : BOOLEAN]

\* The steps a command of each kind goes through, when it has a row, and which
\* it has when.
Fits(l) ==
  /\ l.kind = "render" => l.at \in {"idle", "write"}
  /\ l.kind = "plan" => l.at \in {"start", "inspect", "write", "init", "plan", "finish"}
  /\ l.kind = "apply" => l.at \in {"start", "inspect", "apply", "event", "finish"}
  /\ l.op = 0 <=> l.kind = "render" \/ l.at = "start"
  /\ l.at \in {"start", "inspect"} => l.next = 1 /\ ~l.fresh
  /\ l.fresh => l.kind = "plan"
  /\ l.at = "write" \/ l.kind = "plan" => l.settings \in Settings

LocalsFit == \A p \in Processes : Fits(proc[p])

Types ==
  /\ exists \in BOOLEAN
  /\ files \in [FileNames -> {None, Torn, "rendered"} \cup Settings]
  /\ plan \in {None} \cup [settings : Settings, serial : Nat]
  /\ live \in {None, Torn} \cup Settings
  /\ serial \in Nat
  /\ rows \in Seq(Row)
  /\ applied \subseteq DOMAIN rows
  /\ events \in Seq([op : Nat, ok : BOOLEAN])
  /\ lost \subseteq DOMAIN rows
  /\ proc \in [Processes -> Locals]
  /\ \A p \in Processes : proc[p].op \in {0} \cup DOMAIN rows
  /\ renders \in Nat
  /\ faults \in Nat

TypeInv == Types /\ LocalsFit

-----------------------------------------------------------------------------
(* Types.                                                                  *)

LEMMA FilesFacts ==
  /\ DOMAIN Files = 1..5
  /\ Len(Files) = 5
  /\ \A i \in 1..5 : Files[i] \in FileNames
  /\ \A i \in 1..5 : Files[i] = "terraform.tfvars.json" <=> i = 4
BY DEF Files, FileNames

IsIdle(l) ==
  /\ l.at = "idle" /\ l.kind = "render" /\ l.op = 0 /\ l.next = 1
  /\ ~l.ok /\ ~l.event /\ ~l.fresh

LEMMA IdleFacts == Idle \in Locals /\ Fits(Idle) /\ IsIdle(Idle)
BY DEF Idle, Locals, Fits, Steps, Kinds, IsIdle

\* What a command starts with fits.
LEMMA RenderBegins ==
  ASSUME NEW i \in Locals, IsIdle(i), NEW s \in Settings
  PROVE  LET c == [i EXCEPT !.at = "write", !.settings = s]
         IN c \in Locals /\ Fits(c) /\ c.op = 0 /\ ~c.ok /\ ~c.event /\ ~c.fresh
BY DEF Locals, Fits, Steps, Kinds, IsIdle

LEMMA PlanBegins ==
  ASSUME NEW i \in Locals, IsIdle(i), NEW s \in Settings, NEW refresh \in BOOLEAN, NEW out \in BOOLEAN
  PROVE  LET c == [i EXCEPT !.at = "start", !.kind = "plan", !.settings = s, !.refresh = refresh,
                  !.flag = out]
         IN c \in Locals /\ Fits(c) /\ c.op = 0 /\ ~c.ok /\ ~c.event /\ ~c.fresh
BY DEF Locals, Fits, Steps, Kinds, IsIdle

LEMMA ApplyMayBegin ==
  ASSUME NEW i \in Locals, IsIdle(i), NEW record \in BOOLEAN
  PROVE  LET c == [i EXCEPT !.at = "start", !.kind = "apply", !.flag = record]
         IN c \in Locals /\ Fits(c) /\ c.op = 0 /\ ~c.ok /\ ~c.event /\ ~c.fresh
BY DEF Locals, Fits, Steps, Kinds, IsIdle

LEMMA InitType == Init => TypeInv
<1> SUFFICES ASSUME Init PROVE TypeInv
  OBVIOUS
<1>1. rows \in Seq(Row) /\ events \in Seq([op : Nat, ok : BOOLEAN])
  BY DEF Init
<1>2. proc \in [Processes -> Locals] /\ LocalsFit
  BY IdleFacts DEF Init, LocalsFit
<1>3. \A p \in Processes : proc[p].op = 0
  BY DEF Init, Idle
<1>4. files \in [FileNames -> {None, Torn, "rendered"} \cup Settings]
  BY DEF Init
<1>5. QED BY <1>1, <1>2, <1>3, <1>4 DEF Init, Types, TypeInv

\* A command that begins leaves the others as they are, but not alone.
LEMMA BeginLocals ==
  ASSUME TypeInv, NEW p \in Processes, NEW c \in Locals, Begin(p, c),
         Fits(c), c.op = 0
  PROVE  /\ proc' \in [Processes -> Locals]
         /\ LocalsFit'
         /\ \A q \in Processes : proc'[q].op \in {0} \cup DOMAIN rows
<1>1. [c EXCEPT !.alone = Alone(p)] \in Locals /\ Fits([c EXCEPT !.alone = Alone(p)])
  BY DEF Locals, Fits, Alone
<1>2. ASSUME NEW q \in Processes
      PROVE  /\ [proc[q] EXCEPT !.alone = FALSE] \in Locals
             /\ Fits([proc[q] EXCEPT !.alone = FALSE])
             /\ [proc[q] EXCEPT !.alone = FALSE].op = proc[q].op
  BY DEF Types, TypeInv, LocalsFit, Fits, Locals
<1>3. [c EXCEPT !.alone = Alone(p)].op = 0
  BY DEF Locals
<1>4. \A q \in Processes : proc[q].op \in {0} \cup DOMAIN rows
  BY DEF Types, TypeInv
<1>5. QED BY <1>1, <1>2, <1>3, <1>4 DEF Begin, LocalsFit

\* A command that goes on changes its own locals only.
LEMMA OwnLocals ==
  ASSUME TypeInv, NEW p \in Processes, NEW l \in Locals, Fits(l),
         proc' = [proc EXCEPT ![p] = l],
         l.op \in {0} \cup DOMAIN rows'
  PROVE  /\ proc' \in [Processes -> Locals]
         /\ LocalsFit'
         /\ DOMAIN rows \subseteq DOMAIN rows' =>
              \A q \in Processes : proc'[q].op \in {0} \cup DOMAIN rows'
BY DEF Types, TypeInv, LocalsFit

\* What a step may leave in the locals of the command that takes it.
LEMMA NextLocals ==
  ASSUME TypeInv, NEW p \in Processes, Step(p)
  PROVE  /\ proc' = [proc EXCEPT ![p] = proc'[p]]
         /\ proc'[p] \in Locals
         /\ Fits(proc'[p])
         /\ \/ proc'[p].op = proc[p].op
            \/ proc'[p] = Idle
            \/ Start(p) /\ proc'[p].op = Len(rows) + 1
<1> USE DEF Types, TypeInv
<1>0. proc \in [Processes -> Locals] /\ proc[p] \in Locals /\ Fits(proc[p])
  BY DEF LocalsFit
<1>1. CASE Start(p)
  <2>1. Len(rows) \in Nat
    OBVIOUS
  <2>2. QED BY <1>0, <1>1, <2>1 DEF Start, Locals, Fits, Steps
<1>2. CASE Unavailable(p)
  BY <1>0, <1>2 DEF Unavailable, Fails, Result, Locals, Fits, Steps
<1>3. CASE PlanRenders(p)
  BY <1>0, <1>3 DEF PlanRenders, Locals, Fits, Steps
<1>4. CASE PlanReuses(p)
  BY <1>0, <1>4 DEF PlanReuses, Locals, Fits, Steps
<1>5. CASE NoSavedPlan(p)
  BY <1>0, <1>5 DEF NoSavedPlan, Fails, Result, Locals, Fits, Steps
<1>6. CASE ApplyBegins(p)
  BY <1>0, <1>6 DEF ApplyBegins, Locals, Fits, Steps
<1>7. CASE Write(p)
  <2>1. CASE proc[p].next < 5
    <3>1. proc' = [proc EXCEPT ![p].next = @ + 1] /\ proc[p].at = "write"
      BY <1>7, <2>1, FilesFacts DEF Write
    <3>2. proc[p].next + 1 \in 1..5
      BY <1>0, <2>1 DEF Locals
    <3>3. QED BY <1>0, <3>1, <3>2 DEF Locals, Fits
  <2>2. CASE ~(proc[p].next < 5) /\ proc[p].kind = "render"
    BY <1>0, <1>7, <2>2, FilesFacts, IdleFacts DEF Write
  <2>3. CASE ~(proc[p].next < 5) /\ proc[p].kind # "render"
    BY <1>0, <1>7, <2>3, FilesFacts DEF Write, Locals, Fits, Steps, Kinds
  <2>4. QED BY <2>1, <2>2, <2>3
<1>8. CASE TofuInit(p)
  BY <1>0, <1>8 DEF TofuInit, Locals, Fits, Steps
<1>9. CASE TofuFails(p)
  BY <1>0, <1>9 DEF TofuFails, Fails, Result, Locals, Fits, Steps
<1>10. CASE TofuPlan(p)
  BY <1>0, <1>10 DEF TofuPlan, Result, Locals, Fits, Steps
<1>11. CASE TofuApply(p)
  BY <1>0, <1>11 DEF TofuApply, AfterApply, Locals, Fits, Steps
<1>12. CASE TofuApplyFails(p)
  BY <1>0, <1>12 DEF TofuApplyFails, AfterApply, Locals, Fits, Steps
<1>13. CASE RecordEvent(p)
  BY <1>0, <1>13 DEF RecordEvent, Locals, Fits, Steps
<1>14. CASE Finish(p)
  BY <1>0, <1>14, IdleFacts DEF Finish
<1>15. QED
  BY <1>1, <1>2, <1>3, <1>4, <1>5, <1>6, <1>7, <1>8, <1>9, <1>10, <1>11, <1>12,
     <1>13, <1>14 DEF Step

\* One step of a command keeps the types of everything else.
LEMMA StepType ==
  ASSUME TypeInv, NEW p \in Processes, Step(p)
  PROVE  TypeInv'
<1> USE DEF Types, TypeInv
<1>0. proc[p] \in Locals /\ Fits(proc[p]) /\ proc[p].op \in {0} \cup DOMAIN rows
  BY DEF LocalsFit
<1>1. rows' \in Seq(Row) /\ DOMAIN rows \subseteq DOMAIN rows' /\ proc'[p].op \in {0} \cup DOMAIN rows'
  <2>1. CASE Start(p)
    <3>1. [kind |-> proc[p].kind, status |-> "running", event |-> FALSE] \in Row
      BY <1>0, <2>1 DEF Start, Row, Fits, Locals, Kinds
    <3>2. rows' \in Seq(Row) /\ Len(rows') = Len(rows) + 1
      BY <2>1, <3>1 DEF Start
    <3>3. DOMAIN rows = 1..Len(rows) /\ DOMAIN rows' = 1..(Len(rows) + 1) /\ Len(rows) \in Nat
      BY <3>2
    <3>4. proc'[p].op = Len(rows) + 1
      BY <1>0, <2>1 DEF Start, Locals
    <3>5. QED BY <3>2, <3>3, <3>4
  <2>2. CASE Finish(p)
    <3>1. proc[p].op \in DOMAIN rows
      BY <1>0, <2>2 DEF Finish, Fits
    <3>2. [rows[proc[p].op] EXCEPT !.status = Status(proc[p].ok), !.event = proc[p].event] \in Row
      <4>1. rows[proc[p].op] \in Row /\ proc[p].event \in BOOLEAN
        BY <1>0, <3>1 DEF Locals
      <4>2. Status(proc[p].ok) \in {"completed", "failed"}
        BY DEF Status
      <4>3. QED BY <4>1, <4>2 DEF Row
    <3>3. rows' = [rows EXCEPT ![proc[p].op] =
                     [rows[proc[p].op] EXCEPT !.status = Status(proc[p].ok), !.event = proc[p].event]]
      BY <2>2, <3>1 DEF Finish
    <3>4. rows' \in Seq(Row) /\ DOMAIN rows' = DOMAIN rows
      BY <3>1, <3>2, <3>3
    <3>5. QED BY <2>2, <3>4 DEF Finish, Idle
  <2>3. CASE ~Start(p) /\ ~Finish(p)
    <3>1. rows' = rows
      BY <2>3 DEF Step, Unavailable, Fails, PlanRenders, PlanReuses, NoSavedPlan,
         ApplyBegins, Write, TofuInit, TofuFails, TofuPlan, TofuApply, TofuApplyFails,
         RecordEvent, journal
    <3>2. QED BY <1>0, <2>3, <3>1, NextLocals DEF Idle
  <2>4. QED BY <2>1, <2>2, <2>3
<1>2. /\ proc' \in [Processes -> Locals]
      /\ LocalsFit'
      /\ \A q \in Processes : proc'[q].op \in {0} \cup DOMAIN rows'
  BY <1>1, NextLocals, OwnLocals
<1>3. exists' \in BOOLEAN /\ renders' \in Nat /\ faults' \in Nat
  BY DEF Step, Start, Unavailable, Fails, PlanRenders, PlanReuses, NoSavedPlan, ApplyBegins,
     Write, TofuInit, TofuFails, TofuPlan, TofuApply, TofuApplyFails, RecordEvent, Finish,
     workspace
<1>4. files' \in [FileNames -> {None, Torn, "rendered"} \cup Settings]
  <2>1. CASE Write(p)
    <3>1. Rendered(Files[proc[p].next], proc[p].settings) \in {"rendered"} \cup Settings
      BY <1>0, <2>1 DEF Write, Rendered, Fits
    <3>2. QED BY <2>1, <3>1 DEF Write
  <2>2. CASE ~Write(p)
    BY <2>2 DEF Step, Start, Unavailable, Fails, PlanRenders, PlanReuses, NoSavedPlan,
       ApplyBegins, TofuInit, TofuFails, TofuPlan, TofuApply, TofuApplyFails, RecordEvent,
       Finish, workspace
  <2>3. QED BY <2>1, <2>2
<1>5. plan' \in {None} \cup [settings : Settings, serial : Nat]
  <2>1. CASE TofuPlan(p)
    BY <2>1 DEF TofuPlan, Plannable
  <2>2. CASE ~TofuPlan(p)
    BY <2>2 DEF Step, Start, Unavailable, Fails, PlanRenders, PlanReuses, NoSavedPlan,
       ApplyBegins, Write, TofuInit, TofuFails, TofuApply, TofuApplyFails, RecordEvent,
       Finish, workspace
  <2>3. QED BY <2>1, <2>2
<1>6. /\ live' \in {None, Torn} \cup Settings /\ serial' \in Nat
      /\ applied' \subseteq DOMAIN rows'
  <2>1. CASE TofuApply(p)
    <3>1. proc[p].op \in DOMAIN rows /\ rows' = rows
      BY <1>0, <2>1 DEF TofuApply, Fits, journal
    <3>2. QED BY <2>1, <3>1 DEF TofuApply
  <2>2. CASE TofuApplyFails(p)
    BY <1>1, <2>2 DEF TofuApplyFails, cloud
  <2>3. CASE ~TofuApply(p) /\ ~TofuApplyFails(p)
    BY <1>1, <2>3 DEF Step, Start, Unavailable, Fails, PlanRenders, PlanReuses, NoSavedPlan,
       ApplyBegins, Write, TofuInit, TofuFails, TofuPlan, RecordEvent, Finish, cloud
  <2>4. QED BY <2>1, <2>2, <2>3
<1>7. events' \in Seq([op : Nat, ok : BOOLEAN]) /\ lost' \subseteq DOMAIN rows'
  <2>1. CASE RecordEvent(p)
    <3>1. [op |-> proc[p].op, ok |-> proc[p].ok] \in [op : Nat, ok : BOOLEAN]
      BY <1>0 DEF Locals
    <3>2. QED BY <1>1, <2>1, <3>1 DEF RecordEvent
  <2>2. CASE ~RecordEvent(p)
    BY <1>1, <2>2 DEF Step, Start, Unavailable, Fails, PlanRenders, PlanReuses, NoSavedPlan,
       ApplyBegins, Write, TofuInit, TofuFails, TofuPlan, TofuApply, TofuApplyFails, Finish,
       journal
  <2>3. QED BY <2>1, <2>2
<1>8. QED BY <1>1, <1>2, <1>3, <1>4, <1>5, <1>6, <1>7

LEMMA TypeStep ==
  ASSUME TypeInv, [Next]_vars
  PROVE  TypeInv'
<1> USE DEF Types, TypeInv
<1>1. CASE UNCHANGED vars
  BY <1>1 DEF vars, workspace, cloud, journal, LocalsFit
<1>2. ASSUME NEW p \in Processes, Render(p) PROVE TypeInv'
  <2>1. PICK s \in Settings : Begin(p, [Idle EXCEPT !.at = "write", !.settings = s])
    BY <1>2 DEF Render
  <2> DEFINE c == [Idle EXCEPT !.at = "write", !.settings = s]
  <2>2. c \in Locals /\ Fits(c) /\ c.op = 0
    BY RenderBegins, IdleFacts
  <2> HIDE DEF c
  <2>3. /\ proc' \in [Processes -> Locals]
        /\ LocalsFit'
        /\ \A q \in Processes : proc'[q].op \in {0} \cup DOMAIN rows
    BY <2>1, <2>2, BeginLocals DEF c
  <2>4. QED BY <1>2, <2>3 DEF Render, cloud, journal
<1>3. ASSUME NEW p \in Processes, Plan(p) PROVE TypeInv'
  <2>1. PICK s \in Settings, refresh \in BOOLEAN, out \in BOOLEAN :
          Begin(p, [Idle EXCEPT !.at = "start", !.kind = "plan", !.settings = s,
                                !.refresh = refresh, !.flag = out])
    BY <1>3 DEF Plan
  <2> DEFINE c == [Idle EXCEPT !.at = "start", !.kind = "plan", !.settings = s,
                               !.refresh = refresh, !.flag = out]
  <2>2. c \in Locals /\ Fits(c) /\ c.op = 0
    BY PlanBegins, IdleFacts
  <2> HIDE DEF c
  <2>3. /\ proc' \in [Processes -> Locals]
        /\ LocalsFit'
        /\ \A q \in Processes : proc'[q].op \in {0} \cup DOMAIN rows
    BY <2>1, <2>2, BeginLocals DEF c
  <2>4. QED BY <1>3, <2>3 DEF Plan, workspace, cloud, journal
<1>4. ASSUME NEW p \in Processes, Apply(p) PROVE TypeInv'
  <2>1. PICK record \in BOOLEAN :
          Begin(p, [Idle EXCEPT !.at = "start", !.kind = "apply", !.flag = record])
    BY <1>4 DEF Apply
  <2> DEFINE c == [Idle EXCEPT !.at = "start", !.kind = "apply", !.flag = record]
  <2>2. c \in Locals /\ Fits(c) /\ c.op = 0
    BY ApplyMayBegin, IdleFacts
  <2> HIDE DEF c
  <2>3. /\ proc' \in [Processes -> Locals]
        /\ LocalsFit'
        /\ \A q \in Processes : proc'[q].op \in {0} \cup DOMAIN rows
    BY <2>1, <2>2, BeginLocals DEF c
  <2>4. QED BY <1>4, <2>3 DEF Apply, workspace, cloud, journal
<1>5. ASSUME NEW p \in Processes, Step(p) PROVE TypeInv'
  BY <1>5, StepType
<1>6. ASSUME NEW p \in Processes, Dies(p) PROVE TypeInv'
  <2>1. files' \in [FileNames -> {None, Torn, "rendered"} \cup Settings]
    BY <1>6 DEF Dies
  <2>2. lost' \subseteq DOMAIN rows
    BY <1>6 DEF Dies
  <2>3. proc' \in [Processes -> Locals] /\ LocalsFit'
    BY <1>6, IdleFacts DEF Dies, LocalsFit
  <2>4. \A q \in Processes : proc'[q].op \in {0} \cup DOMAIN rows
    BY <1>6 DEF Dies, Idle
  <2>5. QED BY <1>6, <2>1, <2>2, <2>3, <2>4 DEF Dies, cloud
<1>7. CASE RemovePlan
  BY <1>7 DEF RemovePlan, cloud, journal, LocalsFit
<1>8. QED BY <1>1, <1>2, <1>3, <1>4, <1>5, <1>6, <1>7 DEF Next

LEMMA TypeInvariant == Spec => []TypeInv
<1>1. TypeInv /\ [Next]_vars => TypeInv'
  BY TypeStep
<1>2. QED BY <1>1, InitType, PTL DEF Spec

\* Every reachable state is well typed: a command works on a row that is
\* there, and never writes a file past the last.
THEOREM TypeCorrect == Spec => []TypeOK
<1>1. TypeInv => TypeOK
  BY FilesFacts DEF TypeInv, Types, TypeOK, Locals, Row
<1>2. QED BY <1>1, TypeInvariant, PTL

-----------------------------------------------------------------------------
(* The rows.  A row is opened by Start, closed by Finish and lost by Dies;  *)
(* every other step leaves the rows and their owners alone.                 *)

Quiet ==
  /\ UNCHANGED <<rows, lost>>
  /\ \A p \in Processes :
       /\ proc'[p].op = proc[p].op
       /\ proc[p].op # 0 => proc'[p].kind = proc[p].kind

\* A command begins without a row, an outcome or an event.
LEMMA BeginsWith ==
  ASSUME TypeInv, NEW p \in Processes, Render(p) \/ Plan(p) \/ Apply(p)
  PROVE  \E c \in Locals : Begin(p, c) /\ c.op = 0 /\ ~c.ok /\ ~c.event /\ ~c.fresh
<1>1. CASE Render(p)
  <2>1. PICK s \in Settings : Begin(p, [Idle EXCEPT !.at = "write", !.settings = s])
    BY <1>1 DEF Render
  <2>2. QED BY <2>1, RenderBegins, IdleFacts
<1>2. CASE Plan(p)
  <2>1. PICK s \in Settings, refresh \in BOOLEAN, out \in BOOLEAN :
          Begin(p, [Idle EXCEPT !.at = "start", !.kind = "plan", !.settings = s,
                                !.refresh = refresh, !.flag = out])
    BY <1>2 DEF Plan
  <2>2. QED BY <2>1, PlanBegins, IdleFacts
<1>3. CASE Apply(p)
  <2>1. PICK record \in BOOLEAN :
          Begin(p, [Idle EXCEPT !.at = "start", !.kind = "apply", !.flag = record])
    BY <1>3 DEF Apply
  <2>2. QED BY <2>1, ApplyMayBegin, IdleFacts
<1>4. QED BY <1>1, <1>2, <1>3

LEMMA JournalStep ==
  ASSUME TypeInv, [Next]_vars
  PROVE  \/ Quiet
         \/ \E p \in Processes : Start(p) \/ Finish(p) \/ (Dies(p) /\ proc[p].op # 0)
<1> USE DEF Types, TypeInv, Quiet
<1>0. \A q \in Processes : proc[q] \in Locals /\ Fits(proc[q])
  BY DEF LocalsFit
<1>1. CASE UNCHANGED vars
  BY <1>1 DEF vars, journal
<1>2. ASSUME NEW p \in Processes, Render(p) \/ Plan(p) \/ Apply(p) PROVE Quiet
  <2>1. PICK c \in Locals : Begin(p, c) /\ c.op = 0
    BY <1>2, BeginsWith
  <2>2. proc[p].op = 0
    BY <1>0, <2>1 DEF Begin, Fits, Locals, Kinds
  <2>3. \A q \in Processes : proc'[q].op = proc[q].op
    BY <1>0, <2>1, <2>2 DEF Begin, Locals
  <2>4. \A q \in Processes : q # p => proc'[q].kind = proc[q].kind
    BY <1>0, <2>1 DEF Begin, Locals
  <2>5. UNCHANGED <<rows, lost>>
    BY <1>2 DEF Render, Plan, Apply, journal
  <2>6. QED BY <2>2, <2>3, <2>4, <2>5
<1>3. ASSUME NEW p \in Processes, Step(p), ~Start(p), ~Finish(p) PROVE Quiet
  <2>1. UNCHANGED <<rows, lost>>
    BY <1>3 DEF Step, Unavailable, Fails, PlanRenders, PlanReuses, NoSavedPlan,
       ApplyBegins, Write, TofuInit, TofuFails, TofuPlan, TofuApply, TofuApplyFails,
       RecordEvent, journal
  <2>2. CASE Write(p)
    BY <1>0, <2>1, <2>2, FilesFacts DEF Write, Fits, Idle, Locals
  <2>3. CASE Unavailable(p)
    BY <1>0, <2>1, <2>3 DEF Unavailable, Fails, Result, Locals
  <2>4. CASE NoSavedPlan(p)
    BY <1>0, <2>1, <2>4 DEF NoSavedPlan, Fails, Result, Locals
  <2>5. CASE TofuFails(p)
    BY <1>0, <2>1, <2>5 DEF TofuFails, Fails, Result, Locals
  <2>6. CASE TofuPlan(p)
    BY <1>0, <2>1, <2>6 DEF TofuPlan, Result, Locals
  <2>7. CASE PlanRenders(p)
    BY <1>0, <2>1, <2>7 DEF PlanRenders, Locals
  <2>8. CASE PlanReuses(p)
    BY <1>0, <2>1, <2>8 DEF PlanReuses, Locals
  <2>9. CASE ApplyBegins(p)
    BY <1>0, <2>1, <2>9 DEF ApplyBegins, Locals
  <2>10. CASE TofuInit(p)
    BY <1>0, <2>1, <2>10 DEF TofuInit, Locals
  <2>11. CASE TofuApply(p)
    BY <1>0, <2>1, <2>11 DEF TofuApply, AfterApply, Locals
  <2>12. CASE TofuApplyFails(p)
    BY <1>0, <2>1, <2>12 DEF TofuApplyFails, AfterApply, Locals
  <2>13. CASE RecordEvent(p)
    BY <1>0, <2>1, <2>13 DEF RecordEvent, Locals
  <2>14. QED
    BY <1>3, <2>2, <2>3, <2>4, <2>5, <2>6, <2>7, <2>8, <2>9, <2>10, <2>11, <2>12, <2>13 DEF Step
<1>4. ASSUME NEW p \in Processes, Dies(p), proc[p].op = 0 PROVE Quiet
  BY <1>0, <1>4 DEF Dies, Idle
<1>5. CASE RemovePlan
  BY <1>5 DEF RemovePlan, journal
<1>6. QED BY <1>1, <1>2, <1>3, <1>4, <1>5 DEF Next

\* A command that has a row owns it: the row is running, of its kind and of
\* nobody else.
Owned ==
  /\ \A p \in Processes : proc[p].op # 0 =>
       /\ proc[p].op \notin lost
       /\ rows[proc[p].op].status = "running"
       /\ rows[proc[p].op].kind = proc[p].kind
       /\ ~rows[proc[p].op].event
  /\ \A p, q \in Processes : p # q /\ proc[p].op # 0 => proc[p].op # proc[q].op
  /\ \A id \in lost : rows[id].status = "running"
  /\ RunningHasAnOwner

\* The row that Start opens.
LEMMA StartRow ==
  ASSUME TypeInv, NEW p \in Processes, Start(p)
  PROVE  /\ 0 \notin DOMAIN rows
         /\ Len(rows) + 1 \notin DOMAIN rows
         /\ DOMAIN rows' = DOMAIN rows \cup {Len(rows) + 1}
         /\ rows'[Len(rows) + 1].status = "running"
         /\ rows'[Len(rows) + 1].kind = proc[p].kind
         /\ rows'[Len(rows) + 1].event = FALSE
         /\ \A id \in DOMAIN rows : rows'[id] = rows[id]
         /\ proc[p].op = 0
         /\ proc'[p].op = Len(rows) + 1
         /\ proc'[p].kind = proc[p].kind
         /\ \A q \in Processes \ {p} : proc'[q] = proc[q]
<1> USE DEF Types, TypeInv
<1>1. Len(rows) \in Nat /\ DOMAIN rows = 1..Len(rows)
  OBVIOUS
<1>2. proc[p] \in Locals /\ Fits(proc[p])
  BY DEF LocalsFit
<1> DEFINE r == [kind |-> proc[p].kind, status |-> "running", event |-> FALSE]
<1>3. r \in Row
  BY <1>2 DEF Start, Row, Fits, Locals, Kinds
<1>4. rows' = Append(rows, r)
  BY DEF Start
<1> HIDE DEF r
<1>5. /\ DOMAIN rows' = 1..(Len(rows) + 1)
      /\ rows'[Len(rows) + 1] = r
      /\ \A id \in 1..Len(rows) : rows'[id] = rows[id]
  BY <1>1, <1>3, <1>4
<1>6. /\ proc[p].op = 0
      /\ proc'[p].op = Len(rows) + 1
      /\ proc'[p].kind = proc[p].kind
      /\ \A q \in Processes \ {p} : proc'[q] = proc[q]
  BY <1>2 DEF Start, Fits, Locals
<1>7. /\ 0 \notin DOMAIN rows
      /\ Len(rows) + 1 \notin DOMAIN rows
      /\ DOMAIN rows' = DOMAIN rows \cup {Len(rows) + 1}
  BY <1>1, <1>5
<1>8. r.status = "running" /\ r.kind = proc[p].kind /\ r.event = FALSE
  BY DEF r
<1>9. QED BY <1>1, <1>5, <1>6, <1>7, <1>8

\* The row that Finish closes.
LEMMA FinishRow ==
  ASSUME TypeInv, NEW p \in Processes, Finish(p)
  PROVE  /\ proc[p].op \in DOMAIN rows
         /\ proc[p].op # 0
         /\ DOMAIN rows' = DOMAIN rows
         /\ rows'[proc[p].op].status = Status(proc[p].ok)
         /\ rows'[proc[p].op].event = proc[p].event
         /\ rows'[proc[p].op].kind = rows[proc[p].op].kind
         /\ \A id \in DOMAIN rows \ {proc[p].op} : rows'[id] = rows[id]
         /\ proc'[p].op = 0
         /\ \A q \in Processes \ {p} : proc'[q] = proc[q]
<1> USE DEF Types, TypeInv
<1>1. proc[p] \in Locals /\ proc[p].op \in DOMAIN rows /\ proc[p].op # 0
  BY DEF LocalsFit, Fits, Finish
<1>2. rows[proc[p].op] \in Row
  BY <1>1
<1>3. proc'[p].op = 0 /\ \A q \in Processes \ {p} : proc'[q] = proc[q]
  BY DEF Finish, Idle
<1>4. QED BY <1>1, <1>2, <1>3 DEF Finish, Row

LEMMA OwnedStep ==
  ASSUME TypeInv, Owned, [Next]_vars
  PROVE  Owned'
<1>0. \A q \in Processes : proc[q].op \in {0} \cup DOMAIN rows
  BY DEF TypeInv, Types
<1>1. CASE Quiet
  BY <1>1 DEF Quiet, Owned, RunningHasAnOwner, Listed
<1>2. ASSUME NEW p \in Processes, Start(p) PROVE Owned'
  <2>1. UNCHANGED lost /\ lost \subseteq DOMAIN rows
    BY <1>2 DEF Start, TypeInv, Types
  <2> DEFINE id == Len(rows) + 1
  <2>2. /\ id \notin DOMAIN rows /\ 0 \notin DOMAIN rows
        /\ DOMAIN rows' = DOMAIN rows \cup {id}
        /\ rows'[id].status = "running"
        /\ rows'[id].kind = proc[p].kind
        /\ ~rows'[id].event
        /\ \A i \in DOMAIN rows : rows'[i] = rows[i]
        /\ proc[p].op = 0
        /\ proc'[p].op = id
        /\ proc'[p].kind = proc[p].kind
        /\ \A q \in Processes \ {p} : proc'[q] = proc[q]
    BY <1>2, StartRow
  <2> HIDE DEF id
  <2>3. \A q \in Processes : proc'[q].op # 0 =>
          /\ proc'[q].op \notin lost'
          /\ rows'[proc'[q].op].status = "running"
          /\ rows'[proc'[q].op].kind = proc'[q].kind
          /\ ~rows'[proc'[q].op].event
    BY <1>0, <2>1, <2>2 DEF Owned
  <2>4. \A q, r \in Processes : q # r /\ proc'[q].op # 0 => proc'[q].op # proc'[r].op
    BY <1>0, <2>1, <2>2 DEF Owned
  <2>5. \A i \in lost' : rows'[i].status = "running"
    BY <2>1, <2>2 DEF Owned
  <2>6. ASSUME NEW i \in DOMAIN rows', rows'[i].status = "running"
        PROVE  i \in lost' \/ \E q \in Processes : proc'[q].op = i
    <3>1. CASE i = id
      BY <2>2, <3>1
    <3>2. CASE i # id
      <4>1. i \in DOMAIN rows /\ rows[i].status = "running"
        BY <2>2, <2>6, <3>2
      <4>2. i \in lost \/ \E q \in Processes : proc[q].op = i
        BY <4>1 DEF Owned, RunningHasAnOwner, Listed
      <4>3. QED BY <2>1, <2>2, <4>1, <4>2
    <3>3. QED BY <3>1, <3>2
  <2>7. QED BY <2>3, <2>4, <2>5, <2>6 DEF Owned, RunningHasAnOwner, Listed
<1>3. ASSUME NEW p \in Processes, Finish(p) PROVE Owned'
  <2>1. UNCHANGED lost /\ lost \subseteq DOMAIN rows
    BY <1>3 DEF Finish, TypeInv, Types
  <2>2. QED BY <1>0, <1>3, <2>1, FinishRow DEF Status, Owned, RunningHasAnOwner, Listed
<1>4. ASSUME NEW p \in Processes, Dies(p), proc[p].op # 0 PROVE Owned'
  <2>1. proc'[p].op = 0 /\ \A q \in Processes \ {p} : proc'[q] = proc[q]
    BY <1>4 DEF Dies, Idle, TypeInv, Types
  <2>2. rows' = rows /\ lost' = lost \cup {proc[p].op}
    BY <1>4 DEF Dies
  <2>3. QED BY <1>0, <1>4, <2>1, <2>2 DEF Owned, RunningHasAnOwner, Listed
<1>5. QED BY <1>1, <1>2, <1>3, <1>4, JournalStep

LEMMA OwnedInvariant == Spec => [](TypeInv /\ Owned)
<1>1. Init => Owned
  BY DEF Init, Idle, Owned, RunningHasAnOwner, Listed
<1>2. TypeInv /\ Owned /\ [Next]_vars => TypeInv' /\ Owned'
  BY TypeStep, OwnedStep
<1>3. QED BY <1>1, <1>2, InitType, PTL DEF Spec

\* No way out of a command leaves its row behind: a row that is listed as
\* running is being worked on, or its command died.
THEOREM RunningOwned == Spec => []RunningHasAnOwner
<1>1. Owned => RunningHasAnOwner
  BY DEF Owned
<1>2. QED BY <1>1, OwnedInvariant, PTL

-----------------------------------------------------------------------------
(* The journal.  Start, Finish and Dies are its three actions.              *)

\* The statuses after a row is opened, as the journal has them.
LEMMA OpenStep ==
  ASSUME TypeInv, NEW p \in Processes, Start(p)
  PROVE  J!Open
<1> DEFINE s == [id \in DOMAIN rows |-> rows[id].status]
<1> DEFINE t == [id \in DOMAIN rows' |-> rows'[id].status]
<1>1. rows \in Seq(Row) /\ DOMAIN rows = 1..Len(rows) /\ Len(rows) \in Nat
  BY DEF TypeInv, Types
<1> DEFINE Statuses == {"running", "completed", "failed"}
<1>2. \A id \in DOMAIN rows : rows[id].status \in Statuses
  <2>1. \A id \in DOMAIN rows : rows[id] \in Row
    BY <1>1
  <2>2. QED BY <2>1 DEF Row
<1>3. s \in Seq(Statuses) /\ Len(s) = Len(rows)
  BY <1>1, <1>2
<1>4. DOMAIN rows' = 1..(Len(rows) + 1)
  <2>1. DOMAIN rows' = DOMAIN rows \cup {Len(rows) + 1}
    BY StartRow
  <2> HIDE DEF s, t, Statuses
  <2>2. QED BY <1>1, <2>1
<1>5. t[Len(rows) + 1] = "running" /\ \A id \in 1..Len(rows) : t[id] = s[id]
  BY <1>1, <1>4, StartRow
<1>6. t = Append(s, "running")
  <2>1. /\ DOMAIN t = 1..(Len(rows) + 1)
        /\ t = [id \in DOMAIN t |-> t[id]]
    BY <1>4
  <2>2. /\ DOMAIN Append(s, "running") = 1..(Len(rows) + 1)
        /\ \A id \in 1..Len(rows) : Append(s, "running")[id] = s[id]
        /\ Append(s, "running")[Len(rows) + 1] = "running"
        /\ Append(s, "running") = [id \in DOMAIN Append(s, "running") |-> Append(s, "running")[id]]
    BY <1>1, <1>3
  <2> HIDE DEF s, t
  <2>3. QED BY <1>1, <1>5, <2>1, <2>2
<1>7. UNCHANGED lost
  BY DEF Start
<1>8. QED BY <1>6, <1>7 DEF J!Open

LEMMA JournalRefined ==
  ASSUME TypeInv, Owned, [Next]_vars
  PROVE  [J!Next]_<<[id \in DOMAIN rows |-> rows[id].status], lost>>
<1>0. \A q \in Processes : proc[q].op \in {0} \cup DOMAIN rows
  BY DEF TypeInv, Types
<1>1. CASE Quiet
  BY <1>1 DEF Quiet
<1>2. ASSUME NEW p \in Processes, Start(p) PROVE J!Next
  BY <1>2, OpenStep DEF J!Next
<1>3. ASSUME NEW p \in Processes, Finish(p) PROVE J!Next
  <2>1. PICK id \in DOMAIN rows : id = proc[p].op
    BY <1>3, FinishRow
  <2>2. id \notin lost /\ rows[id].status = "running"
    BY <1>3, <2>1, FinishRow DEF Owned
  <2>3. Status(proc[p].ok) \in J!Closed
    BY DEF Status, J!Closed
  <2>4. [i \in DOMAIN rows' |-> rows'[i].status]
          = [[i \in DOMAIN rows |-> rows[i].status] EXCEPT ![id] = Status(proc[p].ok)]
    BY <1>3, <2>1, FinishRow
  <2>5. UNCHANGED lost
    BY <1>3 DEF Finish
  <2>6. J!Close(id)
    BY <2>2, <2>3, <2>4, <2>5 DEF J!Close
  <2>7. QED BY <2>6 DEF J!Next
<1>4. ASSUME NEW p \in Processes, Dies(p), proc[p].op # 0 PROVE J!Next
  <2>1. proc[p].op \in DOMAIN rows \ lost /\ rows[proc[p].op].status = "running"
    BY <1>0, <1>4 DEF Owned
  <2>2. rows' = rows /\ lost' = lost \cup {proc[p].op}
    BY <1>4 DEF Dies
  <2>3. J!Lose(proc[p].op)
    BY <2>1, <2>2 DEF J!Lose
  <2>4. QED BY <2>1, <2>3 DEF J!Next
<1>5. QED BY <1>1, <1>2, <1>3, <1>4, JournalStep

\* The commands keep the journal's promise of safety: a row is opened as
\* running, closed at most once and by its own command, and given up only
\* when that command dies.
THEOREM JournalKept == Spec => J!Safety
<1>1. Init => J!Init
  <2> SUFFICES ASSUME Init PROVE J!Init
    OBVIOUS
  <2>1. rows = <<>> /\ lost = {}
    BY DEF Init
  <2>2. [id \in DOMAIN rows |-> rows[id].status] = <<>>
    BY <2>1
  <2>3. QED BY <2>1, <2>2 DEF J!Init
<1>2. TypeInv /\ Owned /\ [Next]_vars =>
        [J!Next]_<<[id \in DOMAIN rows |-> rows[id].status], lost>>
  BY JournalRefined
<1>3. QED BY <1>1, <1>2, OwnedInvariant, PTL DEF Spec, J!Safety

-----------------------------------------------------------------------------
(* The reports.                                                            *)

\* Where a command is with the plan and the event that it reports on.
Told ==
  /\ \A p \in Processes :
       /\ proc[p].at \in {"start", "inspect", "apply"} => ~proc[p].ok /\ ~proc[p].event
       /\ proc[p].op # 0 =>
            /\ proc[p].op \in applied <=> proc[p].ok /\ proc[p].kind = "apply"
            /\ proc[p].at \in {"inspect", "apply"} =>
                 \A i \in DOMAIN events : events[i].op # proc[p].op
            /\ proc[p].event => \E i \in DOMAIN events : events[i].op = proc[p].op
  /\ \A i \in DOMAIN events : events[i].op \in DOMAIN rows
  /\ ReportsAgree

\* A step of p that only moves it on: no row, no event and no plan is touched.
LEMMA ToldMoves ==
  ASSUME TypeInv, Owned, Told, NEW p \in Processes,
         UNCHANGED <<rows, applied, events>>,
         \A q \in Processes \ {p} :
           /\ proc'[q].at = proc[q].at /\ proc'[q].kind = proc[q].kind
           /\ proc'[q].op = proc[q].op /\ proc'[q].ok = proc[q].ok
           /\ proc'[q].event = proc[q].event,
         proc'[p].at \in {"start", "inspect", "apply"} => ~proc'[p].ok /\ ~proc'[p].event,
         proc'[p].op # 0 =>
           /\ proc'[p].op = proc[p].op
           /\ proc'[p].kind = proc[p].kind
           /\ proc[p].kind = "apply" => proc'[p].ok = proc[p].ok
           /\ proc'[p].event => proc[p].event
           /\ proc'[p].at \in {"inspect", "apply"} => proc[p].at \in {"inspect", "apply"}
  PROVE  Told'
BY DEF Told, ReportsAgree

LEMMA ToldStep ==
  ASSUME TypeInv, Owned, Told, [Next]_vars
  PROVE  Told'
<1>0. /\ \A q \in Processes : proc[q] \in Locals /\ Fits(proc[q])
      /\ \A q \in Processes : proc[q].op \in {0} \cup DOMAIN rows
      /\ proc \in [Processes -> Locals]
      /\ applied \subseteq DOMAIN rows
  BY DEF TypeInv, Types, LocalsFit
<1>1. CASE UNCHANGED vars
  BY <1>1 DEF vars, workspace, cloud, journal, Told, ReportsAgree
<1>2. ASSUME NEW p \in Processes, NEW c \in Locals, Begin(p, c), c.op = 0, ~c.ok, ~c.event,
             UNCHANGED <<cloud, journal>>
      PROVE  Told'
  <2>1. UNCHANGED <<rows, applied, events>>
    BY <1>2 DEF cloud, journal
  <2>2. /\ proc'[p].op = 0 /\ ~proc'[p].ok /\ ~proc'[p].event
        /\ \A q \in Processes \ {p} :
             /\ proc'[q].at = proc[q].at /\ proc'[q].kind = proc[q].kind
             /\ proc'[q].op = proc[q].op /\ proc'[q].ok = proc[q].ok
             /\ proc'[q].event = proc[q].event
    BY <1>0, <1>2 DEF Begin, Locals
  <2>3. QED BY <2>1, <2>2, ToldMoves
<1>3. ASSUME NEW p \in Processes, Render(p) \/ Plan(p) \/ Apply(p) PROVE Told'
  <2>1. UNCHANGED <<cloud, journal>>
    BY <1>3 DEF Render, Plan, Apply
  <2>2. \E c \in Locals : Begin(p, c) /\ c.op = 0 /\ ~c.ok /\ ~c.event
    BY <1>3, BeginsWith
  <2>3. QED BY <1>2, <2>1, <2>2
<1>4. ASSUME NEW p \in Processes, Step(p) PROVE Told'
  <2>0. \A q \in Processes \ {p} : proc'[q] = proc[q]
    BY <1>0, <1>4, NextLocals DEF TypeInv
  <2>1. CASE Start(p)
    <3>1. UNCHANGED <<applied, events>> /\ proc'[p].at = "inspect"
          /\ proc'[p].ok = proc[p].ok /\ proc'[p].event = proc[p].event /\ proc[p].at = "start"
      BY <1>0, <2>1 DEF Start, cloud, Locals
    <3> DEFINE id == Len(rows) + 1
    <3>2. /\ id \notin DOMAIN rows
          /\ DOMAIN rows' = DOMAIN rows \cup {id}
          /\ rows'[id].status = "running"
          /\ ~rows'[id].event
          /\ \A i \in DOMAIN rows : rows'[i] = rows[i]
          /\ proc'[p].op = id
      BY <2>1, StartRow
    <3> HIDE DEF id
    <3>3. ReportsAgree'
      BY <3>1, <3>2 DEF Told, ReportsAgree
    <3>4. \A q \in Processes :
            /\ proc'[q].at \in {"start", "inspect", "apply"} => ~proc'[q].ok /\ ~proc'[q].event
            /\ proc'[q].op # 0 =>
                 /\ proc'[q].op \in applied' <=> proc'[q].ok /\ proc'[q].kind = "apply"
                 /\ proc'[q].at \in {"inspect", "apply"} =>
                      \A i \in DOMAIN events' : events'[i].op # proc'[q].op
                 /\ proc'[q].event => \E i \in DOMAIN events' : events'[i].op = proc'[q].op
      BY <1>0, <2>0, <3>1, <3>2 DEF Told
    <3>5. QED BY <3>1, <3>2, <3>3, <3>4 DEF Told
  <2>2. CASE Unavailable(p)
    <3>1. UNCHANGED <<rows, applied, events>> /\ proc'[p] = [proc[p] EXCEPT !.at = "finish", !.ok = FALSE]
          /\ proc[p].at = "inspect"
      BY <1>0, <2>2 DEF Unavailable, Fails, Result, cloud, journal
    <3>2. QED BY <1>0, <2>0, <3>1, ToldMoves DEF Locals, Told
  <2>3. CASE NoSavedPlan(p)
    <3>1. UNCHANGED <<rows, applied, events>> /\ proc'[p] = [proc[p] EXCEPT !.at = "finish", !.ok = FALSE]
          /\ proc[p].at = "inspect"
      BY <1>0, <2>3 DEF NoSavedPlan, Fails, Result, cloud, journal
    <3>2. QED BY <1>0, <2>0, <3>1, ToldMoves DEF Locals, Told
  <2>4. CASE TofuFails(p)
    <3>1. UNCHANGED <<rows, applied, events>> /\ proc'[p] = [proc[p] EXCEPT !.at = "finish", !.ok = FALSE]
          /\ proc[p].at \in {"init", "plan"}
      BY <1>0, <2>4 DEF TofuFails, Fails, Result, cloud, journal
    <3>2. proc[p].kind # "apply"
      BY <1>0, <3>1 DEF Fits
    <3>3. QED BY <1>0, <2>0, <3>1, <3>2, ToldMoves DEF Locals
  <2>5. CASE TofuPlan(p)
    <3>1. UNCHANGED <<rows, applied, events>> /\ proc'[p] = [proc[p] EXCEPT !.at = "finish", !.ok = TRUE]
          /\ proc[p].at = "plan"
      BY <1>0, <2>5 DEF TofuPlan, Result, cloud, journal
    <3>2. proc[p].kind # "apply"
      BY <1>0, <3>1 DEF Fits
    <3>3. QED BY <1>0, <2>0, <3>1, <3>2, ToldMoves DEF Locals
  <2>6. CASE PlanRenders(p) \/ PlanReuses(p) \/ TofuInit(p)
    <3>1. UNCHANGED <<rows, applied, events>>
      BY <2>6 DEF PlanRenders, PlanReuses, TofuInit, cloud, journal
    <3>2. PICK a \in {"write", "init", "plan"} : proc'[p].at = a
      BY <1>0, <2>6 DEF PlanRenders, PlanReuses, TofuInit, Locals
    <3>3. proc'[p].op = proc[p].op /\ proc'[p].kind = proc[p].kind
          /\ proc'[p].ok = proc[p].ok /\ proc'[p].event = proc[p].event
      <4>1. CASE PlanRenders(p)
        BY <1>0, <4>1 DEF PlanRenders, Locals
      <4>2. CASE PlanReuses(p)
        BY <1>0, <4>2 DEF PlanReuses, Locals
      <4>3. CASE TofuInit(p)
        BY <1>0, <4>3 DEF TofuInit, Locals
      <4>4. QED BY <2>6, <4>1, <4>2, <4>3
    <3>4. QED BY <2>0, <3>1, <3>2, <3>3, ToldMoves
  <2>7. CASE ApplyBegins(p)
    <3>1. UNCHANGED <<rows, applied, events>> /\ proc'[p] = [proc[p] EXCEPT !.at = "apply"]
          /\ proc[p].at = "inspect"
      BY <1>0, <2>7 DEF ApplyBegins, cloud, journal
    <3>2. QED BY <1>0, <2>0, <3>1, ToldMoves DEF Locals, Told
  <2>8. CASE Write(p)
    <3>1. UNCHANGED <<rows, applied, events>> /\ proc[p].at = "write"
      BY <2>8 DEF Write, cloud, journal
    <3>2. \/ proc'[p] = Idle
          \/ proc'[p] = [proc[p] EXCEPT !.next = @ + 1]
          \/ proc'[p] = [proc[p] EXCEPT !.at = "init"]
      BY <1>0, <2>8 DEF Write
    <3>3. CASE proc'[p] = Idle
      BY <2>0, <3>1, <3>3, ToldMoves DEF Idle
    <3>4. CASE proc'[p] = [proc[p] EXCEPT !.next = @ + 1]
      BY <1>0, <2>0, <3>1, <3>4, ToldMoves DEF Locals
    <3>5. CASE proc'[p] = [proc[p] EXCEPT !.at = "init"]
      BY <1>0, <2>0, <3>1, <3>5, ToldMoves DEF Locals
    <3>6. QED BY <3>2, <3>3, <3>4, <3>5
  <2>9. CASE TofuApplyFails(p)
    <3>1. UNCHANGED <<rows, applied, events>> /\ proc[p].at = "apply"
      BY <2>9 DEF TofuApplyFails, cloud, journal
    <3>2. /\ proc'[p].at \in {"event", "finish"} /\ proc'[p].ok = FALSE
          /\ proc'[p].op = proc[p].op /\ proc'[p].kind = proc[p].kind
          /\ proc'[p].event = proc[p].event
      BY <1>0, <2>9 DEF TofuApplyFails, AfterApply, Locals
    <3>3. ~proc[p].ok
      BY <3>1 DEF Told
    <3>4. QED BY <1>0, <2>0, <3>1, <3>2, <3>3, ToldMoves DEF Locals
  <2>10. CASE TofuApply(p)
    <3>1. UNCHANGED <<rows, events>> /\ proc[p].at = "apply" /\ applied' = applied \cup {proc[p].op}
      BY <2>10 DEF TofuApply, journal
    <3>2. /\ proc'[p].at \in {"event", "finish"} /\ proc'[p].ok = TRUE
          /\ proc'[p].op = proc[p].op /\ proc'[p].kind = proc[p].kind
          /\ proc'[p].event = proc[p].event
      BY <1>0, <2>10 DEF TofuApply, AfterApply, Locals
    <3>3. proc[p].kind = "apply" /\ proc[p].op # 0 /\ proc[p].op \in DOMAIN rows
      BY <1>0, <3>1 DEF Fits, Locals, Kinds
    <3>4. /\ \A i \in DOMAIN events : events[i].op # proc[p].op
          /\ rows[proc[p].op].status = "running"
          /\ \A q \in Processes \ {p} : proc[q].op # proc[p].op
      BY <3>1, <3>3 DEF Told, Owned
    <3>5. ReportsAgree'
      BY <3>1, <3>4 DEF Told, ReportsAgree
    <3>6. QED BY <2>0, <3>1, <3>2, <3>3, <3>4, <3>5 DEF Told
  <2>11. CASE RecordEvent(p)
    <3>1. /\ UNCHANGED <<rows, applied>> /\ proc[p].at = "event"
          /\ events' = Append(events, [op |-> proc[p].op, ok |-> proc[p].ok])
      BY <2>11 DEF RecordEvent, cloud
    <3>2. /\ proc'[p].at = "finish" /\ proc'[p].ok = proc[p].ok
          /\ proc'[p].op = proc[p].op /\ proc'[p].kind = proc[p].kind
      BY <1>0, <2>11 DEF RecordEvent, Locals
    <3>3. proc[p].kind = "apply" /\ proc[p].op # 0 /\ proc[p].op \in DOMAIN rows
      BY <1>0, <3>1 DEF Fits, Locals, Kinds
    <3> DEFINE n == Len(events) + 1
    <3>4. /\ DOMAIN events' = DOMAIN events \cup {n}
          /\ \A i \in DOMAIN events : events'[i] = events[i]
          /\ events'[n] = [op |-> proc[p].op, ok |-> proc[p].ok]
          /\ n \notin DOMAIN events
      <4>1. events \in Seq([op : Nat, ok : BOOLEAN])
        BY DEF TypeInv, Types
      <4>2. [op |-> proc[p].op, ok |-> proc[p].ok] \in [op : Nat, ok : BOOLEAN]
        BY <1>0 DEF Locals
      <4>3. QED BY <3>1, <4>1, <4>2
    <3>5. events'[n].op = proc[p].op /\ events'[n].ok = proc[p].ok
      BY <3>4
    <3> HIDE DEF n
    <3>6. ReportsAgree'
      BY <3>1, <3>3, <3>4, <3>5 DEF Told, ReportsAgree
    <3>7. \A q \in Processes \ {p} : proc[q].op # proc[p].op
      BY <3>3 DEF Owned
    <3>8. QED BY <2>0, <3>1, <3>2, <3>3, <3>4, <3>5, <3>6, <3>7 DEF Told
  <2>12. CASE Finish(p)
    <3>1. UNCHANGED <<applied, events>> /\ proc'[p].at = "idle"
      BY <1>0, <2>12 DEF Finish, cloud, Idle
    <3>2. /\ rows[proc[p].op].kind = proc[p].kind
          /\ proc[p].op \in applied <=> proc[p].ok /\ proc[p].kind = "apply"
          /\ proc[p].event => \E i \in DOMAIN events : events[i].op = proc[p].op
      BY <2>12, FinishRow DEF Owned, Told
    <3>3. ReportsAgree'
      BY <2>12, <3>1, <3>2, FinishRow DEF Told, ReportsAgree, Status
    <3>4. QED BY <2>0, <2>12, <3>1, <3>3, FinishRow DEF Told
  <2>13. QED
    BY <1>4, <2>1, <2>2, <2>3, <2>4, <2>5, <2>6, <2>7, <2>8, <2>9, <2>10, <2>11, <2>12
    DEF Step
<1>5. ASSUME NEW p \in Processes, Dies(p) PROVE Told'
  <2>1. UNCHANGED <<rows, applied, events>>
    BY <1>5 DEF Dies, cloud
  <2>2. proc'[p] = Idle /\ \A q \in Processes \ {p} : proc'[q] = proc[q]
    BY <1>0, <1>5 DEF Dies
  <2>3. QED BY <2>1, <2>2, ToldMoves DEF Idle
<1>6. CASE RemovePlan
  BY <1>6 DEF RemovePlan, cloud, journal, Told, ReportsAgree
<1>7. QED BY <1>1, <1>3, <1>4, <1>5, <1>6 DEF Next

\* What an apply is reported to have done, in its row and in its event, is
\* what OpenTofu did.
THEOREM ReportsAgreed == Spec => []ReportsAgree
<1>1. Init => Told
  BY DEF Init, Idle, Told, ReportsAgree
<1>2. TypeInv /\ Owned /\ Told /\ [Next]_vars => Told'
  BY ToldStep
<1>3. Told => ReportsAgree
  BY DEF Told
<1>4. QED BY <1>1, <1>2, <1>3, OwnedInvariant, PTL DEF Spec

-----------------------------------------------------------------------------
(* A plan that renders.                                                    *)

\* What a command that has been alone since it began has put in the workspace.
Made(l) ==
  /\ l.at = "write" /\ l.next = 5 => files["terraform.tfvars.json"] = l.settings
  /\ l.at \in {"init", "plan"} => files["terraform.tfvars.json"] = l.settings
  /\ l.at = "finish" /\ l.ok /\ l.flag /\ plan # None => plan.settings = l.settings

AloneMakes ==
  \A p \in Processes : proc[p].alone =>
    /\ \A q \in Processes \ {p} : proc[q].at = "idle"
    /\ proc[p].fresh => Made(proc[p])

LEMMA MadeStep ==
  ASSUME TypeInv, NEW p \in Processes, Step(p), proc[p].fresh => Made(proc[p])
  PROVE  proc'[p].fresh => Made(proc[p])'
<1> SUFFICES ASSUME proc'[p].fresh PROVE Made(proc[p])'
  OBVIOUS
<1>0. /\ proc[p] \in Locals /\ Fits(proc[p])
      /\ proc \in [Processes -> Locals]
      /\ files \in [FileNames -> {None, Torn, "rendered"} \cup Settings]
  BY DEF TypeInv, Types, LocalsFit
<1>1. CASE Start(p)
  BY <1>0, <1>1 DEF Start, Locals, Made
<1>2. CASE Unavailable(p)
  BY <1>0, <1>2 DEF Unavailable, Fails, Result, Locals, Made
<1>3. CASE PlanRenders(p)
  BY <1>0, <1>3 DEF PlanRenders, Locals, Fits, Made
<1>4. CASE PlanReuses(p)
  <2>1. proc'[p].fresh = proc[p].fresh
    BY <1>0, <1>4 DEF PlanReuses, Locals
  <2>2. ~proc[p].fresh
    BY <1>0, <1>4 DEF PlanReuses, Fits
  <2>3. QED BY <2>1, <2>2
<1>5. CASE NoSavedPlan(p)
  BY <1>0, <1>5 DEF NoSavedPlan, Fails, Result, Locals, Made
<1>6. CASE ApplyBegins(p)
  BY <1>0, <1>6 DEF ApplyBegins, Locals, Made
<1>7. CASE Write(p)
  <2>1. CASE proc[p].next < 5
    <3>1. /\ proc'[p] = [proc[p] EXCEPT !.next = @ + 1] /\ proc[p].at = "write"
          /\ files' = [files EXCEPT ![Files[proc[p].next]] = Rendered(Files[proc[p].next], proc[p].settings)]
      BY <1>0, <1>7, <2>1, FilesFacts DEF Write
    <3>2. CASE proc[p].next = 4
      <4>1. files'["terraform.tfvars.json"] = proc[p].settings
        BY <1>0, <3>1, <3>2, FilesFacts DEF FileNames, Rendered
      <4>2. QED BY <1>0, <3>1, <4>1 DEF Locals, Made
    <3>3. CASE proc[p].next # 4
      <4>1. proc'[p].at = "write" /\ proc'[p].next # 5
        BY <1>0, <2>1, <3>1, <3>3 DEF Locals
      <4>2. QED BY <4>1 DEF Made
    <3>4. QED BY <3>2, <3>3
  <2>2. CASE ~(proc[p].next < 5) /\ proc[p].kind = "render"
    BY <1>0, <1>7, <2>2, FilesFacts DEF Write, Idle, Made
  <2>3. CASE ~(proc[p].next < 5) /\ proc[p].kind # "render"
    <3>1. /\ proc'[p] = [proc[p] EXCEPT !.at = "init"] /\ proc[p].at = "write"
          /\ files' = [files EXCEPT ![Files[proc[p].next]] = Rendered(Files[proc[p].next], proc[p].settings)]
      BY <1>0, <1>7, <2>3, FilesFacts DEF Write
    <3>2. proc[p].next = 5
      BY <1>0, <2>3 DEF Locals
    <3>3. files'["terraform.tfvars.json"] = files["terraform.tfvars.json"]
      BY <1>0, <3>1, <3>2, FilesFacts DEF FileNames
    <3>4. proc'[p].at = "init" /\ proc'[p].settings = proc[p].settings /\ proc[p].fresh
      BY <1>0, <3>1 DEF Locals
    <3>5. QED BY <3>1, <3>2, <3>3, <3>4 DEF Made
  <2>4. QED BY <2>1, <2>2, <2>3
<1>8. CASE TofuInit(p)
  <2>1. /\ proc'[p] = [proc[p] EXCEPT !.at = "plan"] /\ proc[p].at = "init"
        /\ files' = files
    BY <1>0, <1>8 DEF TofuInit, workspace
  <2>2. QED BY <1>0, <2>1 DEF Locals, Made
<1>9. CASE TofuFails(p)
  BY <1>0, <1>9 DEF TofuFails, Fails, Result, Locals, Made
<1>10. CASE TofuPlan(p)
  <2>1. /\ proc'[p] = [proc[p] EXCEPT !.at = "finish", !.ok = TRUE]
        /\ proc[p].at = "plan"
        /\ proc[p].flag => plan' = [settings |-> files["terraform.tfvars.json"], serial |-> serial]
    BY <1>0, <1>10 DEF TofuPlan, Result
  <2>2. proc'[p].at = "finish" /\ proc'[p].settings = proc[p].settings /\ proc[p].fresh
        /\ proc'[p].flag = proc[p].flag
    BY <1>0, <2>1 DEF Locals
  <2>3. QED BY <2>1, <2>2 DEF Made
<1>11. CASE TofuApply(p)
  BY <1>0, <1>11 DEF TofuApply, Fits, Locals, AfterApply
<1>12. CASE TofuApplyFails(p)
  BY <1>0, <1>12 DEF TofuApplyFails, Fits, Locals, AfterApply
<1>13. CASE RecordEvent(p)
  BY <1>0, <1>13 DEF RecordEvent, Fits, Locals
<1>14. CASE Finish(p)
  BY <1>0, <1>14 DEF Finish, Idle
<1>15. QED
  BY <1>1, <1>2, <1>3, <1>4, <1>5, <1>6, <1>7, <1>8, <1>9, <1>10, <1>11, <1>12,
     <1>13, <1>14 DEF Step

\* A step of p leaves whether p is alone, and is one of a command at work.
LEMMA StepAlone ==
  ASSUME TypeInv, NEW p \in Processes, Step(p)
  PROVE  /\ proc[p].at # "idle"
         /\ proc'[p].alone => proc[p].alone
<1>0. proc[p] \in Locals /\ proc \in [Processes -> Locals]
  BY DEF TypeInv, Types
<1>1. proc[p].at # "idle"
  BY DEF Step, Start, Unavailable, PlanRenders, PlanReuses, NoSavedPlan, ApplyBegins,
     Write, TofuInit, TofuFails, TofuPlan, TofuApply, TofuApplyFails, RecordEvent, Finish
<1>2. CASE Start(p) \/ PlanRenders(p)
  BY <1>0, <1>2 DEF Start, PlanRenders, Locals
<1>3. CASE Unavailable(p) \/ NoSavedPlan(p) \/ TofuFails(p)
  BY <1>0, <1>3 DEF Unavailable, NoSavedPlan, TofuFails, Fails, Result, Locals
<1>4. CASE PlanReuses(p) \/ ApplyBegins(p)
  BY <1>0, <1>4 DEF PlanReuses, ApplyBegins, Locals
<1>5. CASE Write(p) \/ Finish(p)
  BY <1>0, <1>5 DEF Write, Finish, Idle, Locals
<1>6. CASE TofuInit(p) \/ TofuPlan(p)
  BY <1>0, <1>6 DEF TofuInit, TofuPlan, Result, Locals
<1>7. CASE TofuApply(p) \/ TofuApplyFails(p)
  BY <1>0, <1>7 DEF TofuApply, TofuApplyFails, AfterApply, Locals
<1>8. CASE RecordEvent(p)
  BY <1>0, <1>8 DEF RecordEvent, Locals
<1>9. QED BY <1>1, <1>2, <1>3, <1>4, <1>5, <1>6, <1>7, <1>8 DEF Step

LEMMA AloneMakesStep ==
  ASSUME TypeInv, AloneMakes, [Next]_vars
  PROVE  AloneMakes'
<1>0. proc \in [Processes -> Locals]
  BY DEF TypeInv, Types
<1>1. CASE UNCHANGED vars
  BY <1>1 DEF vars, workspace, AloneMakes, Made
<1>2. ASSUME NEW p \in Processes, Render(p) \/ Plan(p) \/ Apply(p) PROVE AloneMakes'
  <2>1. PICK c \in Locals : Begin(p, c) /\ ~c.fresh
    BY <1>2, BeginsWith
  <2>2. \A q \in Processes \ {p} : ~proc'[q].alone /\ proc'[q].at = proc[q].at
    BY <1>0, <2>1 DEF Begin, Locals
  <2>3. ~proc'[p].fresh /\ proc'[p].alone = Alone(p)
    BY <1>0, <2>1 DEF Begin, Locals
  <2>4. QED BY <2>2, <2>3 DEF AloneMakes, Alone
<1>3. ASSUME NEW p \in Processes, Step(p) PROVE AloneMakes'
  <2>1. \A q \in Processes \ {p} : proc'[q] = proc[q] /\ ~proc[q].alone
    BY <1>0, <1>3, NextLocals, StepAlone DEF AloneMakes
  <2>2. proc'[p].alone =>
          /\ \A q \in Processes \ {p} : proc'[q].at = "idle"
          /\ proc'[p].fresh => Made(proc[p])'
    BY <1>3, <2>1, StepAlone, MadeStep DEF AloneMakes
  <2>3. QED BY <2>1, <2>2 DEF AloneMakes
<1>4. ASSUME NEW p \in Processes, Dies(p) PROVE AloneMakes'
  <2>1. proc'[p] = Idle /\ proc[p].at # "idle" /\ \A q \in Processes \ {p} : proc'[q] = proc[q]
    BY <1>0, <1>4 DEF Dies
  <2>2. QED BY <2>1 DEF AloneMakes, Idle
<1>5. CASE RemovePlan
  BY <1>5 DEF RemovePlan, AloneMakes, Made
<1>6. QED BY <1>1, <1>2, <1>3, <1>4, <1>5 DEF Next

\* A plan that rendered the workspace and was alone in it has planned what its
\* own options ask for.
THEOREM FreshPlanAsAsked == Spec => []FreshPlanIsAsAsked
<1>1. Init => AloneMakes
  BY DEF Init, Idle, AloneMakes
<1>2. TypeInv /\ AloneMakes /\ [Next]_vars => AloneMakes'
  BY AloneMakesStep
<1>3. AloneMakes => FreshPlanIsAsAsked
  BY DEF AloneMakes, Made, FreshPlanIsAsAsked
<1>4. QED BY <1>1, <1>2, <1>3, TypeInvariant, PTL DEF Spec
=============================================================================
