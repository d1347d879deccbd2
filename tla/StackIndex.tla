----------------------------- MODULE StackIndex -----------------------------
(* What the state database promises of its stack rows: it is an index of   *)
(* the sites root, never an authority.  A row can only say what the sites  *)
(* root held at or after the row's own time stamp, rows are written one    *)
(* host at a time, and they are forgotten all together or not at all.      *)
(* StateCache implements this module.                                      *)
EXTENDS Naturals

CONSTANTS Hosts,       \* hostnames that may have a directory in the sites root
          Contents,    \* what a stack directory may hold
          Absent,      \* no directory
          MaxTime      \* bound on the clock, in ticks of one second

VARIABLES clock,       \* wall clock, in seconds
          disk,        \* disk[h]: what the sites root holds for h
          heldUntil,   \* heldUntil[h][c]: 1 + the last time c was replaced
                       \* as the content of h, and 0 when it never was
          index        \* index[h]: what the database says of h

vars == <<clock, disk, heldUntil, index>>

NoRow == [content |-> Absent, updated |-> 0]

Rows == [content : Contents, updated : 0..MaxTime]

\* The sites root held c for host h at time t or at some time after it.
HeldSince(h, c, t) == disk[h] = c \/ heldUntil[h][c] > t

Init ==
  /\ clock = 0
  /\ disk \in [Hosts -> Contents \cup {Absent}]
  /\ heldUntil = [h \in Hosts |-> [c \in Contents |-> 0]]
  /\ index = [h \in Hosts |-> NoRow]

Tick ==
  /\ clock < MaxTime
  /\ clock' = clock + 1
  /\ UNCHANGED <<disk, heldUntil, index>>

\* The operator, or another command, edits the directory of any hosts.
Evolve ==
  /\ disk' \in [Hosts -> Contents \cup {Absent}]
  /\ heldUntil' = [h \in Hosts |->
                     [c \in Contents |-> IF disk[h] = c /\ disk'[h] # c
                                         THEN clock + 1 ELSE heldUntil[h][c]]]
  /\ UNCHANGED <<clock, index>>

\* One host is recorded with a content it really had since the stamp.
Record(h) ==
  \E row \in Rows :
    /\ row.updated <= clock
    /\ HeldSince(h, row.content, row.updated)
    /\ index' = [index EXCEPT ![h] = row]
    /\ UNCHANGED <<clock, disk, heldUntil>>

Forget ==
  /\ index' = [h \in Hosts |-> NoRow]
  /\ UNCHANGED <<clock, disk, heldUntil>>

Next == Tick \/ Evolve \/ Forget \/ \E h \in Hosts : Record(h)

Spec == Init /\ [][Next]_vars
=============================================================================
