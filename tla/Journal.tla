------------------------------- MODULE Journal -------------------------------
(* What the table of operations promises: a row is opened as running and is *)
(* closed at most once, by the command that opened it; a row is given up    *)
(* only when that command dies, and every other one is closed.              *)
EXTENDS Naturals, Sequences

CONSTANT MaxRows  \* bound on the rows that are promised to be closed

VARIABLES
  status,  \* the status of every row, by id
  lost     \* rows whose command died before it closed them

Closed == {"completed", "failed"}

Init ==
  /\ status = <<>>
  /\ lost = {}

\* create_operation: the next id, running.
Open ==
  /\ status' = Append(status, "running")
  /\ UNCHANGED lost

\* finish_operation and fail_operation.
Close(id) ==
  /\ id \in DOMAIN status \ lost
  /\ status[id] = "running"
  /\ \E s \in Closed : status' = [status EXCEPT ![id] = s]
  /\ UNCHANGED lost

\* The command is killed, or an exception ends it.
Lose(id) ==
  /\ id \in DOMAIN status \ lost
  /\ status[id] = "running"
  /\ lost' = lost \cup {id}
  /\ UNCHANGED status

Next ==
  \/ Open
  \/ \E id \in DOMAIN status : Close(id) \/ Lose(id)

Safety == Init /\ [][Next]_<<status, lost>>

Spec ==
  /\ Safety
  /\ \A id \in 1..MaxRows : WF_<<status, lost>>(Close(id) \/ Lose(id))
=============================================================================
