--------------------------- MODULE WorkflowMutex ---------------------------
(***************************************************************************)
(* The one workflow mutex (app_main.cpp), and where each task stands in the *)
(* call that it makes of an output: a task that gets the mutex within 50 ms *)
(* calls an output's methods and gives it back; one that does not misses    *)
(* it, declares the emergency without it, and may force the output off.     *)
(***************************************************************************)
CONSTANTS
  Tasks,   \* tasks that call an output
  NoTask   \* the mutex is free

ASSUME NoTaskAssumption == NoTask \notin Tasks

VARIABLES
  mutex,   \* the task that holds the workflow mutex
  pc       \* where each task stands in its call

Waiting == {"idle", "missed", "emergency"}

Idle == mutex = NoTask /\ pc = [t \in Tasks |-> "idle"]

Freed == mutex' = NoTask /\ pc' = [t \in Tasks |-> "idle"]

Goto(t, l) == pc' = [pc EXCEPT ![t] = l]

Lock(t) ==
  /\ pc[t] = "idle" /\ mutex = NoTask
  /\ mutex' = t
  /\ Goto(t, "locked")

Unlock(t) ==
  /\ pc[t] = "locked"
  /\ mutex' = NoTask
  /\ Goto(t, "idle")

(* The bounded wait fails: another task has held the mutex for 50 ms.      *)
MissDeadline(t) ==
  /\ pc[t] = "idle" /\ mutex \notin {NoTask, t}
  /\ Goto(t, "missed")
  /\ UNCHANGED mutex

(* The API and the scale task return after their emergency_off.            *)
LeaveEmergency(t) ==
  /\ pc[t] = "emergency"
  /\ Goto(t, "idle")
  /\ UNCHANGED mutex

(* A task between two calls, or without one. *)
Waits(t) == Lock(t) \/ Unlock(t) \/ MissDeadline(t) \/ LeaveEmergency(t)

=============================================================================
