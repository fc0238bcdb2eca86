------------------------------ MODULE MCOutputs ------------------------------
(* Three tasks, so that one can hold the mutex while a second declares the  *)
(* emergency and a third forces the output off, and a lease of three ticks  *)
(* (1500 ms over the 500 ms loop).  The outputs share nothing but the mutex *)
(* and their tasks, so that a behaviour drives one of them, and the other   *)
(* stays as initialize() has left it.                                      *)
EXTENDS HeaterOutput, PumpOutput, TLC

CONSTANTS temperature, workflow, api

MCTasks == {temperature, workflow, api}
MCLease == 3

VARIABLE driven

Heats == driven = "heater" /\ UNCHANGED <<pumpOutput, driven>>
Pumps == driven = "pump" /\ UNCHANGED <<output, driven>>

MCInit == Init /\ PumpInit /\ driven \in {"heater", "pump"}
MCNext == (Heats /\ Next) \/ (Pumps /\ PumpNext)
MCVars == <<vars, pumpOutput, driven>>
MCSpec ==
  MCInit /\ [][MCNext]_MCVars /\ WF_MCVars(Heats /\ Tick) /\ WF_MCVars(Heats /\ Trip)
==============================================================================
