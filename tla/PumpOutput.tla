----------------------------- MODULE PumpOutput -----------------------------
(***************************************************************************)
(* The pump's relay output: FailOffPump (peripherals.cpp), driven by the    *)
(* same tasks and the same mutex as the heater's (HeaterOutput), but with   *)
(* no hardware lease behind it: what is known of the pin is all there is.   *)
(*                                                                         *)
(* A critical section is one step.  set_running(true) reads its flags       *)
(* before it enters its own.  A GPIO call that returns an error has changed *)
(* nothing.                                                                *)
(***************************************************************************)
EXTENDS WorkflowMutex

VARIABLES
  pumpPin,       \* the relay's level: TRUE runs the pump
  command,       \* command_
  unknown,       \* output_state_unknown_
  pumpInhibited  \* emergency_inhibited_

pumpOutput == <<pumpPin, command, unknown, pumpInhibited>>
pumpVars == <<pumpOutput, mutex, pc>>

PumpLocked == {"locked", "check", "run", "refuse"}

PumpFlagsOK == pumpPin \in BOOLEAN /\ unknown \in BOOLEAN /\ pumpInhibited \in BOOLEAN

PumpCallsOK ==
  /\ command \in {"off", "running"}
  /\ mutex \in Tasks \cup {NoTask}
  /\ pc \in [Tasks -> PumpLocked \cup Waiting]

PumpTypeOK == PumpFlagsOK /\ PumpCallsOK

(* What a successful initialize() leaves.                                  *)
PumpInit ==
  /\ pumpPin = FALSE /\ command = "off" /\ unknown = FALSE /\ pumpInhibited = FALSE
  /\ Idle

(* Mutant of WriteOff: a refused write is taken for done.                   *)
WriteOffBlindly ==
  command' = "off" /\ unknown' = FALSE /\ (pumpPin' = FALSE \/ UNCHANGED pumpPin)

(* write_command(kOff) and the record every caller keeps of its outcome.    *)
WriteOff ==
  \/ pumpPin' = FALSE /\ command' = "off" /\ unknown' = FALSE
  \/ unknown' = TRUE /\ UNCHANGED <<pumpPin, command>>

-----------------------------------------------------------------------------
(* set_running(true): refused while inhibited or while the pin is unknown.  *)
BeginRun(t) ==
  /\ pc[t] = "locked"
  /\ Goto(t, "check")
  /\ UNCHANGED <<pumpOutput, mutex>>

CheckRun(t) ==
  /\ pc[t] = "check"
  /\ Goto(t, IF pumpInhibited \/ unknown THEN "refuse" ELSE "run")
  /\ UNCHANGED <<pumpOutput, mutex>>

(* Mutant of Run: the critical section does not check again.                *)
RunUnchecked(t) ==
  /\ pc[t] = "run"
  /\ pumpPin' = TRUE /\ command' = "running" /\ unknown' = FALSE
  /\ Goto(t, "locked")
  /\ UNCHANGED <<pumpInhibited, mutex>>

(* Its critical section: an emergency declared since the check wins; a      *)
(* refused high level falls back to off.                                   *)
Run(t) ==
  /\ pc[t] = "run"
  /\ \/ ~pumpInhibited /\ pumpPin' = TRUE /\ command' = "running" /\ unknown' = FALSE
     \/ WriteOff
  /\ Goto(t, "locked")
  /\ UNCHANGED <<pumpInhibited, mutex>>

RefuseRun(t) ==
  /\ pc[t] = "refuse"
  /\ WriteOff
  /\ Goto(t, "locked")
  /\ UNCHANGED <<pumpInhibited, mutex>>

(* set_running(false) and force_off by the holder; force_off by a loop that *)
(* has just missed the mutex and called emergency_off.                     *)
Stop(t) ==
  /\ pc[t] \in {"locked", "emergency"}
  /\ WriteOff
  /\ Goto(t, IF pc[t] = "locked" THEN "locked" ELSE "idle")
  /\ UNCHANGED <<pumpInhibited, mutex>>

PumpEmergencyOff(t) ==
  /\ pc[t] = "missed"
  /\ pumpInhibited' = TRUE
  /\ WriteOff
  /\ Goto(t, "emergency")
  /\ UNCHANGED mutex

PumpReset ==
  /\ pumpPin' = FALSE /\ command' = "off" /\ unknown' = FALSE /\ pumpInhibited' = FALSE
  /\ Freed

PumpNext ==
  \/ \E t \in Tasks :
       \/ Waits(t) /\ UNCHANGED pumpOutput
       \/ BeginRun(t) \/ CheckRun(t) \/ Run(t) \/ RefuseRun(t) \/ Stop(t)
       \/ PumpEmergencyOff(t)
  \/ PumpReset

PumpSpec == PumpInit /\ [][PumpNext]_pumpVars

-----------------------------------------------------------------------------
(* Unless the firmware says it does not know, command() is what the pin     *)
(* does: the temperature loop reads it to choose its control, and the       *)
(* extraction and cooldown controllers to confirm a stop.                   *)
CommandMatchesPin == unknown \/ (command = "running" <=> pumpPin)

(* The pump starts only from a pin known to be off, and never once a task   *)
(* has declared the emergency, even if the call had already passed its      *)
(* checks; only a reset lifts the emergency.                                *)
NoBlindStart ==
  [][/\ ~pumpPin /\ pumpPin' => ~unknown /\ ~pumpInhibited
     /\ pumpInhibited /\ ~pumpInhibited' => ~pumpPin' /\ mutex' = NoTask]_pumpVars

=============================================================================
