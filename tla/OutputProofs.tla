---------------------------- MODULE OutputProofs ----------------------------
(***************************************************************************)
(* For every set of tasks and every lease: HighIsLeased, ReportedHeatIsReal *)
(* and CutoffIsFinal hold of HeaterOutput, CommandMatchesPin and            *)
(* NoBlindStart of PumpOutput.                                              *)
(*                                                                         *)
(* The heater: only the holder of the mutex arms and only it can disarm     *)
(* while the output is not inhibited (Ownership); so between SetAlarm and   *)
(* Raise the alarm is still pending, or it has tripped, or an emergency was *)
(* declared (LeaseBeforeRaise), and in the last two cases Raise refuses.    *)
(*                                                                         *)
(* The pump: a task past its check (StartIsChecked) holds the mutex, so     *)
(* that only an emergency can have made the pin unknown since.              *)
(***************************************************************************)
EXTENDS HeaterOutput, PumpOutput, TLAPS

Ownership == \A t \in Tasks : pc[t] \in Locked => mutex = t

EmergencyInhibits == \A t \in Tasks : pc[t] = "emergency" => inhibited

LeaseBeforeRaise ==
  \A t \in Tasks : pc[t] \in {"recheck", "raise"} => armed \/ Cutoff

AlarmIsNear == armed => left + age <= Lease

HeaterInv ==
  /\ CallsOK
  /\ Ownership
  /\ EmergencyInhibits
  /\ LeaseBeforeRaise
  /\ AlarmIsNear
  /\ HighIsLeased
  /\ ReportedHeatIsReal

(* The flags are Boolean at boot and after every step.                      *)
LEMMA HeaterFlagsInvariant == Spec => []FlagsOK
  <1>1. Init => FlagsOK
    BY Zenon DEF Init, FlagsOK
  <1>2. FlagsOK /\ [Next]_vars => FlagsOK'
    BY Zenon DEF FlagsOK, Next, vars, output, BeginEnable, CheckEnable, ReadCount,
       SetAlarm, RecheckAfterArm, Raise, Refuse, BeginDisable, CheckDisable, Lower,
       ForceOff, EmergencyOff, TryLower, LowerThenDisarm, Trip, Tick, Reset
  <1>3. QED
    BY <1>1, <1>2, PTL DEF Spec

(* At boot the output is off and no task is in a call.                     *)
LEMMA HeaterInitInv == Init => HeaterInv
  BY LeaseAssumption DEF Init, HeaterInv, CallsOK, Ownership, EmergencyInhibits,
     LeaseBeforeRaise, AlarmIsNear, HighIsLeased, ReportedHeatIsReal,
     Locked, Waiting, Idle, Cutoff

(* Every step of every task, of the timer and of the board keeps it.        *)
LEMMA HeaterNextInv == HeaterInv /\ [Next]_vars => HeaterInv'
  <1> SUFFICES ASSUME HeaterInv, [Next]_vars PROVE HeaterInv'
    OBVIOUS
  <1> USE LeaseAssumption, NoTaskAssumption
      DEF HeaterInv, CallsOK, Ownership, EmergencyInhibits, LeaseBeforeRaise,
          AlarmIsNear, HighIsLeased, ReportedHeatIsReal, Goto, Cutoff,
          Locked, Waiting, Freed, output
  <1>1. ASSUME NEW t \in Tasks, Lock(t) \/ Unlock(t), UNCHANGED output PROVE HeaterInv'
    BY <1>1 DEF Lock, Unlock
  <1>2. ASSUME NEW t \in Tasks, MissDeadline(t) \/ LeaveEmergency(t), UNCHANGED output
        PROVE  HeaterInv'
    BY <1>2 DEF MissDeadline, LeaveEmergency
  <1>3. ASSUME NEW t \in Tasks, Waits(t), UNCHANGED output PROVE HeaterInv'
    BY <1>1, <1>2, <1>3 DEF Waits
  <1>4. ASSUME NEW t \in Tasks, BeginEnable(t) PROVE HeaterInv'
    BY <1>4 DEF BeginEnable
  <1>5. ASSUME NEW t \in Tasks, CheckEnable(t) PROVE HeaterInv'
    BY <1>5 DEF CheckEnable
  <1>6. ASSUME NEW t \in Tasks, ReadCount(t) PROVE HeaterInv'
    BY <1>6 DEF ReadCount
  <1>7. ASSUME NEW t \in Tasks, SetAlarm(t) PROVE HeaterInv'
    BY <1>7 DEF SetAlarm
  <1>8. ASSUME NEW t \in Tasks, RecheckAfterArm(t) PROVE HeaterInv'
    BY <1>8 DEF RecheckAfterArm
  <1>9. ASSUME NEW t \in Tasks, Raise(t) PROVE HeaterInv'
    BY <1>9 DEF Raise, LowerThenDisarm, TryLower
  <1>10. ASSUME NEW t \in Tasks, Refuse(t) PROVE HeaterInv'
    BY <1>10 DEF Refuse, TryLower
  <1>11. ASSUME NEW t \in Tasks, BeginDisable(t) PROVE HeaterInv'
    BY <1>11 DEF BeginDisable
  <1>12. ASSUME NEW t \in Tasks, CheckDisable(t) PROVE HeaterInv'
    BY <1>12 DEF CheckDisable
  <1>13. ASSUME NEW t \in Tasks, Lower(t) PROVE HeaterInv'
    BY <1>13 DEF Lower, LowerThenDisarm
  <1>14. ASSUME NEW t \in Tasks, ForceOff(t) PROVE HeaterInv'
    BY <1>14 DEF ForceOff, LowerThenDisarm, TryLower
  <1>15. ASSUME NEW t \in Tasks, EmergencyOff(t) PROVE HeaterInv'
    BY <1>15 DEF EmergencyOff, TryLower
  <1>16. CASE Trip
    BY <1>16 DEF Trip
  <1>17. CASE Tick
    BY <1>17 DEF Tick
  <1>18. CASE Reset
    BY <1>18 DEF Reset
  <1>19. CASE UNCHANGED vars
    BY <1>19 DEF vars
  <1>20. QED
    BY <1>3, <1>4, <1>5, <1>6, <1>7, <1>8, <1>9, <1>10, <1>11,
       <1>12, <1>13, <1>14, <1>15, <1>16, <1>17, <1>18, <1>19 DEF Next

(* In every reachable state the invariant holds.                            *)
THEOREM HeaterSpecInv == Spec => []HeaterInv
  BY HeaterInitInv, HeaterNextInv, PTL DEF Spec

(* Every variable of the output keeps its type.                             *)
THEOREM HeaterTypeCorrect == Spec => []TypeOK
  <1>1. HeaterInv /\ FlagsOK => TypeOK
    BY DEF HeaterInv, TypeOK
  <1>2. QED
    BY <1>1, HeaterSpecInv, HeaterFlagsInvariant, PTL

(* A heating pin always has an alarm pending within a lease of the raw      *)
(* count it was armed from.                                                 *)
THEOREM HeatIsLeased == Spec => []HighIsLeased
  <1>1. HeaterInv => HighIsLeased
    BY DEF HeaterInv
  <1>2. QED
    BY <1>1, HeaterSpecInv, PTL

(* is_enabled() is never true of a pin that is low.                         *)
THEOREM ReportIsReal == Spec => []ReportedHeatIsReal
  <1>1. HeaterInv => ReportedHeatIsReal
    BY DEF HeaterInv
  <1>2. QED
    BY <1>1, HeaterSpecInv, PTL

(* No step raises the pin after a cutoff, and only a reset undoes a cutoff. *)
LEMMA NextKeepsCutoff ==
  ASSUME HeaterInv, [Next]_vars
  PROVE  /\ Cutoff /\ ~pin => ~pin'
         /\ Cutoff /\ ~Cutoff' => ~pin' /\ mutex' = NoTask
  <1> USE DEF HeaterInv, CallsOK, Cutoff, TryLower, LowerThenDisarm, output
  <1> DEFINE P == /\ Cutoff /\ ~pin => ~pin'
                  /\ Cutoff /\ ~Cutoff' => ~pin' /\ mutex' = NoTask
  <1>1. ASSUME UNCHANGED output PROVE P
    BY <1>1
  <1>2. ASSUME NEW t \in Tasks,
               \/ BeginEnable(t) \/ CheckEnable(t) \/ ReadCount(t)
               \/ SetAlarm(t) \/ RecheckAfterArm(t) \/ Refuse(t)
        PROVE P
    BY <1>2 DEF BeginEnable, CheckEnable, ReadCount, SetAlarm,
                RecheckAfterArm, Refuse
  <1>3. ASSUME NEW t \in Tasks, Raise(t) PROVE P
    BY <1>3 DEF Raise
  <1>4. ASSUME NEW t \in Tasks,
               BeginDisable(t) \/ CheckDisable(t) \/ Lower(t) \/ ForceOff(t)
        PROVE P
    BY <1>4 DEF BeginDisable, CheckDisable, Lower, ForceOff
  <1>5. ASSUME NEW t \in Tasks, EmergencyOff(t) PROVE P
    <2>1. ~pin => ~pin'
      BY <1>5 DEF EmergencyOff
    <2>2. Cutoff'
      BY <1>5 DEF EmergencyOff
    <2>3. QED
      BY <2>1, <2>2
  <1>6. CASE Trip \/ Tick \/ Reset
    BY <1>6 DEF Trip, Tick, Reset, Freed
  <1>7. CASE UNCHANGED vars
    BY <1>7 DEF vars
  <1>8. QED
    BY <1>1, <1>2, <1>3, <1>4, <1>5, <1>6, <1>7 DEF Next

(* A tripped lease and a declared emergency are final until a reset.        *)
THEOREM CutoffHolds == Spec => CutoffIsFinal
  <1>1. HeaterInv /\ [Next]_vars
          => [/\ Cutoff /\ ~pin => ~pin'
              /\ Cutoff /\ ~Cutoff' => ~pin' /\ mutex' = NoTask]_vars
    BY NextKeepsCutoff
  <1>2. QED
    BY <1>1, HeaterSpecInv, PTL DEF Spec, CutoffIsFinal

-----------------------------------------------------------------------------
(* The pump. *)
PumpOwnership == \A t \in Tasks : pc[t] \in PumpLocked => mutex = t

PumpEmergencyInhibits == \A t \in Tasks : pc[t] = "emergency" => pumpInhibited

StartIsChecked == \A t \in Tasks : pc[t] = "run" => ~unknown \/ pumpInhibited

PumpInv ==
  /\ PumpCallsOK
  /\ PumpOwnership
  /\ PumpEmergencyInhibits
  /\ StartIsChecked
  /\ CommandMatchesPin

(* The flags are Boolean at boot and after every step.                      *)
LEMMA PumpFlagsInvariant == PumpSpec => []PumpFlagsOK
  <1>1. PumpInit => PumpFlagsOK
    BY Zenon DEF PumpInit, PumpFlagsOK
  <1>2. PumpFlagsOK /\ [PumpNext]_pumpVars => PumpFlagsOK'
    BY Zenon DEF PumpFlagsOK, PumpNext, pumpVars, pumpOutput, BeginRun, CheckRun, Run,
       RefuseRun, Stop, PumpEmergencyOff, WriteOff, PumpReset
  <1>3. QED
    BY <1>1, <1>2, PTL DEF PumpSpec

(* At boot the pump is off and known to be.                                *)
LEMMA PumpInitInv == PumpInit => PumpInv
  BY DEF PumpInit, PumpInv, PumpCallsOK, PumpOwnership, PumpEmergencyInhibits, StartIsChecked,
     CommandMatchesPin, PumpLocked, Waiting, Idle

(* Every step of every task and a reset keep it.                            *)
LEMMA PumpNextInv == PumpInv /\ [PumpNext]_pumpVars => PumpInv'
  <1> SUFFICES ASSUME PumpInv, [PumpNext]_pumpVars PROVE PumpInv'
    OBVIOUS
  <1> USE NoTaskAssumption
      DEF PumpInv, PumpCallsOK, PumpOwnership, PumpEmergencyInhibits, StartIsChecked,
          CommandMatchesPin, Goto, PumpLocked, Waiting, Freed, pumpOutput
  <1>1. ASSUME NEW t \in Tasks, Lock(t) \/ Unlock(t), UNCHANGED pumpOutput PROVE PumpInv'
    BY <1>1 DEF Lock, Unlock
  <1>2. ASSUME NEW t \in Tasks, MissDeadline(t) \/ LeaveEmergency(t), UNCHANGED pumpOutput
        PROVE  PumpInv'
    BY <1>2 DEF MissDeadline, LeaveEmergency
  <1>3. ASSUME NEW t \in Tasks, Waits(t), UNCHANGED pumpOutput PROVE PumpInv'
    BY <1>1, <1>2, <1>3 DEF Waits
  <1>4. ASSUME NEW t \in Tasks, BeginRun(t) PROVE PumpInv'
    BY <1>4 DEF BeginRun
  <1>5. ASSUME NEW t \in Tasks, CheckRun(t) PROVE PumpInv'
    BY <1>5 DEF CheckRun
  <1>6. ASSUME NEW t \in Tasks, Run(t) PROVE PumpInv'
    BY <1>6 DEF Run, WriteOff
  <1>7. ASSUME NEW t \in Tasks, RefuseRun(t) PROVE PumpInv'
    BY <1>7 DEF RefuseRun, WriteOff
  <1>8. ASSUME NEW t \in Tasks, Stop(t) PROVE PumpInv'
    BY <1>8 DEF Stop, WriteOff
  <1>9. ASSUME NEW t \in Tasks, PumpEmergencyOff(t) PROVE PumpInv'
    BY <1>9 DEF PumpEmergencyOff, WriteOff
  <1>10. CASE PumpReset
    BY <1>10 DEF PumpReset
  <1>11. CASE UNCHANGED pumpVars
    BY <1>11 DEF pumpVars
  <1>12. QED
    BY <1>3, <1>4, <1>5, <1>6, <1>7, <1>8, <1>9, <1>10, <1>11 DEF PumpNext

(* In every reachable state the invariant holds.                            *)
THEOREM PumpSpecInv == PumpSpec => []PumpInv
  BY PumpInitInv, PumpNextInv, PTL DEF PumpSpec

(* Every variable of the output keeps its type.                             *)
THEOREM PumpTypeCorrect == PumpSpec => []PumpTypeOK
  <1>1. PumpInv /\ PumpFlagsOK => PumpTypeOK
    BY DEF PumpInv, PumpTypeOK
  <1>2. QED
    BY <1>1, PumpSpecInv, PumpFlagsInvariant, PTL

(* command() is what the pin does, or is known not to be.                   *)
THEOREM CommandIsReal == PumpSpec => []CommandMatchesPin
  <1>1. PumpInv => CommandMatchesPin
    BY DEF PumpInv
  <1>2. QED
    BY <1>1, PumpSpecInv, PTL

(* A start needs a known pin and no emergency, whatever happened since the  *)
(* caller checked.                                                         *)
LEMMA NextStartsKnown ==
  ASSUME PumpInv, [PumpNext]_pumpVars
  PROVE  /\ ~pumpPin /\ pumpPin' => ~unknown /\ ~pumpInhibited
         /\ pumpInhibited /\ ~pumpInhibited' => ~pumpPin' /\ mutex' = NoTask
  <1> USE DEF PumpInv, StartIsChecked, pumpOutput
  <1> DEFINE P == /\ ~pumpPin /\ pumpPin' => ~unknown /\ ~pumpInhibited
                  /\ pumpInhibited /\ ~pumpInhibited' => ~pumpPin' /\ mutex' = NoTask
  <1>1. ASSUME UNCHANGED pumpOutput PROVE P
    BY <1>1
  <1>2. ASSUME NEW t \in Tasks, Run(t) PROVE P
    BY <1>2 DEF Run, WriteOff
  <1>3. ASSUME NEW t \in Tasks, RefuseRun(t) \/ Stop(t) \/ PumpEmergencyOff(t)
        PROVE P
    BY <1>3 DEF RefuseRun, Stop, PumpEmergencyOff, WriteOff
  <1>4. CASE PumpReset
    BY <1>4 DEF PumpReset, Freed
  <1>5. CASE UNCHANGED pumpVars
    BY <1>5 DEF pumpVars
  <1>6. ASSUME NEW t \in Tasks, BeginRun(t) \/ CheckRun(t) PROVE P
    BY <1>6 DEF BeginRun, CheckRun
  <1>7. QED
    BY <1>1, <1>2, <1>3, <1>4, <1>5, <1>6 DEF PumpNext

(* No blind start and no start after an emergency.                          *)
THEOREM StartsAreKnown == PumpSpec => NoBlindStart
  <1>1. PumpInv /\ [PumpNext]_pumpVars
          => [/\ ~pumpPin /\ pumpPin' => ~unknown /\ ~pumpInhibited
              /\ pumpInhibited /\ ~pumpInhibited' => ~pumpPin' /\ mutex' = NoTask]_pumpVars
    BY NextStartsKnown
  <1>2. QED
    BY <1>1, PumpSpecInv, PTL DEF PumpSpec, NoBlindStart

=============================================================================
