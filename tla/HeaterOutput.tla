---------------------------- MODULE HeaterOutput ----------------------------
(***************************************************************************)
(* The heater's solid-state relay output: FailOffSsr (peripherals.cpp) over *)
(* its GPIO and the EspGptimerSafetyLease (esp_peripherals.cpp), as the     *)
(* firmware's tasks drive it.                                               *)
(*                                                                         *)
(* Tasks call set_enabled and force_off while they hold the one workflow   *)
(* mutex.  A task whose 50 ms wait for it fails calls emergency_off, and    *)
(* the temperature and workflow loops then force_off, all without the       *)
(* mutex.  The gptimer alarm interrupts any of them.                        *)
(*                                                                         *)
(* Steps: a critical section (interrupts off, one core) is one step, as is  *)
(* the alarm's interrupt handler.  Everything outside a critical section    *)
(* may be preempted between any two accesses to shared state, for any       *)
(* length of time.  The two sticky flags are read together: that tripped is *)
(* read just before emergency_inhibited_ adds no outcome.                   *)
(*                                                                         *)
(* A GPIO or timer call that returns an error has changed nothing.          *)
(* The interrupt ignores the result of its low write.  It is taken to       *)
(* succeed, an assumption about the board: gpio_set_level refuses only a    *)
(* pin that is not an output, which initialize() has excluded.              *)
(***************************************************************************)
EXTENDS Naturals, WorkflowMutex

CONSTANT Lease   \* kHeaterSafetyLeaseMs, in clock ticks

ASSUME LeaseAssumption == Lease \in Nat \ {0}

VARIABLES
  pin,        \* the SSR's level: TRUE heats
  enabled,    \* enabled_
  inhibited,  \* emergency_inhibited_
  tripped,    \* EspGptimerSafetyLease::tripped_
  armed,      \* the gptimer holds an alarm
  left,       \* ticks until that alarm
  age         \* ticks since the mutex holder's arm() read the raw count

output == <<pin, enabled, inhibited, tripped, armed, left, age>>
vars == <<output, mutex, pc>>

Locked  == {"locked", "enable", "arm", "alarm", "recheck", "raise", "refuse",
            "disable", "lower"}

FlagsOK ==
  /\ pin \in BOOLEAN /\ enabled \in BOOLEAN /\ inhibited \in BOOLEAN
  /\ tripped \in BOOLEAN /\ armed \in BOOLEAN

CallsOK ==
  /\ left \in 0..Lease
  /\ age \in 0..Lease
  /\ mutex \in Tasks \cup {NoTask}
  /\ pc \in [Tasks -> Locked \cup Waiting]

TypeOK == FlagsOK /\ CallsOK

(* What a successful initialize() leaves at boot, before the tasks start.  *)
Init ==
  /\ pin = FALSE /\ enabled = FALSE /\ inhibited = FALSE /\ tripped = FALSE
  /\ armed = FALSE /\ left = 0 /\ age = 0
  /\ Idle

Cutoff == tripped \/ inhibited

(* A low write, which the GPIO may refuse.                                 *)
TryLower == pin' = FALSE \/ UNCHANGED pin

(* Mutant of LowerThenDisarm: the lease of a pin that may still be high is  *)
(* given up.                                                               *)
DisarmAnyway ==
  enabled' = FALSE /\ TryLower /\ (armed' = FALSE \/ UNCHANGED armed)

(* Low first; the lease is disarmed only once the pin is known low, and the *)
(* disarm itself may fail.                                                 *)
LowerThenDisarm ==
  /\ enabled' = FALSE
  /\ \/ UNCHANGED <<pin, armed>>
     \/ pin' = FALSE /\ (armed' = FALSE \/ UNCHANGED armed)

-----------------------------------------------------------------------------
(* set_enabled(true).                                                      *)

BeginEnable(t) ==
  /\ pc[t] = "locked"
  /\ Goto(t, "enable")
  /\ UNCHANGED <<output, mutex>>

CheckEnable(t) ==
  /\ pc[t] = "enable"
  /\ Goto(t, IF Cutoff THEN "refuse" ELSE "arm")
  /\ UNCHANGED <<output, mutex>>

(* arm(): refuse once tripped, then read the raw count; both calls can fail. *)
ReadCount(t) ==
  /\ pc[t] = "arm"
  /\ \/ ~tripped /\ Goto(t, "alarm") /\ age' = 0
     \/ Goto(t, "refuse") /\ UNCHANGED age
  /\ UNCHANGED <<pin, enabled, inhibited, tripped, armed, left, mutex>>

(* arm(): the alarm is set at the count read before plus the lease; a count *)
(* already past fires at once.                                             *)
SetAlarm(t) ==
  /\ pc[t] = "alarm"
  /\ \/ armed' = TRUE /\ left' = Lease - age /\ Goto(t, "recheck")
     \/ Goto(t, "refuse") /\ UNCHANGED <<armed, left>>
  /\ UNCHANGED <<pin, enabled, inhibited, tripped, age, mutex>>

RecheckAfterArm(t) ==
  /\ pc[t] = "recheck"
  /\ Goto(t, IF Cutoff THEN "refuse" ELSE "raise")
  /\ UNCHANGED <<output, mutex>>

(* Mutant of Raise: the critical section does not check again.              *)
RaiseUnchecked(t) ==
  /\ pc[t] = "raise"
  /\ pin' = TRUE /\ enabled' = TRUE
  /\ Goto(t, "locked")
  /\ UNCHANGED <<inhibited, tripped, armed, left, age, mutex>>

(* The critical section that raises the pin, with its own last check, and   *)
(* the retreat when the GPIO refuses the high level.                       *)
Raise(t) ==
  /\ pc[t] = "raise"
  /\ \/ /\ Cutoff
        /\ TryLower /\ enabled' = FALSE
        /\ UNCHANGED armed
     \/ /\ ~Cutoff
        /\ pin' = TRUE /\ enabled' = TRUE
        /\ UNCHANGED armed
     \/ ~Cutoff /\ LowerThenDisarm
  /\ Goto(t, "locked")
  /\ UNCHANGED <<inhibited, tripped, left, age, mutex>>

(* The low write of a refused enable; the lease stays as it is.            *)
Refuse(t) ==
  /\ pc[t] = "refuse"
  /\ TryLower /\ enabled' = FALSE
  /\ Goto(t, "locked")
  /\ UNCHANGED <<inhibited, tripped, armed, left, age, mutex>>

-----------------------------------------------------------------------------
(* set_enabled(false) and force_off().                                     *)

BeginDisable(t) ==
  /\ pc[t] = "locked"
  /\ Goto(t, "disable")
  /\ UNCHANGED <<output, mutex>>

CheckDisable(t) ==
  /\ pc[t] = "disable"
  /\ Goto(t, IF Cutoff THEN "refuse" ELSE "lower")
  /\ UNCHANGED <<output, mutex>>

Lower(t) ==
  /\ pc[t] = "lower"
  /\ LowerThenDisarm
  /\ Goto(t, "locked")
  /\ UNCHANGED <<inhibited, tripped, left, age, mutex>>

(* force_off by the holder, or by a loop that has just missed the mutex     *)
(* and called emergency_off.  Under the inhibition the lease is kept.       *)
ForceOff(t) ==
  /\ pc[t] \in {"locked", "emergency"}
  /\ \/ inhibited /\ TryLower /\ enabled' = FALSE /\ UNCHANGED armed
     \/ ~inhibited /\ LowerThenDisarm
  /\ Goto(t, IF pc[t] = "locked" THEN "locked" ELSE "idle")
  /\ UNCHANGED <<inhibited, tripped, left, age, mutex>>

(* Mutant of EmergencyOff: it also disarms the lease it may depend on.      *)
EmergencyDisarm(t) ==
  /\ pc[t] = "missed"
  /\ inhibited' = TRUE /\ enabled' = FALSE /\ armed' = FALSE
  /\ TryLower
  /\ Goto(t, "emergency")
  /\ UNCHANGED <<tripped, left, age, mutex>>

EmergencyOff(t) ==
  /\ pc[t] = "missed"
  /\ inhibited' = TRUE /\ enabled' = FALSE
  /\ TryLower
  /\ Goto(t, "emergency")
  /\ UNCHANGED <<tripped, armed, left, age, mutex>>

-----------------------------------------------------------------------------
(* The hardware timer and the board.                                       *)

(* Mutant of Trip: the interrupt only records the trip.                     *)
TripOnly ==
  /\ armed /\ left = 0
  /\ tripped' = TRUE /\ armed' = FALSE
  /\ UNCHANGED <<pin, enabled, inhibited, left, age, mutex, pc>>

(* The alarm's interrupt: pin low, then tripped_; no auto reload.          *)
Trip ==
  /\ armed /\ left = 0
  /\ pin' = FALSE /\ tripped' = TRUE /\ armed' = FALSE
  /\ UNCHANGED <<enabled, inhibited, left, age, mutex, pc>>

(* A due alarm is served before the clock moves on.                        *)
Tick ==
  /\ ~(armed /\ left = 0)
  /\ left' = IF armed THEN left - 1 ELSE left
  /\ age' = IF age < Lease THEN age + 1 ELSE age
  /\ UNCHANGED <<pin, enabled, inhibited, tripped, armed, mutex, pc>>

(* Any restart of the chip: the pin floats low and the firmware boots.     *)
Reset ==
  /\ pin' = FALSE /\ enabled' = FALSE /\ inhibited' = FALSE /\ tripped' = FALSE
  /\ armed' = FALSE /\ left' = 0 /\ age' = 0
  /\ Freed

Next ==
  \/ \E t \in Tasks :
       \/ Waits(t) /\ UNCHANGED output
       \/ BeginEnable(t) \/ CheckEnable(t) \/ ReadCount(t) \/ SetAlarm(t)
       \/ RecheckAfterArm(t) \/ Raise(t) \/ Refuse(t)
       \/ BeginDisable(t) \/ CheckDisable(t) \/ Lower(t)
       \/ ForceOff(t) \/ EmergencyOff(t)
  \/ Trip \/ Tick \/ Reset

Spec == Init /\ [][Next]_vars

(* The timer is hardware: time passes and a due alarm is served.  Nothing   *)
(* is assumed of the tasks, which may hang anywhere.                        *)
TimerSpec == Spec /\ WF_vars(Tick) /\ WF_vars(Trip)

-----------------------------------------------------------------------------
(* Whatever task hangs, misses the mutex or fails to drive the GPIO, and    *)
(* wherever it is preempted, a heating pin always has an alarm pending, and *)
(* one due within a lease of the last raw count a task read: disarm never   *)
(* reaches a high pin, and no high write slips in after the alarm it relies *)
(* on has gone.                                                            *)
HighIsLeased == pin => armed /\ left + age <= Lease

(* is_enabled() never claims heat over a pin the interrupt or another task  *)
(* has lowered: the API and the controller's duty accounting rely on it.    *)
ReportedHeatIsReal == enabled /\ ~inhibited /\ ~tripped => pin

(* Once the lease has tripped or a task has declared the emergency, no call *)
(* already past its checks can raise the pin; only a reset can undo either. *)
CutoffIsFinal ==
  [][/\ Cutoff /\ ~pin => ~pin'
     /\ Cutoff /\ ~Cutoff' => ~pin' /\ mutex' = NoTask]_vars

(* An emergency whose own low write failed still ends with the pin low,     *)
(* through the lease, even if no task takes another step.                   *)
EmergencyReachesLow == (inhibited /\ pin) ~> ~pin

(* Heat outlives a stalled control loop by one lease at most: the pin stays *)
(* high for ever only if a task goes on renewing the alarm.                 *)
HeatNeedsRenewal == []<>~pin \/ []<>(\E t \in Tasks : pc[t] = "recheck")

=============================================================================
