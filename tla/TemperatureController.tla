------------------------ MODULE TemperatureController ------------------------
(***************************************************************************)
(* TemperatureController (control.hpp, control.cpp): the state it keeps, as *)
(* a record, and its methods, as operators from a record to a record.       *)
(*                                                                         *)
(* A `*_started_ms_` or `*_since_ms_` field is the age of its timer, Off     *)
(* when the flag beside it is false; an age stops at the only limit it is   *)
(* compared with.  A method that drives the heater takes the outcome of     *)
(* that call (`ok`); what the pin then does is HeaterOutput's subject, and   *)
(* `heat` here is enabled_, which every off call clears.                    *)
(*                                                                         *)
(* Left out: post_brew_recovery_active_ and last_pump_running_ms_ (nothing   *)
(* reads what they decide), the session id, and the fields no method reads   *)
(* before it has recomputed them (current_steam_compensation_c_, the         *)
(* pending calibration, which follows from the candidate).  The heater       *)
(* window, the pulse curve and the recovery ramp choose how much of a        *)
(* window is on: update takes that choice as `pulse`.                       *)
(***************************************************************************)
EXTENDS Integers

CONSTANTS
  Raw,             \* temperatures the thermocouple can return, in degrees
  Bad,             \* a reading that is not kOk or not finite
  TargetPairs,     \* target pairs that targets_are_valid accepts
  DefaultTargets,  \* TemperatureTargets{}
  SteamSettings,   \* settings that steam_control_settings_are_valid accepts
  Candidates,      \* raw candidates within the calibration's bounds
  Reference,       \* kTemperatureCalibrationReferenceC
  BrewOver,        \* kBrewOverTemperatureC
  SteamOver,       \* kSteamOverTemperatureC
  RawOver,         \* kRawBoilerOverTemperatureC
  ReadyBand,       \* kReadyBandC
  ExtractionLift,  \* kExtractionHeaterDutyOffsetC
  HeatingTimeout,  \* kHeatingTimeoutMs, in clock ticks, as those below
  ReadyStability,  \* kReadyStabilityMs
  SessionLease,    \* kTemperatureCalibrationSessionLeaseMs
  LongestSteam,    \* the longest decay or ready timeout a setting can have
  FailureStreak    \* kSensorFailureConsecutiveSamples

ASSUME TemperatureAssumption ==
  /\ Raw \subseteq Int /\ Bad \notin Raw
  /\ Candidates \subseteq Int /\ Reference \in Candidates
  /\ BrewOver \in Int /\ SteamOver \in Int /\ RawOver \in Int
  /\ ReadyBand \in Nat /\ ExtractionLift \in Nat

ASSUME SettingsAssumption ==
  /\ TargetPairs \subseteq [brew : Int, steam : Int]
  /\ DefaultTargets \in TargetPairs
  /\ SteamSettings \subseteq
       [compensation : Nat, decay : 1..LongestSteam, timeout : 1..LongestSteam]

ASSUME TimingAssumption ==
  /\ HeatingTimeout \in Nat \ {0} /\ ReadyStability \in Nat \ {0}
  /\ SessionLease \in Nat \ {0} /\ LongestSteam \in Nat \ {0}
  /\ FailureStreak \in Nat \ {0}

Off == -1
Running(age) == age # Off
Ages(limit) == Off..limit

Older(age, limit) == IF age \in {Off, limit} THEN age ELSE age + 1

Modes   == {"brew", "steam"}
Phases  == {"idle", "manual", "pre_infusion", "soak", "main_extraction"}
Faults  == {"sensor_failure", "over_temperature", "heating_timeout",
            "internal_error"}
Offsets == {Reference - k : k \in Candidates}

ControllerFields ==
  {"mode", "status", "fault", "permit", "heat", "cooling", "phase", "targets",
   "steam", "offset", "updating", "nextTargets", "activeChange",
   "steamUpdating", "nextSteam", "calibration", "candidate", "session",
   "reading", "streak", "band", "achieved", "warmup", "recovery", "steamTimer",
   "soak"}

IsController(c) ==
  /\ DOMAIN c = ControllerFields
  /\ c.mode \in Modes /\ c.status \in {"heating", "ready", "fault"}
  /\ c.fault \in Faults \cup {"none"}          \* fault_latched_ and fault_code_
  /\ c.permit \in BOOLEAN                       \* heater_enabled_permission_
  /\ c.heat \in BOOLEAN                         \* heater_.enabled_
  /\ c.cooling \in BOOLEAN                      \* cooldown_inhibited_
  /\ c.phase \in Phases                         \* extraction_phase_
  /\ c.targets \in TargetPairs /\ c.steam \in SteamSettings
  /\ c.offset \in Offsets
  /\ c.updating \in BOOLEAN                     \* target_update_in_progress_
  /\ c.nextTargets \in TargetPairs              \* pending_targets_
  /\ c.activeChange \in BOOLEAN                 \* pending_active_target_change_
  /\ c.steamUpdating \in BOOLEAN  \* steam_control_settings_update_in_progress_
  /\ c.nextSteam \in SteamSettings              \* pending_steam_control_settings_
  /\ c.calibration \in {"none", "active", "saving"}
  /\ c.candidate \in Candidates /\ c.session \in Ages(SessionLease)
  /\ c.reading \in Raw \cup {Bad} /\ c.streak \in 0..FailureStreak
  /\ c.band \in Ages(ReadyStability)            \* ready_band_active_
  /\ c.achieved \in BOOLEAN                     \* readiness_achieved_
  /\ c.warmup \in Ages(HeatingTimeout) /\ c.recovery \in Ages(HeatingTimeout)
  /\ c.steamTimer \in Ages(LongestSteam)        \* steam_timeout_active_
  /\ c.soak \in Ages(LongestSteam)              \* steam_heat_soak_active_

-----------------------------------------------------------------------------
(* What the controller computes from its state.                            *)

Reachable(targets, offset) ==
  targets.brew - offset <= RawOver /\ targets.steam - offset <= RawOver

ReadingOk(c)    == c.reading # Bad
Calibrating(c)  == c.calibration # "none"
Faulted(c)      == c.fault # "none"
Effective(c)    == c.reading + c.offset
ActiveTarget(c) == IF c.mode = "brew" THEN c.targets.brew ELSE c.targets.steam

(* applied_steam_compensation, rounded down to whole degrees.              *)
Compensation(c) ==
  IF Running(c.soak) /\ c.soak < c.steam.decay
  THEN (c.steam.compensation * (c.steam.decay - c.soak)) \div c.steam.decay
  ELSE 0

ControlTarget(c) == IF Calibrating(c) THEN c.candidate ELSE ActiveTarget(c)
ControlTemperature(c) ==
  IF Calibrating(c) THEN c.reading
  ELSE Effective(c) + (IF c.mode = "steam" THEN Compensation(c) ELSE 0)

DutyTarget(c) ==
  IF Calibrating(c) \/ c.mode = "steam" THEN ControlTarget(c)
  ELSE LET lifted == c.targets.brew +
             (IF c.phase \in {"manual", "main_extraction"} THEN ExtractionLift
                                                          ELSE 0)
       IN IF lifted < BrewOver - 1 THEN lifted ELSE BrewOver - 1

DemandsHeat(c) == ControlTemperature(c) < ControlTarget(c)
InReadyBand(c) ==
  ControlTemperature(c) - ControlTarget(c) \in (-ReadyBand)..ReadyBand

OverLimit(mode, temperature) ==
  IF mode = "brew" THEN temperature >= BrewOver ELSE temperature > SteamOver
OverTemperature(c, mode) ==
  c.reading > RawOver \/ OverLimit(mode, Effective(c))

-----------------------------------------------------------------------------
(* Faults, and the ways back to ordinary brewing.                          *)

LatchFault(c, code) ==
  [c EXCEPT !.calibration = "none", !.mode = "brew", !.fault = code,
            !.status = "fault", !.warmup = Off, !.recovery = Off,
            !.heat = FALSE]

(* Every `if (!heater_.force_off()) latch_fault(kInternalError)`.           *)
ForceOff(c, ok) ==
  IF ok THEN [c EXCEPT !.heat = FALSE] ELSE LatchFault(c, "internal_error")

ReturnToBrew(c) ==
  [c EXCEPT !.mode = "brew", !.steamTimer = Off, !.band = Off,
            !.warmup = Off, !.achieved = FALSE, !.recovery = Off,
            !.status = "heating"]

RestoreOrdinaryBrew(c, ok) ==
  LET left == [c EXCEPT !.calibration = "none",
                        !.candidate = Reference - c.offset]
  IN IF ok THEN ReturnToBrew([left EXCEPT !.heat = FALSE])
           ELSE LatchFault(left, "internal_error")

Abort(c, ok) == IF Calibrating(c) THEN RestoreOrdinaryBrew(c, ok) ELSE c

(* Mutant of SessionExpired: only a session being saved can expire.         *)
SavingExpired(c) == c.calibration = "saving" /\ c.session >= SessionLease

SessionExpired(c) == c.calibration = "active" /\ c.session >= SessionLease
Expire(c, ok) == IF SessionExpired(c) THEN RestoreOrdinaryBrew(c, ok) ELSE c

-----------------------------------------------------------------------------
(* update: one 500 ms pass over a reading.                                  *)

BadReading(c, ok) ==
  LET streak == IF c.streak < FailureStreak THEN c.streak + 1 ELSE c.streak
      held == [c EXCEPT !.streak = streak, !.status = "heating",
                        !.band = Off, !.heat = FALSE]
  IN CASE ~ok                      -> LatchFault(held, "internal_error")
       [] ok /\ streak >= FailureStreak -> LatchFault(held, "sensor_failure")
       [] OTHER                    -> held

ClearSoak(c) ==
  IF c.mode # "steam" /\ Running(c.soak) /\ Effective(c) <= c.targets.brew
  THEN [c EXCEPT !.soak = Off] ELSE c

SteamTimedOut(c) ==
  /\ ~Calibrating(c) /\ c.mode = "steam"
  /\ Running(c.steamTimer) /\ c.steamTimer >= c.steam.timeout
LeaveSteam(c) == IF SteamTimedOut(c) THEN ReturnToBrew(c) ELSE c

Ready(c) == InReadyBand(c) /\ c.band >= ReadyStability
TrackReadiness(c) ==
  LET banded == [c EXCEPT !.band = IF ~InReadyBand(c) THEN Off
                                   ELSE IF Running(c.band) THEN c.band ELSE 0]
      timed == ~Calibrating(c) /\ c.mode = "steam" /\ Ready(banded)
  IN [banded EXCEPT
        !.status = IF Ready(banded) THEN "ready" ELSE "heating",
        !.steamTimer = IF timed /\ ~Running(c.steamTimer) THEN 0 ELSE @]

(* The warm-up deadline before the first readiness, the recovery deadline   *)
(* after it; neither runs without permission or during a calibration.       *)
Deadline(age, c) == IF ~Running(age) /\ DemandsHeat(c) THEN 0 ELSE age

TrackDeadlines(c) ==
  IF Calibrating(c) \/ ~c.permit THEN [c EXCEPT !.warmup = Off, !.recovery = Off]
  ELSE IF c.status = "ready"
       THEN [c EXCEPT !.warmup = Off, !.recovery = Off, !.achieved = TRUE]
  ELSE IF c.achieved THEN [c EXCEPT !.recovery = Deadline(@, c)]
  ELSE [c EXCEPT !.warmup = Deadline(@, c)]

(* The deadline of the branch update is in, the only one it looks at.       *)
(* Mutant of DeadlineMissed: a recovery is judged by the warm-up deadline.   *)
WarmupMissed(c) ==
  ~Calibrating(c) /\ c.permit /\ c.status # "ready" /\ c.warmup >= HeatingTimeout

DeadlineMissed(c) ==
  /\ ~Calibrating(c) /\ c.permit /\ c.status # "ready"
  /\ (IF c.achieved THEN c.recovery ELSE c.warmup) >= HeatingTimeout

MayHeat(c) ==
  /\ ~c.updating /\ ~c.steamUpdating /\ ~c.cooling /\ c.permit
  /\ ControlTemperature(c) < DutyTarget(c)

UpdateHeater(c, ok, pulse) ==
  IF ok THEN [c EXCEPT !.heat = MayHeat(c) /\ pulse]
        ELSE LatchFault(c, "internal_error")

Regulate(c, ok, pulse) ==
  LET timed == TrackDeadlines(TrackReadiness(LeaveSteam(ClearSoak(c))))
  IN IF DeadlineMissed(timed) THEN LatchFault(timed, "heating_timeout")
                              ELSE UpdateHeater(timed, ok, pulse)

ProtectedMode(c) == IF Calibrating(c) THEN "steam" ELSE c.mode
Judge(c, ok, pulse) ==
  IF ~ReadingOk(c) THEN BadReading(c, ok)
  ELSE LET valid == [c EXCEPT !.streak = 0] IN
       IF OverTemperature(c, ProtectedMode(c))
       THEN LatchFault(valid, "over_temperature")
       ELSE Regulate(valid, ok, pulse)

(* `released` is the outcome of the off call of an expiring session.        *)
Update(c, reading, tripped, released, ok, pulse) ==
  LET read == [Expire(c, released) EXCEPT !.reading = reading]
  IN IF tripped THEN LatchFault(read, "internal_error")
     ELSE IF Faulted(read) THEN [read EXCEPT !.status = "fault", !.heat = FALSE]
     ELSE Judge(read, ok, pulse)

-----------------------------------------------------------------------------
(* Mode, permission, phases, cooldown and dismissal.                        *)

Idle(c) == ~c.updating /\ ~c.steamUpdating

Moved(c, mode) ==
  [ReturnToBrew(c) EXCEPT
     !.mode = mode,
     !.soak = IF mode = "steam" /\ ~Running(@) THEN 0 ELSE @]

(* Mutant of SetMode: the same mode again starts afresh.                    *)
SetModeAgain(c, mode, ok) ==
  IF Calibrating(c) THEN RestoreOrdinaryBrew(c, ok)
  ELSE IF ~Idle(c) THEN c ELSE ForceOff(Moved(c, mode), ok)

SetMode(c, mode, ok) ==
  IF Calibrating(c) THEN RestoreOrdinaryBrew(c, ok)
  ELSE IF ~Idle(c) \/ c.mode = mode THEN c
  ELSE IF Faulted(c) THEN [Moved(c, mode) EXCEPT !.status = "fault", !.heat = FALSE]
  ELSE ForceOff(Moved(c, mode), ok)

(* Called outside a calibration: both callers check for one first.          *)
Permit(c, enabled) ==
  [c EXCEPT !.permit = enabled, !.warmup = Off, !.achieved = FALSE,
            !.recovery = Off, !.heat = @ /\ enabled /\ ~Faulted(c)]

SetHeaterEnabled(c, enabled, tripped) ==
  IF enabled /\ tripped THEN LatchFault(c, "internal_error")
  ELSE IF enabled /\ c.updating THEN c
  ELSE IF c.permit = enabled THEN [c EXCEPT !.heat = @ /\ enabled]
  ELSE Permit(c, enabled)

SetExtractionPhase(c, phase) == [c EXCEPT !.phase = phase]

(* begin_cooldown_inhibit: when set_mode fails (a pending settings update,  *)
(* or its off call) the inhibit is set all the same.                        *)
InhibitBegins(c, ok) == ok /\ (c.mode = "brew" \/ Idle(c))
BeginCooldownInhibit(c, ok) ==
  LET brewing == SetMode(Abort(c, ok), "brew", ok)
      inhibited == [brewing EXCEPT !.cooling = TRUE]
  IN IF InhibitBegins(c, ok) THEN ForceOff(inhibited, ok) ELSE inhibited

(* Mutant of EndCooldownInhibit: it gives up when the heater's call fails.   *)
EndInhibitOnSuccess(c, ok) == [ForceOff(c, ok) EXCEPT !.cooling = @ /\ ~ok]

EndCooldownInhibit(c, ok) == [ForceOff(c, ok) EXCEPT !.cooling = FALSE]

Dismissable(c) ==
  /\ c.fault = "over_temperature" /\ ReadingOk(c)
  /\ Effective(c) <= ActiveTarget(c)
  /\ ~OverTemperature(c, c.mode)

Cleared(c) == [c EXCEPT !.fault = "none", !.band = Off, !.warmup = Off,
                        !.achieved = FALSE, !.recovery = Off]

(* Mutant of Dismiss: any fault whose reading looks safe is dismissed.       *)
DismissAny(c, tripped, ok, pulse) ==
  IF Faulted(c) /\ ReadingOk(c)
  THEN Update(Cleared(c), c.reading, tripped, TRUE, ok, pulse) ELSE c

Dismiss(c, tripped, ok, pulse) ==
  IF Dismissable(c)
  THEN Update(Cleared(c), c.reading, tripped, TRUE, ok, pulse) ELSE c

-----------------------------------------------------------------------------
(* The settings transaction: prepare, then NVS, then adopt or roll back.    *)

ActiveDiffers(c, targets) ==
  IF c.mode = "brew" THEN targets.brew # c.targets.brew
                     ELSE targets.steam # c.targets.steam

CanPrepareSettings(c, targets) ==
  ~Faulted(c) /\ ~Calibrating(c) /\ Idle(c) /\ Reachable(targets, c.offset)

Prepared(c, targets, steam) ==
  LET moved == targets # c.targets
  IN [c EXCEPT !.nextTargets = IF moved THEN targets ELSE @,
               !.activeChange = IF moved THEN ActiveDiffers(c, targets) ELSE @,
               !.updating = moved,
               !.nextSteam = steam,
               !.steamUpdating = steam # c.steam]

PrepareSettings(c, targets, steam, ok) ==
  IF targets = c.targets /\ steam = c.steam THEN c
  ELSE ForceOff(Prepared(c, targets, steam), ok)

AdoptTargets(c, targets) ==
  IF ~Reachable(targets, c.offset) \/ ~c.updating \/ targets # c.nextTargets
  THEN LatchFault(c, "internal_error")
  ELSE LET adopted == [c EXCEPT !.targets = targets, !.activeChange = FALSE,
                                !.updating = FALSE]
       IN IF c.activeChange
          THEN [adopted EXCEPT
                  !.band = Off,
                  !.achieved = @ /\ (Running(c.warmup) \/ Running(c.recovery)),
                  !.status = IF Faulted(c) THEN @ ELSE "heating"]
          ELSE adopted

AdoptSteam(c, steam) ==
  IF ~c.steamUpdating \/ steam # c.nextSteam
  THEN LatchFault(c, "internal_error")
  ELSE [c EXCEPT !.steam = steam, !.steamUpdating = FALSE]

AdoptsTargets(c, targets) ==
  targets = c.targets
    \/ (Reachable(targets, c.offset) /\ c.updating /\ targets = c.nextTargets)

AdoptSettings(c, targets, steam) ==
  LET first == IF targets = c.targets THEN c ELSE AdoptTargets(c, targets)
  IN IF AdoptsTargets(c, targets) /\ steam # c.steam
     THEN AdoptSteam(first, steam) ELSE first

RollbackTargets(c, ok) ==
  IF c.updating /\ ok
  THEN [c EXCEPT !.heat = FALSE, !.nextTargets = c.targets,
                 !.activeChange = FALSE, !.updating = FALSE]
  ELSE IF c.updating THEN LatchFault(c, "internal_error") ELSE c

RollbackSteam(c) ==
  IF c.steamUpdating
  THEN [c EXCEPT !.heat = FALSE, !.nextSteam = c.steam, !.steamUpdating = FALSE]
  ELSE c

RollbackSettings(c, ok) == RollbackSteam(RollbackTargets(c, ok))

-----------------------------------------------------------------------------
(* The temperature calibration session.                                     *)

CanStartCalibration(c) ==
  /\ ~Calibrating(c) /\ ~Faulted(c) /\ ReadingOk(c) /\ c.permit
  /\ c.mode = "brew" /\ Idle(c) /\ ~c.cooling /\ c.phase = "idle"

StartCalibration(c, ok) ==
  ForceOff([c EXCEPT !.calibration = "active",
                     !.candidate = Reference - c.offset, !.session = 0,
                     !.band = Off, !.warmup = Off, !.recovery = Off,
                     !.achieved = FALSE, !.status = "heating"], ok)

CanRenew(c) == c.calibration = "active"
Renew(c) == [c EXCEPT !.session = 0]

SetCandidate(c, candidate, ok) ==
  IF candidate = c.candidate THEN Renew(c)
  ELSE ForceOff([Renew(c) EXCEPT !.candidate = candidate, !.band = Off,
                                 !.status = "heating"], ok)

CandidateOffset(c) == Reference - c.candidate
CanSaveCalibration(c) == Reachable(c.targets, CandidateOffset(c))
PrepareCalibrationSave(c, ok) ==
  ForceOff([Renew(c) EXCEPT !.calibration = "saving"], ok)

CanAdoptCalibration(c, offset) ==
  c.calibration = "saving" /\ offset = CandidateOffset(c)
    /\ Reachable(c.targets, offset)
AdoptCalibration(c, offset, ok) ==
  IF CanAdoptCalibration(c, offset)
  THEN RestoreOrdinaryBrew([c EXCEPT !.offset = offset], ok)
  ELSE LatchFault(c, "internal_error")

RollbackCalibration(c) ==
  IF c.calibration = "saving"
  THEN [c EXCEPT !.calibration = "active", !.session = 0] ELSE c

-----------------------------------------------------------------------------
(* The constructor, and the passing of time.                                *)

Construct(targets, steam, offset) ==
  LET fresh == [mode |-> "brew", status |-> "heating", fault |-> "none",
        permit |-> TRUE, heat |-> FALSE, cooling |-> FALSE, phase |-> "idle",
        targets |-> targets, steam |-> steam, offset |-> offset,
        updating |-> FALSE, nextTargets |-> targets, activeChange |-> FALSE,
        steamUpdating |-> FALSE, nextSteam |-> steam,
        calibration |-> "none", candidate |-> Reference - offset,
        session |-> 0, reading |-> Bad, streak |-> 0, band |-> Off,
        achieved |-> FALSE, warmup |-> Off, recovery |-> Off,
        steamTimer |-> Off, soak |-> Off]
  IN IF Reachable(targets, offset) THEN fresh
     ELSE LatchFault([fresh EXCEPT !.targets = DefaultTargets],
                     "internal_error")

Age(c) ==
  [c EXCEPT !.session = Older(@, SessionLease),
            !.band = Older(@, ReadyStability),
            !.warmup = Older(@, HeatingTimeout),
            !.recovery = Older(@, HeatingTimeout),
            !.steamTimer = Older(@, LongestSteam),
            !.soak = Older(@, LongestSteam)]

=============================================================================
