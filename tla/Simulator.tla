------------------------------ MODULE Simulator ------------------------------
(* The device simulator, SimulatorMachine behind the routes of createSimulator: *)
(* the stand-in for the espresso machine that the app and the contract tests    *)
(* run against.  A method of the machine is an operator from one state of the   *)
(* machine to the next; a route is an action that makes every call its handler  *)
(* makes.  Routes await only their request body, before they touch the machine, *)
(* so that a route is one step; the firmware update alone awaits between its    *)
(* check and its effect.  Temperatures are whole degrees of a small scale and   *)
(* move one degree a step; time passes in steps, and an instant is kept as the  *)
(* number of steps since.  The telemetry of a shot is in ShotTelemetry, pairing *)
(* in Pairing, and what an update does to a real machine in FirmwareUpdate.     *)
EXTENDS Integers, FiniteSets, FiniteSetsExt

CONSTANTS
  Raws,                  \* raw temperatures the control route may set
  Ambient, BrewOver, SteamOver, RawOver, ReadyBand, ReadyHold, Lift,
  Reference, Candidates, \* of the temperature calibration
  TargetPairs, FactoryTargets, SteamSettings, FactorySteam,
  Lease, PumpLimit, Stabilization, ShotLimit, SettleLimit,
  Manual,                \* the selection without a profile
  Profiles, Cutoffs, NoWeight, Weights, Keys, NoKey,
  BrewRange, SteamRange, OffsetRange, CandidateRange, MaxTimeout, MaxCompensation,
  Null,                  \* of the protocol's answers
  Horizon,               \* bound on the ages of a soak and of a steam timer
  MaxId,                 \* bound on the runs and the calibrations of a boot
  Routes                 \* the sets of routes a client may be limited to

Schema == INSTANCE Contract WITH PageLimit <- 1

(* Ranges are of whole degrees without a gap.  What a candidate would save may  *)
(* be saved, and what is saved was a candidate; and with any of them some       *)
(* target of either mode stays below the sensor's own limit.                    *)
Interval(S) == \E low, high \in S : S = low..high
ASSUME RangesAssumption ==
  /\ BrewRange \subseteq Nat /\ Interval(BrewRange)
  /\ SteamRange \subseteq Nat /\ Interval(SteamRange)
  /\ {Reference, RawOver} \cup OffsetRange \cup CandidateRange \subseteq Int
  /\ 0 \in OffsetRange /\ Candidates \subseteq CandidateRange
  /\ \A candidate \in CandidateRange : Reference - candidate \in OffsetRange
  /\ \A offset \in OffsetRange :
       /\ Reference - offset \in CandidateRange
       /\ \E target \in BrewRange : target <= RawOver + offset
       /\ \E target \in SteamRange : target <= RawOver + offset
(* What the routes accept was parsed by the protocol's schemas.                 *)
ASSUME RequestsAssumption ==
  /\ TargetPairs \cup {FactoryTargets} \subseteq [brew : BrewRange, steam : SteamRange]
  /\ SteamSettings \cup {FactorySteam} \subseteq
       [compensation : 0..MaxCompensation, decay : Nat \ {0}, timeout : 1..MaxTimeout]
  /\ Manual \notin Profiles /\ \A p \in Profiles : Schema!Profile(p)
  /\ Null \notin Nat \cup Keys \cup {"failed"}
ASSUME LimitsAssumption ==
  /\ {Lease, PumpLimit, Stabilization, MaxTimeout, MaxCompensation, Horizon} \subseteq Nat
  /\ ShotLimit \in Nat \ {0}

VARIABLES
  m,                     \* SimulatorMachine
  client                 \* the routes this behaviour's clients use
vars == <<m, client>>

None == -1               \* an absent instant, an unused remaining time
NoCal == [id |-> 0, candidate |-> None, idle |-> 0]
NoCooldown == [status |-> "idle", key |-> NoKey, target |-> None, pumped |-> 0,
               settled |-> 0, outcome |-> "none"]
NoShot == [id |-> 0, key |-> NoKey, selection |-> Manual, elapsed |-> 0, tare |-> 0,
           cutoff |-> NoWeight, fallback |-> FALSE]
NoEnd == [id |-> 0, key |-> NoKey, selection |-> Manual, outcome |-> "none"]
NoScore == [id |-> 0, cutoff |-> NoWeight, reason |-> "none", final |-> NoWeight,
            settled |-> TRUE, settling |-> 0]

Least(a, b) == IF a <= b THEN a ELSE b
Older(age) == IF age = None THEN None ELSE Least(Horizon, age + 1)

(* Private queries of the machine. *)
Effective(s) == s.raw + s.offset
Running(s) == s.shot # NoShot
Cooling(s) == s.cool.status \in {"pumping", "stabilizing"}
Workflow(s) == Running(s) \/ Cooling(s)     \* hasActiveWorkflow
ActiveTarget(s) == s.targets[s.mode]
Phase(s) ==
  LET p == s.shot.selection IN
  IF p = Manual THEN "manual"
  ELSE IF s.shot.elapsed < p.pre THEN "pre-infusion"
  ELSE IF s.shot.elapsed < p.pre + p.soak THEN "soak" ELSE "main-extraction"
Compensating(s) ==
  /\ Running(s) /\ Phase(s) \in {"manual", "main-extraction"}
  /\ s.mode = "brew" /\ s.heater /\ s.fault = "none" /\ ~Cooling(s)
SteamLift(s) ==
  IF s.soak = None \/ s.soak >= s.steam.decay THEN 0
  ELSE (s.steam.compensation * (s.steam.decay - s.soak)) \div s.steam.decay
ControlTemperature(s) == Effective(s) + (IF s.mode = "steam" THEN SteamLift(s) ELSE 0)
RawTarget(s) ==
  IF s.cal # NoCal THEN s.cal.candidate
  ELSE (IF Compensating(s) THEN Least(s.targets.brew + Lift, BrewOver - 1) ELSE ActiveTarget(s))
       - s.offset - (IF s.mode = "steam" THEN SteamLift(s) ELSE 0)
HeaterActive(s) == s.fault = "none" /\ s.heater /\ ~Cooling(s) /\ s.raw < RawTarget(s)
AtTarget(s) ==
  LET gap == ControlTemperature(s) - ActiveTarget(s)
  IN -ReadyBand <= gap /\ gap <= ReadyBand
OverTemperature(s) ==
  \/ s.raw > RawOver
  \/ IF s.cal # NoCal \/ Cooling(s) \/ s.mode = "steam"
     THEN Effective(s) > SteamOver ELSE Effective(s) >= BrewOver
Reachable(offset, targets) ==
  targets.brew - offset <= RawOver /\ targets.steam - offset <= RawOver

(* Faults, the calibration session and the cooldown. *)
RestoreBrew(s) ==
  [s EXCEPT !.cal = NoCal, !.mode = "brew", !.ready = 0, !.left = None, !.readyAt = None]
FailCooldown(s) ==
  IF ~Cooling(s) THEN s
  ELSE [s EXCEPT !.cool.status = "terminal", !.cool.outcome = "failed"]
InjectFaultAlone(s, fault) ==           \* mutant: leaves a cooldown running
  IF s.fault # "none" THEN s ELSE RestoreBrew([s EXCEPT !.fault = fault])
InjectFault(s, fault) ==
  IF s.fault # "none" THEN s ELSE FailCooldown(RestoreBrew([s EXCEPT !.fault = fault]))
EvaluateSafety(s) ==
  IF OverTemperature(s) THEN InjectFault(s, "over_temperature") ELSE s
AbortCooldown(s) ==
  FailCooldown([s EXCEPT !.armed = @ \ {"pump-off", "heater-off"},
                         !.fault = "internal_error", !.ready = 0])
EnterStabilization(s, outcome) ==
  IF s.cool.status # "pumping" THEN s
  ELSE IF "pump-off" \in s.armed THEN AbortCooldown(s)
  ELSE [s EXCEPT !.cool.status = "stabilizing", !.cool.settled = 0, !.cool.outcome = outcome]
Expired(s) == s.cal # NoCal /\ s.cal.idle >= Lease
ExpireCalibration(s) ==
  IF Expired(s) THEN [RestoreBrew(s) EXCEPT !.expired = s.cal.id] ELSE s
RefreshSteam(s) ==
  IF s.mode # "steam" \/ s.readyAt = None THEN [s EXCEPT !.left = None]
  ELSE IF s.steam.timeout <= s.readyAt
  THEN [s EXCEPT !.mode = "brew", !.ready = 0, !.readyAt = None, !.left = None]
  ELSE [s EXCEPT !.left = s.steam.timeout - s.readyAt]

(* Extraction and the weight it ends on. *)
Duration(s) ==
  LET p == s.shot.selection IN
  IF p = Manual \/ (s.shot.cutoff # NoWeight /\ ~s.shot.fallback) THEN ShotLimit
  ELSE p.pre + p.soak + p.main
FinishWeighted(s, reason) ==
  [s EXCEPT
     !.end = [id |-> s.shot.id, key |-> s.shot.key, selection |-> s.shot.selection,
              outcome |-> IF reason = "stopped" THEN "stopped" ELSE "completed"],
     !.score = [id |-> s.shot.id, cutoff |-> s.shot.cutoff, reason |-> reason,
                final |-> IF s.available THEN s.weight - s.shot.tare ELSE NoWeight,
                settled |-> s.available /\ s.stable, settling |-> 0],
     !.shot = NoShot]
FinishPlain(s, outcome) ==
  [s EXCEPT !.end = [id |-> s.shot.id, key |-> s.shot.key, selection |-> s.shot.selection,
                     outcome |-> outcome],
            !.shot = NoShot]
EvaluateWeight(s) ==
  IF ~Running(s) \/ s.shot.cutoff = NoWeight THEN s
  ELSE IF ~s.available THEN
    LET f == [s EXCEPT !.shot.fallback = TRUE, !.warning = s.shot.id]
    IN IF f.shot.elapsed >= Duration(f) THEN FinishWeighted(f, "timer-fallback") ELSE f
  ELSE IF ~s.shot.fallback /\ s.weight - s.shot.tare >= s.shot.cutoff
  THEN FinishWeighted(s, "weight-reached") ELSE s
AdvanceShot(s) ==
  LET e == EvaluateWeight(s) IN
  IF ~Running(e) THEN e
  ELSE IF e.shot.elapsed + 1 < Duration(e)
  THEN EvaluateWeight([e EXCEPT !.shot.elapsed = @ + 1])
  ELSE IF e.shot.cutoff = NoWeight THEN FinishPlain(e, "completed")
  ELSE FinishWeighted(e, IF e.shot.fallback THEN "timer-fallback" ELSE "safety-cutoff")
AdvanceSettling(s) ==
  IF s.score.settled THEN s
  ELSE [s EXCEPT !.score.settling = Least(SettleLimit, @ + 1),
                 !.score.final = IF s.available THEN s.weight ELSE @,
                 !.score.settled = s.available /\ s.stable]

(* One step of time. *)
Toward(x, t) == IF x < t THEN x + 1 ELSE IF x > t THEN x - 1 ELSE x
AdvanceTemperature(s) ==
  [s EXCEPT !.raw = Toward(@, IF s.fault # "none" \/ Cooling(s) \/ ~s.heater
                              THEN Ambient ELSE RawTarget(s))]
AdvanceClock(s) ==
  [s EXCEPT !.soak = Older(@), !.readyAt = Older(@),
            !.cal.idle = IF s.cal = NoCal THEN 0 ELSE Least(Lease, @ + 1)]
AdvanceCooldownUncut(s) ==             \* mutant: no limit on the pump
  IF s.cool.status = "pumping" THEN
    IF Effective(s) <= s.cool.target THEN EnterStabilization(s, "target-reached") ELSE s
  ELSE IF s.cool.status = "stabilizing" THEN [s EXCEPT !.cool.status = "terminal"] ELSE s
AdvanceCooldown(s) ==
  IF s.cool.status = "pumping" THEN
    LET c == [s EXCEPT !.cool.pumped = Least(PumpLimit, @ + 1)] IN
    IF Effective(c) <= c.cool.target THEN EnterStabilization(c, "target-reached")
    ELSE IF c.cool.pumped >= PumpLimit THEN EnterStabilization(c, "cutoff") ELSE c
  ELSE IF s.cool.status = "stabilizing" THEN
    LET t == Least(Stabilization, s.cool.settled + 1) IN
    [s EXCEPT !.cool.settled = t, !.cool.status = IF t >= Stabilization THEN "terminal" ELSE @]
  ELSE s
EndSoak(s) ==
  IF s.mode # "steam" /\ Effective(s) <= s.targets.brew THEN [s EXCEPT !.soak = None] ELSE s
TrackReady(s) ==
  [s EXCEPT !.ready = IF s.fault = "none" /\ s.cal = NoCal /\ AtTarget(s)
                      THEN Least(ReadyHold, @ + 1) ELSE 0]
TrackSteamReady(s) ==
  IF s.mode = "steam" /\ s.ready >= ReadyHold /\ s.readyAt = None
  THEN [s EXCEPT !.readyAt = 0] ELSE s
(* The machine after a power cycle and after a reset. *)
ResetVolatile(s) ==
  [s EXCEPT !.mode = "brew", !.raw = Ambient, !.heater = TRUE, !.fault = "none", !.ready = 0,
            !.left = None, !.soak = None, !.readyAt = None, !.shot = NoShot, !.end = NoEnd,
            !.scaleBusy = FALSE, !.score = NoScore, !.warning = 0, !.runs = 0,
            !.cool = NoCooldown, !.cal = NoCal, !.expired = 0, !.armed = {},
            !.failCal = FALSE, !.failSteam = FALSE]
PowerCycled(s) ==
  LET v == ResetVolatile(s)
      c == IF s.calCorrupt THEN InjectFault([v EXCEPT !.offset = 0, !.recorded = FALSE],
                                             "internal_error") ELSE v
  IN IF s.steamCorrupt THEN InjectFault(c, "internal_error") ELSE c

(* The state an answer carries: what each getter makes of the machine. *)
OrNull(x) == IF x = None THEN Null ELSE x
State(s) ==
  [status |-> IF s.fault # "none" THEN "fault" ELSE IF s.ready >= ReadyHold THEN "ready" ELSE "heating",
   mode |-> s.mode, brew |-> s.targets.brew, steam |-> s.targets.steam,
   heaterEnabled |-> s.heater, heaterActive |-> HeaterActive(s),
   fault |-> IF s.fault = "none" THEN Null ELSE s.fault, remaining |-> OrNull(s.left),
   control |-> LET lift == IF s.mode = "steam" THEN SteamLift(s) ELSE 0
               IN [applied |-> lift, compensating |-> lift > 0, soak |-> OrNull(s.soak)]]
SafeBounds(offset) ==
  [brew |-> Least(Max(BrewRange), RawOver + offset),
   steam |-> Least(Max(SteamRange), RawOver + offset)]
CalibrationState(s) ==
  [status |-> IF s.cal # NoCal THEN "calibrating" ELSE IF s.recorded THEN "calibrated" ELSE "uncalibrated",
   offset |-> s.offset, bounds |-> SafeBounds(s.offset), candidate |-> s.cal.candidate,
   preview |-> Reference - s.cal.candidate, leased |-> Lease - s.cal.idle,
   previewBounds |-> SafeBounds(Reference - s.cal.candidate)]
PumpCommand(s) == IF Phase(s) = "soak" THEN "off" ELSE "running"
ExtractionState(s) ==
  IF ~Running(s)
  THEN [status |-> "idle", id |-> IF s.end = NoEnd THEN Null ELSE s.end.id, phase |-> "idle",
        selection |-> IF s.end = NoEnd THEN Null ELSE s.end.selection, remaining |-> Null, pump |-> "off",
        outcome |-> IF s.end = NoEnd THEN Null ELSE s.end.outcome]
  ELSE [status |-> "running", id |-> s.shot.id, phase |-> Phase(s), selection |-> s.shot.selection,
        elapsed |-> s.shot.elapsed,
        remaining |-> IF Duration(s) = ShotLimit THEN ShotLimit - s.shot.elapsed
                      ELSE Least(Duration(s), Duration(s) - s.shot.elapsed),
        pump |-> PumpCommand(s), outcome |-> Null]
CompensationState(s) ==
  IF Compensating(s) THEN [status |-> "active", phase |-> Phase(s)]
  ELSE [status |-> "inactive", phase |-> Null]
CooldownState(s) ==
  LET c == s.cool
      spent == IF c.status = "pumping" THEN c.pumped ELSE c.pumped + c.settled IN
  [status |-> IF Cooling(s) THEN c.status ELSE "idle", inhibited |-> Cooling(s), elapsed |-> spent,
   id |-> IF c = NoCooldown THEN Null ELSE c.key, target |-> OrNull(c.target),
   remaining |-> CASE c.status = "pumping" -> PumpLimit - c.pumped
                   [] c.status = "stabilizing" -> Stabilization - c.settled [] OTHER -> Null,
   outcome |-> IF c.outcome = "none" THEN Null ELSE c.outcome]
ScaleState(s) ==
  [availability |-> IF ~s.available THEN "unavailable" ELSE IF s.stable THEN "ready" ELSE "unstable",
   calibration |-> IF s.scaleBusy THEN "calibrating"
                   ELSE IF s.calibrated THEN "calibrated" ELSE "uncalibrated",
   active |-> IF ~Running(s) \/ s.shot.cutoff = NoWeight THEN Null
              ELSE [mode |-> IF s.shot.fallback THEN "timer-fallback" ELSE "weight"],
   terminal |-> IF s.score = NoScore THEN Null ELSE s.score, warning |-> s.warning]
StateV3(s) ==
  [machine |-> State(s), scale |-> ScaleState(s), calibration |-> CalibrationState(s),
   extraction |-> ExtractionState(s), compensation |-> CompensationState(s),
   cooldown |-> CooldownState(s)]

Init ==
  /\ client \in Routes
  /\ m = [mode |-> "brew", raw |-> Ambient, targets |-> FactoryTargets, offset |-> 0, recorded |-> FALSE,
          steam |-> FactorySteam, steamCorrupt |-> FALSE, calCorrupt |-> FALSE,
          failSteam |-> FALSE, failCal |-> FALSE, armed |-> {}, soak |-> None,
          readyAt |-> None, left |-> None, heater |-> TRUE, fault |-> "none", ready |-> 0,
          cal |-> NoCal, expired |-> 0, cals |-> 0, cool |-> NoCooldown, shot |-> NoShot,
          end |-> NoEnd, score |-> NoScore, warning |-> 0, runs |-> 0, scaleBusy |-> FALSE, hashing |-> FALSE,
          calibrated |-> FALSE, available |-> TRUE, stable |-> TRUE, weight |-> 0]

(* A state request, and the state every answer carries, expire the calibration. *)
Answer(s) == m' = ExpireCalibration(s) /\ UNCHANGED client
(* Every mutating route first ends a calibration, and then answers a conflict. *)
Conflict == m.cal # NoCal /\ m' = RestoreBrew(m) /\ UNCHANGED client

GetState == "state" \in client /\ Answer(m)

(* Settings: steam control is saved before the targets change, or nothing is. *)
AdoptTargets(s, t) ==
  [s EXCEPT !.targets = t, !.ready = IF t[s.mode] # s.targets[s.mode] THEN 0 ELSE @]
SaveSteamStale(s, settings) ==         \* mutant: a running timer keeps its old end
  IF "heater-off" \in s.armed \/ s.failSteam THEN InjectFault(s, "internal_error")
  ELSE [s EXCEPT !.steam = settings, !.steamCorrupt = FALSE]
SaveSteam(s, settings) ==
  LET off == [s EXCEPT !.armed = @ \ {"heater-off"}] IN
  IF "heater-off" \in s.armed THEN InjectFault(off, "internal_error")
  ELSE IF s.failSteam THEN InjectFault([off EXCEPT !.failSteam = FALSE], "internal_error")
  ELSE RefreshSteam([off EXCEPT !.steam = settings, !.steamCorrupt = FALSE])
PatchSettings ==
  /\ "settings" \in client
  /\ \/ Conflict
     \/ \E t \in TargetPairs :
          m.cal = NoCal /\ Reachable(m.offset, t) /\ Answer(AdoptTargets(m, t))
     \/ \E t \in TargetPairs \cup {m.targets}, settings \in SteamSettings :
          /\ m.cal = NoCal /\ Reachable(m.offset, t) /\ m.fault = "none"
          /\ LET saved == SaveSteam(m, settings)
             IN Answer(IF saved.fault = "none" THEN AdoptTargets(saved, t) ELSE saved)

SetMode(s, mode) ==
  IF s.mode = mode THEN s
  ELSE [s EXCEPT !.mode = mode, !.ready = 0, !.left = None, !.readyAt = None,
                 !.soak = IF mode = "steam" /\ @ = None THEN 0 ELSE @]
PutMode ==
  /\ "mode" \in client
  /\ \/ Conflict
     \/ \E mode \in {"brew", "steam"} :
          /\ m.cal = NoCal /\ m.fault = "none"
          /\ mode = "steam" => ~Running(m) /\ ~Cooling(m)
          /\ Answer(SetMode(m, mode))

SetHeater(s, on) == [s EXCEPT !.heater = on, !.ready = IF on THEN @ ELSE 0]
PutHeater ==
  /\ "heater" \in client
  /\ \/ Conflict
     \/ m.cal = NoCal /\ \E on \in BOOLEAN : Answer(SetHeater(m, on))

Dismissable(s) ==
  /\ s.fault = "over_temperature"
  /\ Effective(s) <= ActiveTarget(s) /\ s.raw <= RawOver /\ ~OverTemperature(s)
Dismiss ==
  "dismiss" \in client /\ Dismissable(m) /\ Answer([m EXCEPT !.fault = "none", !.ready = 0])

(* Temperature calibration: each route but the first names its session. *)
CanCalibrate(s) ==
  /\ s.cal = NoCal /\ s.fault = "none" /\ s.heater /\ s.mode # "steam"
  /\ ~Running(s) /\ ~Cooling(s) /\ ~s.scaleBusy
StartCalibration ==
  /\ "calibration" \in client /\ m.cals < MaxId
  /\ LET s == ExpireCalibration(m) IN
     IF ~CanCalibrate(s) THEN Answer(s)
     ELSE Answer([s EXCEPT !.cals = @ + 1, !.expired = 0, !.ready = 0, !.left = None,
                           !.cal = [id |-> s.cals + 1, candidate |-> Reference - s.offset,
                                    idle |-> 0]])
(* renewTemperatureCalibration: only the session's own identifier renews it. *)
Renewed(id) ==
  LET s == ExpireCalibration(m) IN
  IF s.cal # NoCal /\ s.cal.id = id THEN [s EXCEPT !.cal.idle = 0] ELSE s
Owns(id) == Renewed(id).cal # NoCal /\ Renewed(id).cal.id = id
RenewLease == "calibration" \in client /\ \E id \in 1..m.cals : Answer(Renewed(id))
PatchCandidate ==
  /\ "calibration" \in client
  /\ \E id \in 1..m.cals, candidate \in Candidates :
       IF ~Owns(id) THEN Answer(Renewed(id))
       ELSE Answer([Renewed(id) EXCEPT !.cal.candidate = candidate, !.ready = 0])
SaveCalibration ==
  /\ "calibration" \in client
  /\ \E id \in 1..m.cals :
       LET s == Renewed(id)
           offset == Reference - s.cal.candidate IN
       IF ~Owns(id) \/ ~Reachable(offset, s.targets) THEN Answer(s)
       ELSE IF s.failCal THEN Answer([s EXCEPT !.failCal = FALSE])
       ELSE Answer([s EXCEPT !.offset = offset, !.recorded = TRUE, !.cal = NoCal, !.mode = "brew",
                             !.ready = 0])
CancelCalibration ==
  /\ "calibration" \in client
  /\ \E id \in 1..m.cals : Answer(IF Owns(id) THEN RestoreBrew(Renewed(id)) ELSE Renewed(id))

(* Scale calibration and the scale's warning. *)
CanStartScale(s) == ~Workflow(s) /\ s.available /\ s.stable
CanCompleteScale(s) == s.scaleBusy /\ s.available /\ s.stable
StartScale ==
  /\ "scale" \in client
  /\ \/ Conflict
     \/ m.cal = NoCal /\ CanStartScale(m) /\ Answer([m EXCEPT !.scaleBusy = TRUE])
CompleteScale ==
  /\ "scale" \in client /\ CanCompleteScale(m)
  /\ Answer([m EXCEPT !.calibrated = TRUE, !.scaleBusy = FALSE])
CancelScale == "scale" \in client /\ Answer([m EXCEPT !.scaleBusy = FALSE])
AcknowledgeWarning == "extraction" \in client /\ Answer([m EXCEPT !.warning = 0])

(* Extraction. *)
CanStart(s, cutoff) ==
  /\ ~Running(s) /\ ~Cooling(s) /\ s.mode = "brew"
  /\ cutoff # NoWeight => s.warning = 0 /\ s.calibrated /\ s.available /\ s.stable
StartExtraction ==
  /\ "extraction" \in client
  /\ \/ Conflict
     \/ \E key \in Keys, selection \in Profiles \cup {Manual}, cutoff \in Cutoffs \cup {NoWeight} :
          /\ m.cal = NoCal /\ m.runs < MaxId
          /\ selection = Manual => cutoff = NoWeight
          /\ m.end.key # key /\ CanStart(m, cutoff)
          /\ Answer([m EXCEPT
               !.runs = @ + 1, !.end = NoEnd,
               !.score = IF cutoff = NoWeight THEN @ ELSE NoScore,
               !.shot = [id |-> m.runs + 1, key |-> key, selection |-> selection, elapsed |-> 0,
                         tare |-> IF cutoff = NoWeight THEN 0 ELSE m.weight,
                         cutoff |-> cutoff, fallback |-> FALSE]])
StopExtraction ==
  /\ "extraction" \in client /\ Running(m)
  /\ Answer(IF m.shot.cutoff = NoWeight THEN FinishPlain(m, "stopped")
            ELSE FinishWeighted(m, "stopped"))

(* Cooldown.  A repeated key is answered with the cooldown it started. *)
CanCool(s) == ~Workflow(s) /\ s.fault = "none" /\ Effective(s) > s.targets.brew
CooldownStarted(s, key) ==
  LET started == [s EXCEPT !.cool = [NoCooldown EXCEPT !.status = "pumping", !.key = key,
                                                       !.target = s.targets.brew],
                           !.mode = "brew", !.ready = 0, !.left = None]
  IN IF "heater-off" \in s.armed \/ "pump-running" \in s.armed
     THEN AbortCooldown([started EXCEPT
            !.armed = @ \ (IF "heater-off" \in s.armed THEN {} ELSE {"pump-running"})])
     ELSE started
StartCooldown ==
  /\ "cooldown" \in client
  /\ \/ Conflict
     \/ \E key \in Keys : /\ m.cal = NoCal /\ m.cool.key # key /\ CanCool(m)
                          /\ Answer(CooldownStarted(m, key))
StopCooldown == "cooldown" \in client /\ Answer(EnterStabilization(m, "stopped"))

(* A firmware update is refused by a machine that is not idle.  Its digest is  *)
(* computed with other requests in between, and then the heater is turned off. *)
UpdateFirmware ==
  /\ "firmware" \in client /\ ~m.hashing
  /\ LET s == ExpireCalibration(m) IN
       m' = [s EXCEPT !.hashing =
               ~Workflow(s) /\ s.cal = NoCal /\ ~s.scaleBusy]
  /\ UNCHANGED client
Hashed ==
  /\ m.hashing
  /\ \E matches \in BOOLEAN :
       m' = [(IF matches THEN SetHeater(m, FALSE) ELSE m) EXCEPT !.hashing = FALSE]
  /\ UNCHANGED client

(* The control routes: time, the boiler, the scale and injected failures. *)
(* advanceStep: each stage is bound before the next reads it. *)
Advance ==
  /\ \E heated \in {AdvanceClock(AdvanceTemperature(m))} :
     \E safe \in {EvaluateSafety(ExpireCalibration(heated))} :
     \E poured \in {AdvanceSettling(AdvanceShot(safe))} :
     \E cooled \in {EndSoak(AdvanceCooldown(poured))} :
       m' = RefreshSteam(TrackSteamReady(TrackReady(cooled)))
  /\ UNCHANGED client
SetTemperature ==
  /\ "boiler" \in client
  /\ \E raw \in Raws :
       LET s == [m EXCEPT !.raw = raw]
           c == IF Effective(s) <= s.cool.target THEN EnterStabilization(s, "target-reached") ELSE s
           e == EvaluateSafety(c)
       IN m' = (IF AtTarget(e) THEN e ELSE [e EXCEPT !.ready = 0])
  /\ UNCHANGED client
SetScale ==
  /\ "weight" \in client
  /\ \E available, stable \in BOOLEAN, weight \in Weights :
       m' = EvaluateWeight([m EXCEPT !.available = available, !.stable = stable, !.weight = weight])
  /\ UNCHANGED client
PutFault ==
  /\ "fault" \in client
  /\ \E fault \in {"sensor_failure", "over_temperature", "heating_timeout", "internal_error"} :
       m' = InjectFault(m, fault)
  /\ UNCHANGED client
FailNext ==
  /\ "failures" \in client
  /\ \/ \E command \in {"heater-off", "pump-running", "pump-off"} :
          m' = [m EXCEPT !.armed = @ \cup {command}]
     \/ m' = [m EXCEPT !.failCal = TRUE]
     \/ m' = [m EXCEPT !.failSteam = TRUE]
  /\ UNCHANGED client
CorruptStorage ==
  /\ "storage" \in client
  /\ \/ m' = [m EXCEPT !.calCorrupt = TRUE]
     \/ m' = [m EXCEPT !.steamCorrupt = TRUE]
  /\ UNCHANGED client
PowerCycle == "power" \in client /\ m' = PowerCycled(m) /\ UNCHANGED client
Reset ==
  /\ "power" \in client
  /\ m' = [ResetVolatile(m) EXCEPT !.targets = FactoryTargets, !.calibrated = FALSE, !.offset = 0,
             !.recorded = FALSE, !.calCorrupt = FALSE, !.steam = FactorySteam, !.steamCorrupt = FALSE]
  /\ UNCHANGED client

Next ==
  \/ GetState \/ PatchSettings \/ PutMode \/ PutHeater \/ Dismiss
  \/ StartCalibration \/ RenewLease \/ PatchCandidate \/ SaveCalibration \/ CancelCalibration
  \/ StartScale \/ CompleteScale \/ CancelScale \/ AcknowledgeWarning
  \/ StartExtraction \/ StopExtraction \/ StartCooldown \/ StopCooldown
  \/ UpdateFirmware \/ Hashed
  \/ Advance \/ SetTemperature \/ SetScale \/ PutFault \/ FailNext \/ CorruptStorage
  \/ PowerCycle \/ Reset
Spec == Init /\ [][Next]_vars
FairSpec == Spec /\ WF_vars(Advance)

-----------------------------------------------------------------------------

(* Every answer the machine can be asked for is one the protocol admits, so    *)
(* that its parse never throws in the simulator or in the app: no fault beside *)
(* a running cooldown, no cooldown beside a shot or the heater, no calibration *)
(* without a record.  The failed cooldown is FailedCooldownFaults' question.   *)
AnswersFit ==
  LET answer == StateV3(ExpireCalibration(m))
  IN Schema!FailedCooldownIsFaulted(answer) => Schema!StateV3(answer)

(* schemas.ts says that a failed cooldown is acknowledged only beside the      *)
(* fault that keeps heating suppressed; dismissOverTemperature clears the      *)
(* fault and keeps the cooldown's outcome.                                     *)
FailedCooldownFaults == Schema!FailedCooldownIsFaulted(StateV3(ExpireCalibration(m)))

(* A steam timer that is shown runs from the moment steam was ready, under    *)
(* the settings now in force, and only in steam.                              *)
SteamTimerIsTrue ==
  m.left # None => /\ m.mode = "steam" /\ m.readyAt # None
                   /\ m.left = m.steam.timeout - m.readyAt /\ m.left > 0

(* A fault stays until it is dismissed, which only an over-temperature can be *)
(* and only once its cause is gone, or until the power is cycled: no failure  *)
(* that follows, of a cooldown or of a save, puts another in its place.       *)
FaultIsKept ==
  [][m.fault # "none" /\ m'.fault # m.fault =>
       \/ Dismissable(m) /\ m'.fault = "none"
       \/ PowerCycle \/ Reset]_vars

(* A shot keeps the promise the firmware's shots keep: the pump follows the   *)
(* phases of the profile, each after the one before it.                       *)
Underscored(phase) ==
  IF phase = "pre-infusion" THEN "pre_infusion"
  ELSE IF phase = "main-extraction" THEN "main_extraction" ELSE phase
Promise == INSTANCE Shot WITH
  phase <- IF Running(m) THEN Underscored(Phase(m)) ELSE "idle",
  pump <- IF Running(m) THEN PumpCommand(m) ELSE "off"
PumpPromise == Promise!SafeSpec

(* While time advances, every shot and every cooldown ends, whatever the      *)
(* scale reports and the clients ask.                                         *)
WorkflowsEnd ==
  /\ Running(m) ~> ~Running(m)
  /\ Cooling(m) ~> ~Cooling(m)
=============================================================================
