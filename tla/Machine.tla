------------------------------- MODULE Machine -------------------------------
(***************************************************************************)
(* The firmware's shared control state and the tasks that change it: the    *)
(* temperature loop and the workflow task (app_main.cpp), the scale task,    *)
(* and the one HTTP server task behind FirmwareApi (api.cpp), which saves    *)
(* settings and calibrations to NVS between two turns of the mutex.         *)
(*                                                                         *)
(* Every turn of the workflow mutex is one step: holders only copy and       *)
(* transition.  What happens between two turns of one task - an NVS save,    *)
(* a clock read before the wait - is a state of its own in `api`.  A wait    *)
(* of 50 ms that fails is MissLock for a task that then does nothing more,   *)
(* and an outcome of its own inside a request.                              *)
(*                                                                         *)
(* The clock ticks with the temperature loop's period: the loop has the      *)
(* highest priority and takes its turn before the next tick.  A loop that    *)
(* stalls is the subject of HeaterOutput; here its lease simply trips.      *)
(*                                                                         *)
(* Extraction is reduced to its phase, in any order (Extraction has the      *)
(* rest).  A failing save leaves the old record.  A world bounds a          *)
(* behaviour: the kinds of request its clients send, the temperatures it    *)
(* reads, the steam settings its clients choose.                            *)
(***************************************************************************)
EXTENDS CooldownController

CONSTANTS
  Worlds,        \* the bounds of the behaviours
  DefaultSteam   \* SteamControlSettings{}

RequestKinds == {"mode", "heater", "dismiss", "settings", "calibration",
                 "cooldown", "extraction"}

ASSUME WorldsAssumption ==
  Worlds \subseteq [requests : SUBSET RequestKinds, raw : SUBSET Raw,
                     steam : SUBSET SteamSettings]
ASSUME DefaultsAssumption ==
  DefaultSteam \in SteamSettings /\ Reachable(DefaultTargets, 0)

VARIABLES
  world,            \* what may happen
  ctl, cool, pump,  \* the controllers' parts of the record m
  shot,             \* ExtractionController's phase
  tripped,          \* the heater's safety lease has tripped
  inhibited,        \* the outputs' emergency_inhibited_
  failSafe,         \* fail_safe_requested
  due,              \* the temperature loop has this period's turn to take
  api,              \* where the HTTP task stands in its request
  req,              \* what that request saves
  nvs,              \* the persisted settings
  lost              \* what is persisted is not what the controller adopted

state == <<ctl, cool, pump, shot, tripped, inhibited, failSafe, due, api, req,
           nvs, lost>>
vars == <<world, state>>

Requests == world.requests
Readings == world.raw \cup {Bad}

Free == {"idle", "saved", "unsaved"}
InTransaction ==
  {"settings", "save_targets", "save_steam", "restore", "rollback", "torn",
   "adopt", "save_calibration", "rollback_calibration", "adopt_calibration"}
InStop == {"stop", "overtaken"}

IsStored(s) ==
  /\ DOMAIN s = {"targets", "steam", "offset"}
  /\ s.targets \in TargetPairs /\ s.steam \in SteamSettings
  /\ s.offset \in Offsets

TypeOK ==
  /\ world \in Worlds
  /\ IsController(ctl) /\ IsCooldown(cool) /\ IsPump(pump)
  /\ shot \in Phases
  /\ tripped \in BOOLEAN /\ inhibited \in BOOLEAN /\ failSafe \in BOOLEAN
  /\ due \in BOOLEAN /\ lost \in BOOLEAN
  /\ api \in Free \cup InTransaction \cup InStop
  /\ IsStored(req) /\ IsStored(nvs)

M == [ctl |-> ctl, cool |-> cool, pump |-> pump]
Become(m) == ctl' = m.ctl /\ cool' = m.cool /\ pump' = m.pump

(* Boot: the stored settings are loaded, cooldown.reset runs, and the        *)
(* startup reading gets the first update.                                   *)
Booted(stored, reading, pulse) ==
  Update(Construct(stored.targets, stored.steam, stored.offset), reading,
         FALSE, TRUE, TRUE, pulse)

Boot(stored) ==
  /\ cool = NoCooldown /\ pump = StoppedPump /\ shot = "idle"
  /\ tripped = FALSE /\ inhibited = FALSE /\ failSafe = FALSE /\ due = FALSE
  /\ api = "idle" /\ req = stored /\ lost = FALSE

(* A machine that has not been set up yet, or one calibrated earlier.       *)
Init ==
  /\ world \in Worlds
  /\ \E offset \in Offsets, reading \in Readings, pulse \in BOOLEAN :
    /\ Reachable(DefaultTargets, offset)
    /\ nvs = [targets |-> DefaultTargets, steam |-> DefaultSteam,
              offset |-> offset]
    /\ ctl = Booted(nvs, reading, pulse)
    /\ Boot(nvs)

-----------------------------------------------------------------------------
(* The temperature loop and the workflow task.                              *)

(* fail_safe_requested, taken by whichever of the two has its turn first:    *)
(* latch, stop the extraction, fail an active cooldown.                     *)
Consume(m, pumped, heated) ==
  LET latched == [m EXCEPT !.ctl = LatchFault(@, "internal_error"),
                           !.pump = PumpOff(m, pumped)]
  IN IF Active(m) THEN UpdateCooldown(latched, pumped, heated) ELSE latched

TemperatureUpdate ==
  /\ due /\ due' = FALSE
  /\ \E reading \in Readings,
        released, ok, pulse, pumped, heated \in BOOLEAN :
       LET m == IF failSafe THEN Consume(M, pumped, heated) ELSE M IN
       /\ released \/ SessionExpired(ctl)   \* no outcome of a call not made
       /\ failSafe \/ (pumped /\ heated)
       /\ Become([m EXCEPT
            !.ctl = Update(@, reading, tripped, released, ok, pulse)])
  /\ failSafe' = FALSE
  /\ shot' = IF failSafe THEN "idle" ELSE shot
  /\ UNCHANGED <<tripped, inhibited, api, req, nvs, lost>>

(* ExtractionController::update reduced to what the others can see of it: a *)
(* phase and its pump command, the end of the shot, or an output failure.    *)
Pumping(phase) == phase \notin {"idle", "soak"}
PumpFor(phase) == IF Pumping(phase) THEN RunningPump ELSE StoppedPump
PumpIsOff == ~pump.running /\ ~pump.unknown
MayPump(phase) == ~Pumping(phase) \/ (~inhibited /\ ~pump.unknown)

AdvanceShot(phase) ==
  /\ phase = shot \/ shot # "idle"
  /\ phase = shot \/ MayPump(phase)
  /\ pump' = IF phase = shot /\ (phase # "idle" \/ PumpIsOff) THEN pump
             ELSE PumpFor(phase)
  /\ shot' = phase
  /\ ctl' = SetExtractionPhase(ctl, phase)

FailShot ==
  /\ shot # "idle" \/ ~PumpIsOff
  /\ \E pumped \in BOOLEAN : pump' = PumpOff(M, pumped)
  /\ shot' = "idle"
  /\ ctl' = LatchFault(SetExtractionPhase(ctl, "idle"), "internal_error")

(* Entering the stabilization overtakes a Stop that has read its clock.      *)
Overtake == api' = IF api = "stop" /\ cool'.status = "stabilizing"
                      /\ cool.status = "pumping" THEN "overtaken" ELSE api

WorkflowTurn(outcomes) ==
  /\ IF failSafe \/ Active(M)
     THEN /\ \E pumped, heated \in outcomes :
               LET m == IF failSafe THEN Consume(M, pumped, heated)
                                    ELSE UpdateCooldown(M, pumped, heated)
               IN Become([m EXCEPT !.ctl = SetExtractionPhase(@, "idle")])
          /\ shot' = IF failSafe THEN "idle" ELSE shot
     ELSE ((\E phase \in Phases : AdvanceShot(phase)) \/ FailShot)
            /\ UNCHANGED cool
  /\ failSafe' = FALSE
  /\ Overtake
  /\ UNCHANGED <<tripped, inhibited, due, req, nvs, lost>>

WorkflowUpdate == WorkflowTurn(BOOLEAN)

-----------------------------------------------------------------------------
(* A missed mutex: emergency_off on both outputs, and the flag.             *)

Emergency ==
  /\ inhibited' = TRUE /\ failSafe' = TRUE
  /\ ctl' = [ctl EXCEPT !.heat = FALSE]
  /\ \E pumped \in BOOLEAN : pump' = PumpOff(M, pumped)
  /\ UNCHANGED <<cool, shot, tripped>>

(* The temperature loop loses its turn with the mutex.                      *)
MissLock ==
  /\ Emergency
  /\ due' \in {due, FALSE}
  /\ UNCHANGED <<api, req, nvs, lost>>

-----------------------------------------------------------------------------
(* API requests that take one turn of the mutex.                            *)

Request(kind) ==
  /\ kind \in Requests /\ api \in Free /\ api' = "idle"
  /\ UNCHANGED <<tripped, inhibited, failSafe, due, req, nvs, lost>>

OnlyControl == UNCHANGED <<cool, pump, shot>>

(* Mutant of AbortOr: an open calibration is not ended.                     *)
ProceedAnyway(ok, next) == ok \in BOOLEAN /\ ctl' = next

(* Every mutation first ends an open calibration, and then refuses.         *)
AbortOr(ok, next) ==
  ctl' = IF Calibrating(ctl) THEN Abort(ctl, ok) ELSE next

RequestMode(mode) ==
  /\ Request("mode") /\ OnlyControl
  /\ LET refused == Faulted(ctl)
                      \/ (mode = "steam" /\ (shot # "idle" \/ Active(M)))
     IN \E ok \in BOOLEAN :
          AbortOr(ok, IF refused THEN ctl ELSE SetMode(ctl, mode, ok))

RequestHeater(enabled) ==
  /\ Request("heater") /\ OnlyControl
  /\ \E ok \in BOOLEAN : AbortOr(ok, SetHeaterEnabled(ctl, enabled, tripped))

RequestDismiss ==
  /\ Request("dismiss") /\ OnlyControl
  /\ \E ok, pulse \in BOOLEAN :
       ctl' = Dismiss(ctl, tripped, ok /\ ~inhibited, pulse)

(* state_v3 ends a session whose lease has run out.                         *)
Poll ==
  /\ Request("calibration") /\ OnlyControl
  /\ \E ok \in BOOLEAN : ctl' = Expire(ctl, ok)

RequestStartCalibration ==
  /\ Request("calibration") /\ OnlyControl
  /\ shot = "idle" /\ ~Active(M)
  /\ \E ok \in BOOLEAN :
       LET c == Expire(ctl, ok)
       IN ctl' = IF CanStartCalibration(c) THEN StartCalibration(c, ok) ELSE c

RequestCandidate(candidate) ==
  /\ Request("calibration") /\ OnlyControl
  /\ \E ok \in BOOLEAN :
       LET c == Expire(ctl, ok)
       IN ctl' = IF CanRenew(c) THEN SetCandidate(c, candidate, ok) ELSE c

RequestRenew ==
  /\ Request("calibration") /\ OnlyControl
  /\ \E ok \in BOOLEAN :
       LET c == Expire(ctl, ok) IN ctl' = IF CanRenew(c) THEN Renew(c) ELSE c

RequestCancel ==
  /\ Request("calibration") /\ OnlyControl
  /\ \E ok \in BOOLEAN :
       LET c == Expire(ctl, ok)
       IN ctl' = IF CanRenew(c) THEN RestoreOrdinaryBrew(c, ok) ELSE c

FirstPhases == {"manual", "pre_infusion", "main_extraction"}

RequestStartShot(phase) ==
  /\ Request("extraction")
  /\ UNCHANGED cool
  /\ IF Calibrating(ctl) \/ Active(M) \/ ctl.mode # "brew" \/ shot # "idle"
     THEN (\E ok \in BOOLEAN : AbortOr(ok, ctl)) /\ UNCHANGED <<shot, pump>>
     ELSE \/ MayPump(phase) /\ shot' = phase /\ pump' = PumpFor(phase)
               /\ UNCHANGED ctl
          \/ /\ \E pumped \in BOOLEAN : pump' = PumpOff(M, pumped)
             /\ ctl' = LatchFault(ctl, "internal_error")
             /\ UNCHANGED shot

RequestStopShot ==
  /\ Request("extraction") /\ ~Active(M)
  /\ UNCHANGED cool
  /\ shot' = "idle"
  /\ \E pumped \in BOOLEAN :
       /\ pump' = PumpOff(M, pumped)
       /\ ctl' = IF pumped THEN ctl ELSE LatchFault(ctl, "internal_error")

RequestStartCooldown(key) ==
  /\ Request("cooldown")
  /\ UNCHANGED shot
  /\ IF ~Calibrating(ctl) /\ CanStart(M, key, shot # "idle")
     THEN \E started, pumped, heated \in BOOLEAN :
            Become(Start(M, key, started /\ ~inhibited, pumped, heated))
     ELSE (\E ok \in BOOLEAN : AbortOr(ok, ctl)) /\ UNCHANGED <<cool, pump>>

-----------------------------------------------------------------------------
(* Stopping a cooldown: the clock is read before the wait for the mutex.     *)

RequestStop ==
  /\ "cooldown" \in Requests /\ api \in Free /\ api' = "stop"
  /\ UNCHANGED <<ctl, cool, pump, shot, tripped, inhibited, failSafe, due, req,
                 nvs, lost>>

StopCooldown ==
  /\ api \in InStop /\ api' = "idle"
  /\ \E wrapped, pumped, heated \in BOOLEAN :
       /\ wrapped => api = "overtaken"
       /\ Become(Stop(M, wrapped, pumped, heated))
  /\ UNCHANGED <<shot, tripped, inhibited, failSafe, due, req, nvs, lost>>

-----------------------------------------------------------------------------
(* update_settings: check, prepare, save the targets, save the steam         *)
(* settings, and adopt both; or put the targets back and roll back.         *)

OutsideTheMutex ==
  UNCHANGED <<ctl, cool, pump, shot, tripped, inhibited, failSafe, due>>
InsideTheMutex ==
  UNCHANGED <<cool, pump, shot, tripped, inhibited, failSafe, due>>

RequestSettings(targets, steam) ==
  /\ "settings" \in Requests /\ api \in Free
  /\ targets # ctl.targets \/ steam # ctl.steam
  /\ IF Calibrating(ctl) \/ Faulted(ctl)
     THEN /\ \E ok \in BOOLEAN : AbortOr(ok, ctl)
          /\ api' = "idle" /\ UNCHANGED req
     ELSE /\ api' = "settings"
          /\ req' = [req EXCEPT !.targets = targets, !.steam = steam]
          /\ UNCHANGED ctl
  /\ InsideTheMutex /\ UNCHANGED <<nvs, lost>>

TargetsChange == req.targets # ctl.targets
SteamChanges  == req.steam # ctl.steam

PrepareRequest ==
  /\ api = "settings"
  /\ \E ok \in BOOLEAN :
       IF CanPrepareSettings(ctl, req.targets)
       THEN /\ ctl' = PrepareSettings(ctl, req.targets, req.steam, ok)
            /\ api' = IF ok THEN "save_targets" ELSE "idle"
       ELSE api' = "idle" /\ UNCHANGED ctl
  /\ InsideTheMutex /\ UNCHANGED <<req, nvs, lost>>

(* Mutant of SaveTargets: a failing save goes unnoticed.                    *)
SaveTargetsBlindly ==
  /\ api = "save_targets" /\ api' = "save_steam"
  /\ nvs' \in {nvs, [nvs EXCEPT !.targets = req.targets]}
  /\ OutsideTheMutex /\ UNCHANGED <<req, lost>>

SaveTargets ==
  /\ api = "save_targets"
  /\ \/ ~TargetsChange /\ api' = "save_steam" /\ UNCHANGED nvs
     \/ TargetsChange /\ api' = "save_steam"
          /\ nvs' = [nvs EXCEPT !.targets = req.targets]
     \/ TargetsChange /\ api' = "rollback" /\ UNCHANGED nvs
  /\ OutsideTheMutex /\ UNCHANGED <<req, lost>>

(* Mutant of SaveSteam: a failing save leaves the new targets in NVS.        *)
SaveSteamAlone ==
  /\ api = "save_steam"
  /\ \/ ~SteamChanges /\ api' = "adopt" /\ UNCHANGED nvs
     \/ SteamChanges /\ api' = "adopt"
          /\ nvs' = [nvs EXCEPT !.steam = req.steam]
     \/ SteamChanges /\ api' = "rollback" /\ UNCHANGED nvs
  /\ OutsideTheMutex /\ UNCHANGED <<req, lost>>

SaveSteam ==
  /\ api = "save_steam"
  /\ \/ ~SteamChanges /\ api' = "adopt" /\ UNCHANGED nvs
     \/ SteamChanges /\ api' = "adopt"
          /\ nvs' = [nvs EXCEPT !.steam = req.steam]
     \/ SteamChanges /\ UNCHANGED nvs
          /\ api' = IF TargetsChange THEN "restore" ELSE "rollback"
  /\ OutsideTheMutex /\ UNCHANGED <<req, lost>>

(* Putting the targets back may fail as the save did.                       *)
RestoreTargets ==
  /\ api = "restore"
  /\ \/ nvs' = [nvs EXCEPT !.targets = ctl.targets] /\ api' = "rollback"
          /\ UNCHANGED lost
     \/ UNCHANGED nvs /\ api' = "torn" /\ lost' = TRUE
  /\ OutsideTheMutex /\ UNCHANGED req

RollbackRequest ==
  /\ api \in {"rollback", "torn"}
  /\ \E ok, okSteam \in BOOLEAN :
       /\ ctl' = RollbackSettings(ctl, ok)
       /\ api' = IF ok /\ okSteam /\ api = "rollback" THEN "unsaved" ELSE "idle"
  /\ InsideTheMutex /\ UNCHANGED <<req, nvs, lost>>

AdoptRequest ==
  /\ api = "adopt"
  /\ ctl' = AdoptSettings(ctl, req.targets, req.steam)
  /\ LET adopted == AdoptsTargets(ctl, req.targets)
                      /\ (~SteamChanges \/ ctl.steamUpdating)
     IN api' = (IF adopted THEN "saved" ELSE "idle")
          /\ lost' = (lost \/ ~adopted)
  /\ InsideTheMutex /\ UNCHANGED <<req, nvs>>

-----------------------------------------------------------------------------
(* save_temperature_calibration.                                            *)

RequestSaveCalibration ==
  /\ "calibration" \in Requests /\ api \in Free
  /\ \E ok, saves \in BOOLEAN :
       LET c == Expire(ctl, ok) IN
       IF CanRenew(c) /\ CanSaveCalibration(c)
       THEN /\ ctl' = PrepareCalibrationSave(c, saves)
            /\ api' = IF saves THEN "save_calibration" ELSE "idle"
            /\ req' = [req EXCEPT !.offset = CandidateOffset(c)]
       ELSE /\ ctl' = IF CanRenew(c) THEN Renew(c) ELSE c
            /\ api' = "idle" /\ UNCHANGED req
  /\ InsideTheMutex /\ UNCHANGED <<nvs, lost>>

SaveCalibration ==
  /\ api = "save_calibration"
  /\ \/ api' = "adopt_calibration" /\ nvs' = [nvs EXCEPT !.offset = req.offset]
     \/ api' = "rollback_calibration" /\ UNCHANGED nvs
  /\ OutsideTheMutex /\ UNCHANGED <<req, lost>>

RollbackCalibrationRequest ==
  /\ api = "rollback_calibration"
  /\ api' = IF ctl.calibration = "saving" THEN "unsaved" ELSE "idle"
  /\ ctl' = RollbackCalibration(ctl)
  /\ InsideTheMutex /\ UNCHANGED <<req, nvs, lost>>

AdoptCalibrationRequest ==
  /\ api = "adopt_calibration"
  /\ \E ok \in BOOLEAN : ctl' = AdoptCalibration(ctl, req.offset, ok)
  /\ LET adopted == CanAdoptCalibration(ctl, req.offset)
     IN api' = (IF adopted THEN "saved" ELSE "idle")
          /\ lost' = (lost \/ ~adopted)
  /\ InsideTheMutex /\ UNCHANGED <<req, nvs>>

(* A request that misses the mutex is answered internal_error where it      *)
(* stands: what it saved, or what it could not put back, stays so.          *)
MissInRequest ==
  /\ api \in {"settings", "rollback", "torn", "adopt", "rollback_calibration",
              "adopt_calibration"} \cup InStop
  /\ Emergency
  /\ api' = "idle"
  /\ lost' = (lost \/ api \in {"adopt", "adopt_calibration"})
  /\ UNCHANGED <<due, req, nvs>>

-----------------------------------------------------------------------------
(* The heater's lease, the clock, and a restart.                            *)

Trip ==
  /\ ctl.heat /\ ~tripped /\ tripped' = TRUE
  /\ UNCHANGED <<ctl, cool, pump, shot, inhibited, failSafe, due, api, req,
                 nvs, lost>>

Tick ==
  /\ ~due /\ due' = TRUE
  /\ Become(AgeCooldown([M EXCEPT !.ctl = Age(@)]))
  /\ UNCHANGED <<shot, tripped, inhibited, failSafe, api, req, nvs, lost>>

Restart ==
  /\ \E reading \in Readings, pulse \in BOOLEAN :
       ctl' = Booted(nvs, reading, pulse)
  /\ cool' = NoCooldown /\ pump' = StoppedPump /\ shot' = "idle"
  /\ tripped' = FALSE /\ inhibited' = FALSE /\ failSafe' = FALSE
  /\ due' = FALSE /\ api' = "idle" /\ req' = nvs
  /\ lost' = ~Reachable(nvs.targets, nvs.offset)
  /\ UNCHANGED nvs

Serve ==
  \/ \E mode \in Modes : RequestMode(mode)
  \/ \E enabled \in BOOLEAN : RequestHeater(enabled)
  \/ RequestDismiss
  \/ Poll \/ RequestStartCalibration \/ RequestRenew \/ RequestCancel
  \/ \E candidate \in Candidates : RequestCandidate(candidate)
  \/ \E phase \in FirstPhases : RequestStartShot(phase)
  \/ RequestStopShot
  \/ \E key \in Keys : RequestStartCooldown(key)
  \/ RequestStop
  \/ \E targets \in TargetPairs, steam \in world.steam :
       RequestSettings(targets, steam)
  \/ RequestSaveCalibration

Continue ==
  \/ StopCooldown \/ PrepareRequest \/ SaveTargets \/ SaveSteam
  \/ RestoreTargets \/ RollbackRequest \/ AdoptRequest \/ SaveCalibration
  \/ RollbackCalibrationRequest \/ AdoptCalibrationRequest

Next ==
  /\ UNCHANGED world
  /\ \/ TemperatureUpdate \/ WorkflowUpdate \/ MissLock \/ Serve \/ Continue
     \/ MissInRequest \/ Trip \/ Tick \/ Restart

Spec == Init /\ [][Next]_vars

(* The two control tasks outrank everything and run periodically, and time   *)
(* passes; nothing is assumed of clients, of the HTTP task or of NVS.  No    *)
(* failure is forced either: a turn whose outputs fail ends the cooldown and *)
(* takes the flag too, so fairness asks for a turn whose outputs work.      *)
FairSpec ==
  /\ Spec
  /\ WF_state(Tick) /\ WF_state(TemperatureUpdate)
  /\ WF_state((failSafe \/ Active(M)) /\ WorkflowTurn({TRUE}))

-----------------------------------------------------------------------------
(* Safety.                                                                  *)

(* Heating towards a target ends by itself: one of the deadlines runs, or   *)
(* the machine is ready, or a calibration session is within its lease (or   *)
(* is being saved).  Read where the loop has taken its turn.                *)
HeatIsTimed ==
  ctl.heat /\ ~due =>
    IF Calibrating(ctl)
    THEN ctl.calibration = "saving" \/ ctl.session < SessionLease
    ELSE DemandsHeat(ctl) =>
           \/ Running(ctl.warmup) \/ Running(ctl.recovery)
           \/ ctl.status = "ready"

(* A deadline that has passed has been acted upon by the end of the loop's   *)
(* turn, unless that turn had no reading to judge.                          *)
DeadlineIsKept ==
  ~due /\ ~failSafe /\ ReadingOk(ctl) /\ ~Faulted(ctl) =>
    ctl.warmup < HeatingTimeout /\ ctl.recovery < HeatingTimeout

(* Only an over-temperature is dismissed, only once its cause is gone, and  *)
(* no later failure turns another fault into a dismissable one.             *)
FaultOnlyHardens ==
  [][Faulted(ctl) =>
       \/ ctl'.fault = "none" /\ Dismissable(ctl)
       \/ ctl'.fault = "over_temperature" /\ ctl.fault = "over_temperature"
       \/ ctl'.fault \in Faults \ {"over_temperature"}
       \/ Restart]_vars

(* A calibration heats towards a raw candidate with the limits of steam, so  *)
(* nothing else may be going on: no shot, cooldown, save, fault or deadline. *)
CalibrationIsAlone ==
  Calibrating(ctl) =>
    /\ ctl.mode = "brew" /\ ctl.permit /\ ~Faulted(ctl) /\ Idle(ctl)
    /\ ~ctl.cooling /\ ~Active(M) /\ shot = "idle"
    /\ ~Running(ctl.warmup) /\ ~Running(ctl.recovery)

(* Shot, cooldown and steam exclude each other, and a pump known to run does *)
(* so for the shot or for the cooldown, whatever failed before.             *)
PumpHasOneOwner ==
  /\ ~(shot # "idle" /\ Active(M))
  /\ ctl.mode = "steam" => shot = "idle" /\ ~Active(M)
  /\ pump = RunningPump => Pumping(shot) \/ cool.status = "pumping"

(* The heater's cooldown inhibit, kept by one controller, is set exactly     *)
(* while the other one has a cooldown: however it ends, it is released.     *)
InhibitIsOwned == ctl.cooling <=> Active(M)

-----------------------------------------------------------------------------
(* Settings, in RAM and in NVS.                                             *)

(* The controller adopts no setting that a power cut would take back: what   *)
(* it comes to use is in NVS already.                                       *)
AdoptsOnlyPersisted ==
  [][\/ /\ ctl'.targets \in {ctl.targets, nvs.targets}
        /\ ctl'.steam \in {ctl.steam, nvs.steam}
        /\ ctl'.offset \in {ctl.offset, nvs.offset}
     \/ Restart]_vars

(* Between requests RAM and NVS agree, and an answered save has released     *)
(* what it held, unless a save could neither be adopted nor taken back: a   *)
(* miss of the mutex, a fault during the save, a failing restore.           *)
AnswersAreTrue ==
  ~lost /\ api \in Free =>
    /\ nvs = [targets |-> ctl.targets, steam |-> ctl.steam,
              offset |-> ctl.offset]
    /\ api # "idle" => Idle(ctl) /\ ctl.calibration # "saving"

-----------------------------------------------------------------------------
(* Liveness, under FairSpec.                                                *)

(* A Steam return timer that has started brings the machine back to Brew,    *)
(* whatever readings, requests and saves come in between.                   *)
SteamEnds == ctl.mode = "steam" /\ Running(ctl.steamTimer) ~> ctl.mode = "brew"

(* Every cooldown ends, with or without the client that started it.         *)
CooldownEnds == Active(M) ~> ~Active(M)

(* A calibration session whose client stops renewing it ends.               *)
AbandonedSessionEnds ==
  \/ []<>(ctl.calibration # "active")
  \/ []<><<ctl.session > 0 /\ ctl'.session = 0>>_ctl

=============================================================================
