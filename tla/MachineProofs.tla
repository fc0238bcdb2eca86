---------------------------- MODULE MachineProofs ----------------------------
(* For any settings, limits, readings, requests and failures: the pump and the   *)
(* heater's inhibit have one owner, RAM adopts what is persisted only, the state *)
(* keeps its type, faults only harden, a calibration is alone, heating ends by   *)
(* itself, a passed deadline is acted upon, and an answer is true.               *)
(*                                                                               *)
(* Every argument goes method by method: a relation between a controller and     *)
(* what a method makes of it, a lemma for each method, and then the few steps    *)
(* that the relation does not cover, judged against the rest of the state.       *)
(*                                                                               *)
(* I.   Ownership.  Most methods Keep: they leave inhibit and settings alone and *)
(*      change the mode to Brew at most.  What is left begins or ends an inhibit,*)
(*      enters Steam or adopts a setting (Owned, SavesRequest).                  *)
(* II.  Types.  A controller is Sound when it is well typed and an open          *)
(*      calibration excludes what the controller itself can exclude; a method    *)
(*      that Carries it opens no calibration and softens no fault.  Only the     *)
(*      start of a calibration and the dismissal of a fault do not carry.        *)
(* III. Time.  A method Settles a controller when it sets no deadline, heats no  *)
(*      more than before and takes up no save; update alone heats anew, and      *)
(*      Times what it leaves; the starts of a calibration and of the two saves   *)
(*      take something up, and still Rest (TimeInv).                             *)
(* IV.  Answers.  How far NVS is ahead of RAM, and what is prepared, by where    *)
(*      the HTTP task stands in its request (AnswerInv).                         *)
EXTENDS Machine, TLAPS

(* I. Ownership.                                                                 *)

IsShaped(c) == DOMAIN c = ControllerFields
IsMachine(m) ==
  /\ DOMAIN m = {"ctl", "cool", "pump"} /\ IsShaped(m.ctl)
  /\ DOMAIN m.cool = CooldownFields /\ DOMAIN m.pump = {"running", "unknown"}
  /\ m.cool.status \in {"idle", "pumping", "stabilizing"}

SameSettings(c, r) == r.targets = c.targets /\ r.steam = c.steam /\ r.offset = c.offset
Calms(c, r) == IsShaped(r) /\ r.cooling = c.cooling /\ r.mode \in {c.mode, "brew"}
Keeps(c, r) == Calms(c, r) /\ SameSettings(c, r)

LEMMA KeepsTransitive ==
  ASSUME NEW c, NEW d, NEW e, Keeps(c, d), Keeps(d, e)
  PROVE  Keeps(c, e)
  BY DEF Keeps, Calms, SameSettings

LEMMA KeepsItself ==
  ASSUME NEW c, IsShaped(c)
  PROVE  Keeps(c, c)
  BY DEF Keeps, Calms, SameSettings

-----------------------------------------------------------------------------
(* Methods that keep, from the smallest to update.                               *)
LEMMA LatchKeeps ==
  ASSUME NEW c, IsShaped(c), NEW code
  PROVE  Keeps(c, LatchFault(c, code))
  BY DEF Keeps, Calms, SameSettings, IsShaped, ControllerFields, LatchFault

LEMMA ForceOffKeeps ==
  ASSUME NEW c, IsShaped(c), NEW ok \in BOOLEAN
  PROVE  Keeps(c, ForceOff(c, ok))
  BY DEF Keeps, Calms, SameSettings, IsShaped, ControllerFields, ForceOff, LatchFault

LEMMA ReturnKeeps ==
  ASSUME NEW c, IsShaped(c)
  PROVE  Keeps(c, ReturnToBrew(c))
  BY DEF Keeps, Calms, SameSettings, IsShaped, ControllerFields, ReturnToBrew

LEMMA RestoreKeeps ==
  ASSUME NEW c, IsShaped(c), NEW ok \in BOOLEAN
  PROVE  Keeps(c, RestoreOrdinaryBrew(c, ok)) /\ RestoreOrdinaryBrew(c, ok).mode = "brew"
  <1> DEFINE left == [c EXCEPT !.calibration = "none", !.candidate = Reference - c.offset]
             off == [left EXCEPT !.heat = FALSE]
  <1>1. Keeps(c, left) /\ Keeps(c, off) /\ IsShaped(left) /\ IsShaped(off)
    BY DEF Keeps, Calms, SameSettings, IsShaped, ControllerFields
  <1>2. RestoreOrdinaryBrew(c, ok) = IF ok THEN ReturnToBrew(off) ELSE LatchFault(left, "internal_error")
    BY DEF RestoreOrdinaryBrew
  <1> HIDE DEF left, off
  <1>3. ReturnToBrew(off).mode = "brew" /\ LatchFault(left, "internal_error").mode = "brew"
    BY <1>1 DEF ReturnToBrew, LatchFault, IsShaped, ControllerFields
  <1>4. QED
    BY <1>1, <1>2, <1>3, ReturnKeeps, LatchKeeps, KeepsTransitive

LEMMA AbortKeeps ==
  ASSUME NEW c, IsShaped(c), NEW ok \in BOOLEAN
  PROVE  Keeps(c, Abort(c, ok)) /\ Keeps(c, Expire(c, ok))
  BY RestoreKeeps, KeepsItself DEF Abort, Expire

LEMMA BadReadingKeeps ==
  ASSUME NEW c, IsShaped(c), NEW ok \in BOOLEAN
  PROVE  Keeps(c, BadReading(c, ok))
  <1> DEFINE streak == IF c.streak < FailureStreak THEN c.streak + 1 ELSE c.streak
             held == [c EXCEPT !.streak = streak, !.status = "heating", !.band = Off, !.heat = FALSE]
  <1>1. Keeps(c, held) /\ IsShaped(held)
    BY DEF Keeps, Calms, SameSettings, IsShaped, ControllerFields
  <1>2. BadReading(c, ok) \in {held, LatchFault(held, "internal_error"), LatchFault(held, "sensor_failure")}
    BY DEF BadReading
  <1> HIDE DEF held
  <1>3. QED
    BY <1>1, <1>2, LatchKeeps, KeepsTransitive

LEMMA RegulateKeeps ==
  ASSUME NEW c, IsShaped(c), NEW ok \in BOOLEAN, NEW pulse
  PROVE  Keeps(c, Regulate(c, ok, pulse))
  <1> DEFINE d == ClearSoak(c)
             e == LeaveSteam(d)
             f == TrackReadiness(e)
             g == TrackDeadlines(f)
  <1>1. Keeps(c, d) /\ IsShaped(d)
    BY DEF ClearSoak, Keeps, Calms, SameSettings, IsShaped, ControllerFields
  <1> HIDE DEF d
  <1>2. Keeps(d, e) /\ IsShaped(e)
    BY <1>1, ReturnKeeps, KeepsItself DEF LeaveSteam, Keeps, Calms
  <1> HIDE DEF e
  <1>3. Keeps(e, f) /\ IsShaped(f)
    BY <1>2 DEF TrackReadiness, Keeps, Calms, SameSettings, IsShaped, ControllerFields
  <1> HIDE DEF f
  <1>4. Keeps(f, g) /\ IsShaped(g)
    BY <1>3 DEF TrackDeadlines, Keeps, Calms, SameSettings, IsShaped, ControllerFields
  <1>5. Keeps(c, g)
    BY <1>1, <1>2, <1>3, <1>4, KeepsTransitive
  <1> HIDE DEF g
  <1>6. Keeps(g, UpdateHeater(g, ok, pulse)) /\ Keeps(g, LatchFault(g, "heating_timeout"))
    <2>1. Keeps(g, LatchFault(g, "internal_error")) /\ Keeps(g, LatchFault(g, "heating_timeout"))
      BY <1>4, LatchKeeps
    <2>2. Keeps(g, [g EXCEPT !.heat = MayHeat(g) /\ pulse])
      BY <1>4 DEF Keeps, Calms, SameSettings, IsShaped, ControllerFields
    <2>3. QED
      BY <2>1, <2>2 DEF UpdateHeater
  <1>7. Regulate(c, ok, pulse) = IF DeadlineMissed(g) THEN LatchFault(g, "heating_timeout")
                                 ELSE UpdateHeater(g, ok, pulse)
    BY DEF Regulate, g, f, e, d
  <1>8. QED
    BY <1>5, <1>6, <1>7, KeepsTransitive

LEMMA JudgeKeeps ==
  ASSUME NEW c, IsShaped(c), NEW ok \in BOOLEAN, NEW pulse
  PROVE  Keeps(c, Judge(c, ok, pulse))
  <1> DEFINE valid == [c EXCEPT !.streak = 0]
  <1>1. Keeps(c, valid) /\ IsShaped(valid)
    BY DEF Keeps, Calms, SameSettings, IsShaped, ControllerFields
  <1>2. Judge(c, ok, pulse) \in {BadReading(c, ok), LatchFault(valid, "over_temperature"),
                                 Regulate(valid, ok, pulse)}
    BY DEF Judge
  <1> HIDE DEF valid
  <1>3. QED
    BY <1>1, <1>2, BadReadingKeeps, LatchKeeps, RegulateKeeps, KeepsTransitive

LEMMA UpdateKeeps ==
  ASSUME NEW c, IsShaped(c), NEW reading, NEW lease, NEW released \in BOOLEAN, NEW ok \in BOOLEAN,
         NEW pulse
  PROVE  Keeps(c, Update(c, reading, lease, released, ok, pulse))
  <1> DEFINE d == Expire(c, released)
             read == [d EXCEPT !.reading = reading]
             off == [read EXCEPT !.status = "fault", !.heat = FALSE]
  <1>1. Keeps(c, d) /\ IsShaped(d)
    BY AbortKeeps DEF Keeps, Calms
  <1> HIDE DEF d
  <1>2. Keeps(d, read) /\ IsShaped(read)
    BY <1>1 DEF Keeps, Calms, SameSettings, IsShaped, ControllerFields
  <1>3. Keeps(c, read)
    BY <1>1, <1>2, KeepsTransitive
  <1>4. Update(c, reading, lease, released, ok, pulse)
          \in {LatchFault(read, "internal_error"), off, Judge(read, ok, pulse)}
    BY DEF Update, d
  <1> HIDE DEF read
  <1>5. Keeps(read, off)
    BY <1>2 DEF Keeps, Calms, SameSettings, IsShaped, ControllerFields
  <1> HIDE DEF off
  <1>6. QED
    BY <1>2, <1>3, <1>4, <1>5, LatchKeeps, JudgeKeeps, KeepsTransitive

(* The clients' methods.                                                         *)
LEMMA SetHeaterKeeps ==
  ASSUME NEW c, IsShaped(c), NEW enabled, NEW lease
  PROVE  Keeps(c, SetHeaterEnabled(c, enabled, lease))
  <1>1. /\ Keeps(c, LatchFault(c, "internal_error")) /\ Keeps(c, c)
        /\ Keeps(c, [c EXCEPT !.heat = @ /\ enabled])
        /\ Keeps(c, Permit(c, enabled))
    <2>1. Keeps(c, [c EXCEPT !.heat = @ /\ enabled])
      BY DEF Keeps, Calms, SameSettings, IsShaped, ControllerFields
    <2>2. Keeps(c, Permit(c, enabled))
      BY DEF Permit, Keeps, Calms, SameSettings, IsShaped, ControllerFields
    <2>3. QED
      BY <2>1, <2>2, LatchKeeps, KeepsItself
  <1>2. QED
    BY <1>1 DEF SetHeaterEnabled

LEMMA DismissKeeps ==
  ASSUME NEW c, IsShaped(c), NEW lease, NEW ok \in BOOLEAN, NEW pulse
  PROVE  Keeps(c, Dismiss(c, lease, ok, pulse))
  <1>1. Keeps(c, Cleared(c)) /\ IsShaped(Cleared(c))
    BY DEF Cleared, Keeps, Calms, SameSettings, IsShaped, ControllerFields
  <1>2. QED
    BY <1>1, UpdateKeeps, KeepsItself, KeepsTransitive DEF Dismiss

LEMMA PrepareKeeps ==
  ASSUME NEW c, IsShaped(c), NEW targets, NEW steam, NEW ok \in BOOLEAN
  PROVE  Keeps(c, PrepareSettings(c, targets, steam, ok))
  <1>1. Keeps(c, Prepared(c, targets, steam)) /\ IsShaped(Prepared(c, targets, steam))
    BY DEF Prepared, Keeps, Calms, SameSettings, IsShaped, ControllerFields
  <1>2. QED
    BY <1>1, ForceOffKeeps, KeepsItself, KeepsTransitive DEF PrepareSettings

LEMMA RollbackKeeps ==
  ASSUME NEW c, IsShaped(c), NEW ok \in BOOLEAN
  PROVE  Keeps(c, RollbackSettings(c, ok))
  <1> DEFINE d == RollbackTargets(c, ok)
             back == [c EXCEPT !.heat = FALSE, !.nextTargets = c.targets, !.activeChange = FALSE,
                               !.updating = FALSE]
  <1>1. Keeps(c, back)
    BY DEF Keeps, Calms, SameSettings, IsShaped, ControllerFields
  <1>2. Keeps(c, d) /\ IsShaped(d)
    <2>1. d \in {back, LatchFault(c, "internal_error"), c}
      BY DEF RollbackTargets
    <2> HIDE DEF back, d
    <2>2. QED
      BY <1>1, <2>1, LatchKeeps, KeepsItself DEF Keeps, Calms
  <1> HIDE DEF d
  <1>3. Keeps(d, RollbackSteam(d))
    <2>1. Keeps(d, [d EXCEPT !.heat = FALSE, !.nextSteam = d.steam, !.steamUpdating = FALSE])
      BY <1>2 DEF Keeps, Calms, SameSettings, IsShaped, ControllerFields
    <2>2. QED
      BY <1>2, <2>1, KeepsItself DEF RollbackSteam
  <1>4. QED
    BY <1>2, <1>3, KeepsTransitive DEF RollbackSettings, d

LEMMA CalibrationKeeps ==
  ASSUME NEW c, IsShaped(c), NEW candidate, NEW ok \in BOOLEAN
  PROVE  /\ Keeps(c, StartCalibration(c, ok)) /\ Keeps(c, Renew(c))
         /\ Keeps(c, SetCandidate(c, candidate, ok)) /\ Keeps(c, PrepareCalibrationSave(c, ok))
         /\ Keeps(c, RollbackCalibration(c))
  <1> DEFINE begun == [c EXCEPT !.calibration = "active", !.candidate = Reference - c.offset,
                                !.session = 0, !.band = Off, !.warmup = Off, !.recovery = Off,
                                !.achieved = FALSE, !.status = "heating"]
             set == [Renew(c) EXCEPT !.candidate = candidate, !.band = Off, !.status = "heating"]
             saving == [Renew(c) EXCEPT !.calibration = "saving"]
  <1>1. Keeps(c, begun) /\ IsShaped(begun)
    BY DEF Keeps, Calms, SameSettings, IsShaped, ControllerFields
  <1>2. Keeps(c, Renew(c)) /\ IsShaped(Renew(c))
    BY DEF Renew, Keeps, Calms, SameSettings, IsShaped, ControllerFields
  <1>3. Keeps(Renew(c), set) /\ IsShaped(set)
    BY <1>2 DEF Keeps, Calms, SameSettings, IsShaped, ControllerFields
  <1>4. Keeps(Renew(c), saving) /\ IsShaped(saving)
    BY <1>2 DEF Keeps, Calms, SameSettings, IsShaped, ControllerFields
  <1>5. Keeps(c, set) /\ Keeps(c, saving)
    BY <1>2, <1>3, <1>4, KeepsTransitive
  <1>6. StartCalibration(c, ok) = ForceOff(begun, ok) /\ PrepareCalibrationSave(c, ok) = ForceOff(saving, ok)
    BY DEF StartCalibration, PrepareCalibrationSave
  <1>7. SetCandidate(c, candidate, ok) \in {Renew(c), ForceOff(set, ok)}
    BY DEF SetCandidate
  <1>8. Keeps(c, RollbackCalibration(c))
    BY DEF RollbackCalibration, Keeps, Calms, SameSettings, IsShaped, ControllerFields
  <1> HIDE DEF begun, set, saving
  <1>9. QED
    BY <1>1, <1>2, <1>3, <1>4, <1>5, <1>6, <1>7, <1>8, ForceOffKeeps, KeepsTransitive

LEMMA SmallKeeps ==
  ASSUME NEW c, IsShaped(c), NEW phase
  PROVE  Keeps(c, SetExtractionPhase(c, phase)) /\ Keeps(c, Age(c)) /\ Keeps(c, [c EXCEPT !.heat = FALSE])
  <1>1. Keeps(c, SetExtractionPhase(c, phase)) /\ Keeps(c, [c EXCEPT !.heat = FALSE])
    BY DEF SetExtractionPhase, Keeps, Calms, SameSettings, IsShaped, ControllerFields
  <1>2. Keeps(c, Age(c))
    BY DEF Age, Keeps, Calms, SameSettings, IsShaped, ControllerFields
  <1>3. QED
    BY <1>1, <1>2

LEMMA AbortOrKeeps ==
  ASSUME IsShaped(ctl), NEW ok \in BOOLEAN, NEW next, Keeps(ctl, next), AbortOr(ok, next)
  PROVE  Keeps(ctl, ctl')
  BY AbortKeeps DEF AbortOr

-----------------------------------------------------------------------------
(* Methods that adopt.                                                           *)
LEMMA AdoptSettingsCalms ==
  ASSUME NEW c, IsShaped(c), NEW targets, NEW steam
  PROVE  LET r == AdoptSettings(c, targets, steam) IN
           /\ Calms(c, r) /\ r.offset = c.offset
           /\ r.targets \in {c.targets, targets} /\ r.steam \in {c.steam, steam}
  <1> DEFINE bad == LatchFault(c, "internal_error")
             adopted == [c EXCEPT !.targets = targets, !.activeChange = FALSE, !.updating = FALSE]
             again == [adopted EXCEPT
                         !.band = Off, !.achieved = @ /\ (Running(c.warmup) \/ Running(c.recovery)),
                         !.status = IF Faulted(c) THEN @ ELSE "heating"]
             first == IF targets = c.targets THEN c ELSE AdoptTargets(c, targets)
  <1>1. /\ Calms(c, adopted) /\ adopted.targets = targets
        /\ adopted.steam = c.steam /\ adopted.offset = c.offset
    BY DEF Calms, IsShaped, ControllerFields
  <1>2. AdoptTargets(c, targets) \in {bad, adopted, again}
    BY DEF AdoptTargets
  <1> HIDE DEF adopted
  <1>3. /\ Calms(c, again) /\ again.targets = targets
        /\ again.steam = c.steam /\ again.offset = c.offset
    BY <1>1 DEF Calms, IsShaped, ControllerFields
  <1>4. Keeps(c, bad) /\ Keeps(c, c)
    BY LatchKeeps, KeepsItself
  <1> HIDE DEF bad, again
  <1>5. /\ Calms(c, first) /\ first.targets \in {c.targets, targets}
        /\ first.steam = c.steam /\ first.offset = c.offset
    BY <1>1, <1>2, <1>3, <1>4 DEF Keeps, SameSettings
  <1>6. AdoptSettings(c, targets, steam) \in {first, AdoptSteam(first, steam)}
    BY DEF AdoptSettings
  <1> HIDE DEF first
  <1>7. LET r == AdoptSteam(first, steam) IN
          /\ Calms(first, r) /\ r.offset = first.offset
          /\ r.targets = first.targets /\ r.steam \in {first.steam, steam}
    <2>1. Keeps(first, LatchFault(first, "internal_error"))
      BY <1>5, LatchKeeps DEF Calms
    <2> DEFINE new == [first EXCEPT !.steam = steam, !.steamUpdating = FALSE]
    <2>2. /\ Calms(first, new) /\ new.steam = steam
          /\ new.targets = first.targets /\ new.offset = first.offset
      BY <1>5 DEF Calms, IsShaped, ControllerFields
    <2>3. QED
      BY <2>1, <2>2 DEF AdoptSteam, Keeps, SameSettings
  <1>8. QED
    BY <1>5, <1>6, <1>7 DEF Calms

LEMMA AdoptCalibrationCalms ==
  ASSUME NEW c, IsShaped(c), NEW offset, NEW ok \in BOOLEAN
  PROVE  LET r == AdoptCalibration(c, offset, ok) IN
           /\ Calms(c, r) /\ r.targets = c.targets /\ r.steam = c.steam
           /\ r.offset \in {c.offset, offset}
  <1> DEFINE d == [c EXCEPT !.offset = offset]
  <1>1. /\ Calms(c, d) /\ d.targets = c.targets /\ d.steam = c.steam /\ d.offset = offset
        /\ IsShaped(d)
    BY DEF Calms, IsShaped, ControllerFields
  <1>2. AdoptCalibration(c, offset, ok) \in {RestoreOrdinaryBrew(d, ok), LatchFault(c, "internal_error")}
    BY DEF AdoptCalibration
  <1> HIDE DEF d
  <1>3. QED
    BY <1>1, <1>2, RestoreKeeps, LatchKeeps DEF Keeps, Calms, SameSettings

-----------------------------------------------------------------------------
(* The cooldown.  A method of it, applied to m, that results in r: the inhibit   *)
(* lasts as long as the cooldown, and the pump runs in its pumping only.         *)
Inhibits(m) == m.ctl.cooling <=> Active(m)
Cools(m, r) ==
  /\ IsMachine(r) /\ SameSettings(m.ctl, r.ctl) /\ r.ctl.mode \in {m.ctl.mode, "brew"}
  /\ Inhibits(r) /\ (r.pump = RunningPump => r.cool.status = "pumping")
  /\ Active(r) => Active(m)

LEMMA CoolsTransitive ==
  ASSUME NEW m, NEW n, NEW r, Cools(m, n), Cools(n, r)
  PROVE  Cools(m, r)
  BY DEF Cools, SameSettings

LEMMA CoolsThenKeeps ==
  ASSUME NEW m, NEW n, NEW c, Cools(m, n), Keeps(n.ctl, c)
  PROVE  Cools(m, [n EXCEPT !.ctl = c])
  BY DEF Cools, Keeps, Calms, SameSettings, IsMachine, Inhibits, Active

LEMMA PumpOffStops ==
  ASSUME NEW m, IsMachine(m), NEW pumped \in BOOLEAN
  PROVE  /\ DOMAIN PumpOff(m, pumped) = {"running", "unknown"}
         /\ PumpOff(m, pumped) # RunningPump /\ PumpOff(m, pumped).unknown = ~pumped
  BY DEF PumpOff, StoppedPump, RunningPump, IsMachine

LEMMA EndInhibitEnds ==
  ASSUME NEW c, IsShaped(c), NEW ok \in BOOLEAN
  PROVE  LET r == EndCooldownInhibit(c, ok) IN
           IsShaped(r) /\ SameSettings(c, r) /\ r.mode \in {c.mode, "brew"} /\ r.cooling = FALSE
  <1>1. Keeps(c, ForceOff(c, ok))
    BY ForceOffKeeps
  <1>2. QED
    BY <1>1 DEF EndCooldownInhibit, Keeps, Calms, SameSettings, IsShaped, ControllerFields

LEMMA FailCools ==
  ASSUME NEW m, IsMachine(m), NEW code, NEW pumped \in BOOLEAN, NEW heated \in BOOLEAN
  PROVE  LET r == Fail(m, code, pumped, heated) IN
           Cools(m, r) /\ ~Active(r) /\ r.pump # RunningPump
  <1> DEFINE c == LatchFault(m.ctl, code)
             d == EndCooldownInhibit(c, heated)
             q == PumpOff(m, pumped)
  <1>1. Keeps(m.ctl, c)
    BY LatchKeeps DEF IsMachine
  <1>2. IsShaped(d) /\ SameSettings(c, d) /\ d.mode \in {c.mode, "brew"} /\ d.cooling = FALSE
    BY <1>1, EndInhibitEnds DEF Keeps, Calms
  <1>3. DOMAIN q = {"running", "unknown"} /\ q # RunningPump
    BY PumpOffStops
  <1>4. Fail(m, code, pumped, heated) = [m EXCEPT !.ctl = d, !.pump = q, !.cool.status = "idle",
                                                  !.cool.outcome = "failed"]
    BY DEF Fail, IsMachine
  <1> DEFINE r == [m EXCEPT !.ctl = d, !.pump = q, !.cool.status = "idle", !.cool.outcome = "failed"]
  <1> HIDE DEF c, d, q
  <1>5. /\ DOMAIN r = {"ctl", "cool", "pump"} /\ r.ctl = d /\ r.pump = q
        /\ DOMAIN r.cool = CooldownFields /\ r.cool.status = "idle"
    BY DEF IsMachine, CooldownFields
  <1> HIDE DEF r
  <1>6. Fail(m, code, pumped, heated) = r
    BY <1>4 DEF r
  <1>7. QED
    BY <1>1, <1>2, <1>3, <1>5, <1>6 DEF Cools, Keeps, Calms, SameSettings, IsMachine, Inhibits, Active

LEMMA CompleteCools ==
  ASSUME NEW m, IsMachine(m), NEW pumped \in BOOLEAN, NEW heated \in BOOLEAN
  PROVE  LET r == Complete(m, pumped, heated) IN Cools(m, r) /\ ~Active(r)
  <1> DEFINE d == EndCooldownInhibit(m.ctl, heated)
             q == PumpOff(m, pumped)
             ended == [m EXCEPT !.ctl = d, !.pump = q, !.cool.status = "idle"]
             c == LatchFault(d, "internal_error")
             failed == [ended EXCEPT !.ctl = c, !.cool.outcome = "failed"]
  <1>1. IsShaped(d) /\ SameSettings(m.ctl, d) /\ d.mode \in {m.ctl.mode, "brew"} /\ d.cooling = FALSE
    BY EndInhibitEnds DEF IsMachine
  <1>2. DOMAIN q = {"running", "unknown"} /\ q # RunningPump
    BY PumpOffStops
  <1>3. Complete(m, pumped, heated) \in {ended, failed}
    BY DEF Complete, IsMachine
  <1> HIDE DEF d, q
  <1>4. Cools(m, ended) /\ ~Active(ended) /\ ended.ctl = d
    BY <1>1, <1>2 DEF Cools, SameSettings, IsMachine, CooldownFields, Inhibits, Active
  <1>5. Keeps(ended.ctl, c)
    BY <1>1, <1>4, LatchKeeps
  <1> HIDE DEF ended, c
  <1>6. Cools(m, failed) /\ ~Active(failed)
    BY <1>4, <1>5 DEF Cools, Keeps, Calms, SameSettings, IsMachine, CooldownFields, Inhibits, Active
  <1>7. QED
    BY <1>3, <1>4, <1>6

LEMMA EnterCools ==
  ASSUME NEW m, IsMachine(m), Active(m), Inhibits(m), NEW outcome, NEW settle,
         NEW pumped \in BOOLEAN, NEW heated \in BOOLEAN
  PROVE  Cools(m, EnterStabilization(m, outcome, settle, pumped, heated))
  <1> DEFINE c == ForceOff(m.ctl, heated)
             q == PumpOff(m, pumped)
             quiet == [m EXCEPT !.ctl = c, !.pump = q]
             settling == [quiet EXCEPT !.cool.status = "stabilizing", !.cool.outcome = outcome,
                                       !.cool.settle = settle]
  <1>1. Keeps(m.ctl, c)
    BY ForceOffKeeps DEF IsMachine
  <1>2. DOMAIN q = {"running", "unknown"} /\ q # RunningPump
    BY PumpOffStops
  <1>3. EnterStabilization(m, outcome, settle, pumped, heated)
          \in {Fail(quiet, "internal_error", pumped, heated), Complete(settling, pumped, heated), settling}
    BY DEF EnterStabilization, IsMachine
  <1> HIDE DEF c, q
  <1>4. Cools(m, quiet)
    BY <1>1, <1>2 DEF Cools, Keeps, Calms, SameSettings, IsMachine, Inhibits, Active
  <1>5. quiet.ctl = c /\ quiet.pump = q /\ quiet.cool = m.cool
    BY DEF IsMachine
  <1> HIDE DEF quiet
  <1>6. Cools(quiet, settling)
    BY <1>2, <1>4, <1>5 DEF Cools, SameSettings, IsMachine, CooldownFields, Inhibits, Active
  <1> HIDE DEF settling
  <1>7. Cools(m, settling)
    BY <1>4, <1>6, CoolsTransitive
  <1>8. IsMachine(quiet) /\ IsMachine(settling)
    BY <1>4, <1>6 DEF Cools
  <1>9. /\ Cools(quiet, Fail(quiet, "internal_error", pumped, heated))
        /\ Cools(settling, Complete(settling, pumped, heated))
    BY <1>8, FailCools, CompleteCools
  <1>10. QED
    BY <1>3, <1>4, <1>7, <1>9, CoolsTransitive

LEMMA AdvanceCools ==
  ASSUME NEW m, IsMachine(m), Active(m), Inhibits(m), NEW sampled, NEW sample, NEW expired,
         NEW pumped \in BOOLEAN, NEW heated \in BOOLEAN
  PROVE  Cools(m, Advance(m, sampled, sample, expired, pumped, heated))
  <1> DEFINE off == [m EXCEPT !.ctl = ForceOff(m.ctl, TRUE)]
             still == [off EXCEPT !.pump = IF @.running THEN StoppedPump ELSE @]
             Same == off.pump = m.pump /\ off.cool = m.cool
  <1>1. Keeps(m.ctl, ForceOff(m.ctl, TRUE))
    BY ForceOffKeeps DEF IsMachine
  <1>2. /\ IsMachine(off) /\ Active(off) /\ Inhibits(off) /\ off.pump = m.pump /\ off.cool = m.cool
        /\ SameSettings(m.ctl, off.ctl) /\ off.ctl.mode \in {m.ctl.mode, "brew"}
    BY <1>1 DEF Keeps, Calms, SameSettings, IsMachine, Inhibits, Active
  <1>3. \A r : Cools(off, r) => Cools(m, r)
    BY <1>2 DEF Cools, SameSettings
  <1>4. CASE m.cool.status = "pumping"
    <2>1. Advance(m, sampled, sample, expired, pumped, heated)
            \in {Fail(m, "sensor_failure", pumped, heated), Fail(m, m.ctl.fault, pumped, heated),
                 Fail(m, "internal_error", pumped, heated), Fail(off, "internal_error", pumped, heated),
                 EnterStabilization(off, "target_reached", 0, pumped, heated),
                 EnterStabilization(off, "cutoff", m.cool.age - PumpLimit, pumped, heated), off}
      BY <1>4 DEF Advance, IsMachine
    <2> HIDE DEF off
    <2>2. Cools(off, off)
      BY <1>2, <1>4 DEF Cools, SameSettings
    <2>3. /\ Cools(off, EnterStabilization(off, "target_reached", 0, pumped, heated))
          /\ Cools(off, EnterStabilization(off, "cutoff", m.cool.age - PumpLimit, pumped, heated))
          /\ Cools(off, Fail(off, "internal_error", pumped, heated))
      BY <1>2, EnterCools, FailCools
    <2>4. \A code : Cools(m, Fail(m, code, pumped, heated))
      BY FailCools
    <2>5. QED
      BY <1>3, <2>1, <2>2, <2>3, <2>4
  <1>5. CASE m.cool.status # "pumping"
    <2>1. Advance(m, sampled, sample, expired, pumped, heated)
            \in {Fail(m, "sensor_failure", pumped, heated), Fail(m, m.ctl.fault, pumped, heated),
                 Fail(m, "internal_error", pumped, heated), Fail(off, "internal_error", pumped, heated),
                 Complete(off, pumped, heated), still}
      BY <1>5 DEF Advance, IsMachine
    <2> HIDE DEF off
    <2>2. Cools(off, still)
      BY <1>2 DEF Cools, SameSettings, IsMachine, Inhibits, Active, StoppedPump, RunningPump
    <2>3. Cools(off, Complete(off, pumped, heated)) /\ Cools(off, Fail(off, "internal_error", pumped, heated))
      BY <1>2, CompleteCools, FailCools
    <2>4. \A code : Cools(m, Fail(m, code, pumped, heated))
      BY FailCools
    <2> HIDE DEF still
    <2>5. QED
      BY <1>3, <2>1, <2>2, <2>3, <2>4
  <1>6. QED
    BY <1>4, <1>5

LEMMA StopCools ==
  ASSUME NEW m, IsMachine(m), Inhibits(m), NEW wrapped \in BOOLEAN, NEW pumped \in BOOLEAN,
         NEW heated \in BOOLEAN
  PROVE  Stop(m, wrapped, pumped, heated) = m \/ Cools(m, Stop(m, wrapped, pumped, heated))
  <1>1. CASE m.cool.status = "idle"
    BY <1>1 DEF Stop
  <1>2. CASE m.cool.status = "stabilizing"
    <2>1. Stop(m, wrapped, pumped, heated) =
            Advance(m, TRUE, m.cool.target + 1, wrapped \/ m.cool.settle >= Stabilization, pumped, heated)
      BY <1>2 DEF Stop
    <2>2. Active(m)
      BY <1>2 DEF Active
    <2>3. QED
      BY <2>1, <2>2, AdvanceCools
  <1>3. CASE m.cool.status = "pumping"
    <2>1. Stop(m, wrapped, pumped, heated) = EnterStabilization(m, "stopped", 0, pumped, heated)
      BY <1>3 DEF Stop
    <2>2. Active(m)
      BY <1>3 DEF Active
    <2>3. QED
      BY <2>1, <2>2, EnterCools
  <1>4. QED
    BY <1>1, <1>2, <1>3 DEF IsMachine

LEMMA ConsumeCools ==
  ASSUME NEW m, IsMachine(m), Inhibits(m), NEW pumped \in BOOLEAN, NEW heated \in BOOLEAN
  PROVE  Cools(m, Consume(m, pumped, heated))
  <1> DEFINE c == LatchFault(m.ctl, "internal_error")
             q == PumpOff(m, pumped)
             latched == [m EXCEPT !.ctl = c, !.pump = q]
  <1>1. Keeps(m.ctl, c)
    BY LatchKeeps DEF IsMachine
  <1>2. DOMAIN q = {"running", "unknown"} /\ q # RunningPump
    BY PumpOffStops
  <1>3. Consume(m, pumped, heated) = IF Active(m) THEN UpdateCooldown(latched, pumped, heated) ELSE latched
    BY DEF Consume, IsMachine
  <1> HIDE DEF c, q
  <1>4. Cools(m, latched) /\ (Active(latched) <=> Active(m))
    BY <1>1, <1>2 DEF Cools, Keeps, Calms, SameSettings, IsMachine, Inhibits, Active
  <1> HIDE DEF latched
  <1>5. Active(m) => Cools(latched, UpdateCooldown(latched, pumped, heated))
    BY <1>4, AdvanceCools DEF UpdateCooldown, Cools
  <1>6. QED
    BY <1>3, <1>4, <1>5, CoolsTransitive

(* A cooldown that starts ends Steam, or fails before anything runs.             *)
LEMMA SetModeCalms ==
  ASSUME NEW c, IsShaped(c), NEW mode \in Modes, NEW ok \in BOOLEAN
  PROVE  LET r == SetMode(c, mode, ok) IN
           /\ IsShaped(r) /\ SameSettings(c, r) /\ r.cooling = c.cooling
           /\ r.mode \in {c.mode, mode, "brew"}
           /\ mode = "brew" /\ ok /\ (c.mode = "brew" \/ Idle(c)) => r.mode = "brew"
  <1> DEFINE moved == Moved(c, mode)
             off == [moved EXCEPT !.status = "fault", !.heat = FALSE]
  <1>1. IsShaped(moved) /\ SameSettings(c, moved) /\ moved.cooling = c.cooling /\ moved.mode = mode
    BY DEF Moved, ReturnToBrew, SameSettings, IsShaped, ControllerFields
  <1>2. SetMode(c, mode, ok) =
          IF Calibrating(c) THEN RestoreOrdinaryBrew(c, ok)
          ELSE IF ~Idle(c) \/ c.mode = mode THEN c
          ELSE IF Faulted(c) THEN off ELSE ForceOff(moved, ok)
    BY DEF SetMode
  <1> HIDE DEF moved
  <1>3. IsShaped(off) /\ SameSettings(c, off) /\ off.cooling = c.cooling /\ off.mode = mode
    BY <1>1 DEF SameSettings, IsShaped, ControllerFields
  <1>4. Keeps(moved, ForceOff(moved, ok)) /\ (ok => ForceOff(moved, ok).mode = moved.mode)
    <2>1. ok => ForceOff(moved, ok) = [moved EXCEPT !.heat = FALSE]
      BY DEF ForceOff
    <2>2. QED
      BY <1>1, <2>1, ForceOffKeeps DEF IsShaped, ControllerFields
  <1>5. Keeps(c, RestoreOrdinaryBrew(c, ok)) /\ RestoreOrdinaryBrew(c, ok).mode = "brew"
    BY RestoreKeeps
  <1> HIDE DEF off
  <1>6. QED
    BY <1>1, <1>2, <1>3, <1>4, <1>5 DEF Keeps, Calms, SameSettings, Modes

LEMMA BeginInhibits ==
  ASSUME NEW c, IsShaped(c), ~Calibrating(c), NEW ok \in BOOLEAN
  PROVE  LET r == BeginCooldownInhibit(c, ok) IN
           /\ IsShaped(r) /\ SameSettings(c, r) /\ r.mode \in {c.mode, "brew"}
           /\ InhibitBegins(c, ok) => r.cooling = TRUE /\ r.mode = "brew"
  <1> DEFINE d == SetMode(c, "brew", ok)
             held == [d EXCEPT !.cooling = TRUE]
  <1>1. /\ IsShaped(d) /\ SameSettings(c, d) /\ d.mode \in {c.mode, "brew"}
        /\ InhibitBegins(c, ok) => d.mode = "brew"
    BY SetModeCalms DEF Modes, InhibitBegins
  <1>2. BeginCooldownInhibit(c, ok) = IF InhibitBegins(c, ok) THEN ForceOff(held, ok) ELSE held
    BY DEF BeginCooldownInhibit, Abort
  <1> HIDE DEF d
  <1>3. /\ IsShaped(held) /\ SameSettings(d, held) /\ held.mode = d.mode
        /\ held.cooling = TRUE
    BY <1>1 DEF SameSettings, IsShaped, ControllerFields
  <1> HIDE DEF held
  <1>4. Keeps(held, ForceOff(held, ok))
    BY <1>3, ForceOffKeeps
  <1>5. QED
    BY <1>1, <1>2, <1>3, <1>4 DEF Keeps, Calms, SameSettings

LEMMA StartCools ==
  ASSUME NEW m, IsMachine(m), ~Calibrating(m.ctl), NEW key, NEW started \in BOOLEAN,
         NEW pumped \in BOOLEAN, NEW heated \in BOOLEAN
  PROVE  LET r == Start(m, key, started, pumped, heated) IN
           /\ IsMachine(r) /\ SameSettings(m.ctl, r.ctl) /\ r.ctl.mode \in {m.ctl.mode, "brew"}
           /\ Inhibits(r) /\ (r.pump = RunningPump => r.cool.status = "pumping")
           /\ Active(r) => r.ctl.mode = "brew"
  <1> DEFINE c == BeginCooldownInhibit(m.ctl, heated)
             begun == [NoCooldown EXCEPT !.status = "pumping", !.target = m.ctl.targets.brew, !.key = key]
             held == [m EXCEPT !.ctl = c, !.cool = begun]
             pumping == [held EXCEPT !.pump = RunningPump]
  <1>1. /\ IsShaped(c) /\ SameSettings(m.ctl, c) /\ c.mode \in {m.ctl.mode, "brew"}
        /\ InhibitBegins(m.ctl, heated) => c.cooling = TRUE /\ c.mode = "brew"
    BY BeginInhibits DEF IsMachine
  <1>2. DOMAIN begun = CooldownFields /\ begun.status = "pumping"
    BY DEF NoCooldown, CooldownFields
  <1>3. Start(m, key, started, pumped, heated) =
          IF InhibitBegins(m.ctl, heated) /\ started /\ ~m.pump.unknown
          THEN pumping ELSE Fail(held, "internal_error", pumped, heated)
    BY DEF Start, IsMachine
  <1> HIDE DEF c, begun
  <1>4. IsMachine(held) /\ held.ctl = c /\ held.cool = begun
    BY <1>1, <1>2 DEF IsMachine
  <1> HIDE DEF held
  <1>5. Cools(held, Fail(held, "internal_error", pumped, heated))
        /\ ~Active(Fail(held, "internal_error", pumped, heated))
    BY <1>4, FailCools
  <1>6. IsMachine(pumping) /\ pumping.ctl = c /\ pumping.cool = begun
    BY <1>4 DEF IsMachine, RunningPump
  <1> HIDE DEF pumping
  <1>7. QED
    BY <1>1, <1>2, <1>3, <1>4, <1>5, <1>6 DEF Cools, SameSettings, Inhibits, Active

LEMMA AgeCools ==
  ASSUME NEW m, IsMachine(m)
  PROVE  LET r == AgeCooldown(m) IN
           IsMachine(r) /\ r.ctl = m.ctl /\ r.pump = m.pump /\ r.cool.status = m.cool.status
  BY DEF AgeCooldown, IsMachine, CooldownFields

-----------------------------------------------------------------------------
(* What holds of the owners between two steps, and the ways to keep it: a step   *)
(* that only calms the controller, and one that is a method of the cooldown.     *)
Owned ==
  /\ IsMachine(M) /\ Inhibits(M)
  /\ ~(shot # "idle" /\ Active(M))
  /\ ctl.mode = "steam" => shot = "idle" /\ ~Active(M)
  /\ pump = RunningPump => Pumping(shot) \/ cool.status = "pumping"

LEMMA MachineParts ==
  /\ M.ctl = ctl /\ M.cool = cool /\ M.pump = pump
  /\ IsMachine(M) <=> /\ IsShaped(ctl) /\ DOMAIN cool = CooldownFields
                      /\ DOMAIN pump = {"running", "unknown"}
                      /\ cool.status \in {"idle", "pumping", "stabilizing"}
  BY DEF M, IsMachine

LEMMA CalmSteps ==
  ASSUME Owned, Calms(ctl, ctl'), cool' = cool, DOMAIN pump' = {"running", "unknown"},
         pump' = RunningPump => pump = RunningPump /\ shot' = shot, shot' \in {shot, "idle"}
  PROVE  Owned'
  BY MachineParts DEF Owned, Calms, IsMachine, Inhibits, Active, M, RunningPump, Pumping

LEMMA CoolSteps ==
  ASSUME Owned, NEW r, Cools(M, r), Become(r), shot' \in {shot, "idle"}
  PROVE  Owned' /\ SameSettings(ctl, ctl')
  <1>1. ctl' = r.ctl /\ cool' = r.cool /\ pump' = r.pump
    BY DEF Become
  <1>2. IsMachine(M)' /\ Inhibits(M)' /\ (Active(M)' <=> r.cool.status # "idle")
    BY <1>1, MachineParts DEF Cools, IsMachine, Inhibits, Active, M
  <1>3. SameSettings(ctl, ctl') /\ ctl'.mode \in {ctl.mode, "brew"} /\ (Active(M)' => Active(M))
    BY <1>1, <1>2, MachineParts DEF Cools, SameSettings, Active
  <1>4. pump' = RunningPump => cool'.status = "pumping"
    BY <1>1 DEF Cools
  <1>5. QED
    BY <1>2, <1>3, <1>4 DEF Owned, Active, RunningPump

LEMMA KeepSteps ==
  ASSUME Owned, Keeps(ctl, ctl'), cool' = cool, shot' = shot, pump' = pump
  PROVE  Owned' /\ SameSettings(ctl, ctl')
  BY CalmSteps, MachineParts DEF Keeps, Owned

LEMMA StopSteps ==
  ASSUME Owned, Keeps(ctl, ctl'), cool' = cool, shot' \in {shot, "idle"},
         NEW pumped \in BOOLEAN, pump' = PumpOff(M, pumped)
  PROVE  Owned' /\ SameSettings(ctl, ctl')
  BY CalmSteps, PumpOffStops DEF Keeps, Owned

(* The turns of the two control tasks.                                           *)
LEMMA TemperatureStep ==
  ASSUME Owned, TemperatureUpdate
  PROVE  Owned' /\ SameSettings(ctl, ctl')
  <1>1. PICK reading \in Readings, released, ok, pulse, pumped, heated \in BOOLEAN :
          LET m == IF failSafe THEN Consume(M, pumped, heated) ELSE M IN
          /\ released \/ SessionExpired(ctl)
          /\ failSafe \/ (pumped /\ heated)
          /\ Become([m EXCEPT !.ctl = Update(@, reading, tripped, released, ok, pulse)])
    BY Zenon DEF TemperatureUpdate
  <1>2. CASE failSafe
    <2> DEFINE m == Consume(M, pumped, heated)
    <2>1. Cools(M, m)
      BY ConsumeCools DEF Owned
    <2>2. Become([m EXCEPT !.ctl = Update(m.ctl, reading, tripped, released, ok, pulse)])
      BY <1>1, <1>2
    <2> HIDE DEF m
    <2>3. Keeps(m.ctl, Update(m.ctl, reading, tripped, released, ok, pulse))
      BY <2>1, UpdateKeeps DEF Cools, IsMachine
    <2>4. Cools(M, [m EXCEPT !.ctl = Update(m.ctl, reading, tripped, released, ok, pulse)])
      BY <2>1, <2>3, CoolsThenKeeps
    <2>5. shot' \in {shot, "idle"}
      BY DEF TemperatureUpdate
    <2>6. QED
      BY <2>2, <2>4, <2>5, CoolSteps
  <1>3. CASE ~failSafe
    <2>1. Become([M EXCEPT !.ctl = Update(M.ctl, reading, tripped, released, ok, pulse)])
      BY <1>1, <1>3
    <2>2. Keeps(ctl, Update(ctl, reading, tripped, released, ok, pulse))
      BY UpdateKeeps, MachineParts DEF Owned
    <2>3. Keeps(ctl, ctl') /\ cool' = cool /\ pump' = pump /\ shot' = shot
      BY <2>1, <2>2, <1>3 DEF Become, M, TemperatureUpdate
    <2>4. QED
      BY <2>3, KeepSteps
  <1>4. QED
    BY <1>2, <1>3

LEMMA AdvanceStep ==
  ASSUME Owned, ~Active(M), cool' = cool, NEW phase, AdvanceShot(phase)
  PROVE  Owned' /\ SameSettings(ctl, ctl')
  <1>1. Keeps(ctl, ctl') /\ shot' = phase
    BY SmallKeeps, MachineParts DEF Owned, AdvanceShot
  <1>2. /\ DOMAIN pump' = {"running", "unknown"}
        /\ pump' = RunningPump => Pumping(shot')
    <2>1. pump = RunningPump => Pumping(shot)
      BY MachineParts DEF Owned, Active
    <2>2. DOMAIN PumpFor(phase) = {"running", "unknown"} /\ (PumpFor(phase) = RunningPump => Pumping(phase))
      BY DEF PumpFor, RunningPump, StoppedPump
    <2>3. QED
      BY <2>1, <2>2, MachineParts DEF AdvanceShot, Owned
  <1>3. ctl'.mode = "steam" => shot' = "idle"
    BY <1>1 DEF AdvanceShot, Owned, Keeps, Calms
  <1>4. IsMachine(M)' /\ Inhibits(M)' /\ ~Active(M)' /\ SameSettings(ctl, ctl')
    BY <1>1, <1>2, MachineParts DEF Owned, Keeps, Calms, IsMachine, Inhibits, Active, M
  <1>5. QED
    BY <1>2, <1>3, <1>4 DEF Owned, RunningPump, Pumping

LEMMA WorkflowStep ==
  ASSUME Owned, WorkflowUpdate
  PROVE  Owned' /\ SameSettings(ctl, ctl')
  <1>1. CASE failSafe \/ Active(M)
    <2>1. PICK pumped \in BOOLEAN, heated \in BOOLEAN :
            LET m == IF failSafe THEN Consume(M, pumped, heated) ELSE UpdateCooldown(M, pumped, heated)
            IN Become([m EXCEPT !.ctl = SetExtractionPhase(m.ctl, "idle")])
      BY <1>1 DEF WorkflowUpdate, WorkflowTurn
    <2> DEFINE m == IF failSafe THEN Consume(M, pumped, heated) ELSE UpdateCooldown(M, pumped, heated)
    <2>2. Cools(M, m)
      BY <1>1, ConsumeCools, AdvanceCools DEF Owned, UpdateCooldown
    <2>3. Become([m EXCEPT !.ctl = SetExtractionPhase(m.ctl, "idle")])
      BY <2>1
    <2> HIDE DEF m
    <2>4. Cools(M, [m EXCEPT !.ctl = SetExtractionPhase(m.ctl, "idle")])
      BY <2>2, SmallKeeps, CoolsThenKeeps DEF Cools, IsMachine
    <2>5. shot' \in {shot, "idle"}
      BY <1>1 DEF WorkflowUpdate, WorkflowTurn
    <2>6. QED
      BY <2>3, <2>4, <2>5, CoolSteps
  <1>2. CASE ~(failSafe \/ Active(M))
    <2>1. cool' = cool /\ ((\E phase \in Phases : AdvanceShot(phase)) \/ FailShot)
      BY <1>2 DEF WorkflowUpdate, WorkflowTurn
    <2>2. ASSUME FailShot PROVE Owned' /\ SameSettings(ctl, ctl')
      <3>1. Keeps(ctl, SetExtractionPhase(ctl, "idle")) /\ IsShaped(SetExtractionPhase(ctl, "idle"))
        BY SmallKeeps, MachineParts DEF Owned, Keeps, Calms
      <3>2. Keeps(ctl, ctl')
        BY <2>2, <3>1, LatchKeeps, KeepsTransitive DEF FailShot
      <3>3. QED
        BY <2>1, <2>2, <3>2, StopSteps DEF FailShot
    <2>3. QED
      BY <1>2, <2>1, <2>2, AdvanceStep
  <1>3. QED
    BY <1>1, <1>2

LEMMA EmergencyStep ==
  ASSUME Owned, Emergency
  PROVE  Owned' /\ SameSettings(ctl, ctl')
  <1>1. Keeps(ctl, ctl')
    BY SmallKeeps, MachineParts DEF Owned, Emergency
  <1>2. QED
    BY <1>1, StopSteps DEF Emergency

(* The requests.  All but two of those that end at once keep.                    *)
LEMMA ModeStep ==
  ASSUME Owned, NEW mode \in Modes, RequestMode(mode)
  PROVE  Owned' /\ SameSettings(ctl, ctl')
  <1> DEFINE refused == Faulted(ctl) \/ (mode = "steam" /\ (shot # "idle" \/ Active(M)))
  <1>1. PICK ok \in BOOLEAN : AbortOr(ok, IF refused THEN ctl ELSE SetMode(ctl, mode, ok))
    BY DEF RequestMode
  <1>2. IsShaped(ctl) /\ cool' = cool /\ pump' = pump /\ shot' = shot
    BY MachineParts DEF Owned, RequestMode, OnlyControl
  <1>3. CASE Calibrating(ctl) \/ refused
    <2>1. ctl' = Abort(ctl, ok) \/ ctl' = ctl
      BY <1>1, <1>3 DEF AbortOr
    <2>2. Keeps(ctl, ctl')
      BY <1>2, <2>1, AbortKeeps, KeepsItself
    <2>3. QED
      BY <1>2, <2>2, KeepSteps
  <1>4. CASE ~Calibrating(ctl) /\ ~refused
    <2>1. ctl' = SetMode(ctl, mode, ok)
      BY <1>1, <1>4 DEF AbortOr
    <2>2. /\ IsShaped(ctl') /\ SameSettings(ctl, ctl') /\ ctl'.cooling = ctl.cooling
          /\ ctl'.mode \in {ctl.mode, mode, "brew"}
      BY <1>2, <2>1, SetModeCalms
    <2>3. ctl'.mode = "steam" => shot = "idle" /\ ~Active(M)
      BY <1>4, <2>2 DEF Owned
    <2>4. IsMachine(M)' /\ Inhibits(M)' /\ (Active(M)' <=> Active(M))
      BY <1>2, <2>2, MachineParts DEF Owned, IsMachine, Inhibits, Active, M
    <2>5. QED
      BY <1>2, <2>2, <2>3, <2>4 DEF Owned, RunningPump, Pumping
  <1>5. QED
    BY <1>3, <1>4

LEMMA PlainSteps ==
  ASSUME Owned,
         \/ (\E enabled \in BOOLEAN : RequestHeater(enabled)) \/ RequestDismiss
         \/ Poll \/ RequestStartCalibration \/ RequestRenew \/ RequestCancel
         \/ (\E candidate \in Candidates : RequestCandidate(candidate))
  PROVE  Owned' /\ SameSettings(ctl, ctl')
  <1>1. IsShaped(ctl)
    BY MachineParts DEF Owned
  <1>2. cool' = cool /\ pump' = pump /\ shot' = shot
    BY DEF RequestHeater, RequestDismiss, Poll, RequestStartCalibration, RequestCandidate,
           RequestRenew, RequestCancel, OnlyControl
  <1>3. \A ok \in BOOLEAN :
          LET c == Expire(ctl, ok) IN
          /\ Keeps(ctl, c) /\ Keeps(ctl, StartCalibration(c, ok)) /\ Keeps(ctl, Renew(c))
          /\ Keeps(ctl, RestoreOrdinaryBrew(c, ok)) /\ \A k : Keeps(ctl, SetCandidate(c, k, ok))
    <2> TAKE ok \in BOOLEAN
    <2> DEFINE c == Expire(ctl, ok)
    <2>1. Keeps(ctl, c) /\ IsShaped(c)
      BY <1>1, AbortKeeps DEF Keeps, Calms
    <2> HIDE DEF c
    <2>2. /\ Keeps(c, StartCalibration(c, ok)) /\ \A k : Keeps(c, SetCandidate(c, k, ok))
          /\ Keeps(c, Renew(c)) /\ Keeps(c, RestoreOrdinaryBrew(c, ok))
      BY <2>1, CalibrationKeeps, RestoreKeeps
    <2>3. QED
      BY <2>1, <2>2, KeepsTransitive DEF c
  <1>4. Keeps(ctl, ctl')
    <2>1. CASE \E enabled \in BOOLEAN : RequestHeater(enabled)
      BY <1>1, <2>1, SetHeaterKeeps, AbortOrKeeps DEF RequestHeater
    <2>2. CASE RequestDismiss
      <3>1. PICK ok \in BOOLEAN, pulse \in BOOLEAN : ctl' = Dismiss(ctl, tripped, ok /\ ~inhibited, pulse)
        BY <2>2 DEF RequestDismiss
      <3>2. (ok /\ ~inhibited) \in BOOLEAN
        OBVIOUS
      <3>3. QED
        BY <1>1, <3>1, <3>2, DismissKeeps
    <2>3. CASE Poll
      BY <1>3, <2>3 DEF Poll
    <2>4. CASE RequestStartCalibration
      BY <1>3, <2>4 DEF RequestStartCalibration
    <2>5. CASE \E candidate \in Candidates : RequestCandidate(candidate)
      BY <1>3, <2>5 DEF RequestCandidate
    <2>6. CASE RequestRenew
      BY <1>3, <2>6 DEF RequestRenew
    <2>7. CASE RequestCancel
      BY <1>3, <2>7 DEF RequestCancel
    <2>8. QED
      BY <2>1, <2>2, <2>3, <2>4, <2>5, <2>6, <2>7
  <1>5. QED
    BY <1>2, <1>4, KeepSteps

LEMMA StartShotStep ==
  ASSUME Owned, NEW phase \in FirstPhases, RequestStartShot(phase)
  PROVE  Owned' /\ SameSettings(ctl, ctl')
  <1>1. IsShaped(ctl) /\ cool' = cool
    BY MachineParts DEF Owned, RequestStartShot
  <1>2. CASE Calibrating(ctl) \/ Active(M) \/ ctl.mode # "brew" \/ shot # "idle"
    <2>1. Keeps(ctl, ctl')
      BY <1>1, <1>2, AbortOrKeeps, KeepsItself DEF RequestStartShot
    <2>2. QED
      BY <1>1, <1>2, <2>1, KeepSteps DEF RequestStartShot
  <1>3. CASE ~(Calibrating(ctl) \/ Active(M) \/ ctl.mode # "brew" \/ shot # "idle")
    <2>1. CASE shot' = phase /\ pump' = PumpFor(phase) /\ ctl' = ctl
      <3>1. DOMAIN PumpFor(phase) = {"running", "unknown"} /\ (PumpFor(phase) = RunningPump => Pumping(phase))
        BY DEF PumpFor, RunningPump, StoppedPump
      <3>2. IsMachine(M)' /\ Inhibits(M)' /\ ~Active(M)' /\ SameSettings(ctl, ctl')
        BY <1>1, <1>3, <2>1, <3>1, MachineParts DEF Owned, IsMachine, Inhibits, Active, M, SameSettings
      <3>3. QED
        BY <1>3, <2>1, <3>1, <3>2 DEF Owned, RunningPump, Pumping
    <2>2. CASE /\ \E pumped \in BOOLEAN : pump' = PumpOff(M, pumped)
               /\ ctl' = LatchFault(ctl, "internal_error") /\ shot' = shot
      BY <1>1, <2>2, LatchKeeps, StopSteps
    <2>3. QED
      BY <1>3, <2>1, <2>2 DEF RequestStartShot
  <1>4. QED
    BY <1>2, <1>3

LEMMA StopShotStep ==
  ASSUME Owned, RequestStopShot
  PROVE  Owned' /\ SameSettings(ctl, ctl')
  <1>1. PICK pumped \in BOOLEAN :
          pump' = PumpOff(M, pumped) /\ ctl' \in {ctl, LatchFault(ctl, "internal_error")}
    BY DEF RequestStopShot
  <1>2. Keeps(ctl, ctl')
    BY <1>1, LatchKeeps, KeepsItself, MachineParts DEF Owned
  <1>3. QED
    BY <1>1, <1>2, StopSteps DEF RequestStopShot

LEMMA StartCooldownStep ==
  ASSUME Owned, NEW key \in Keys, RequestStartCooldown(key)
  PROVE  Owned' /\ SameSettings(ctl, ctl')
  <1>1. CASE ~Calibrating(ctl) /\ CanStart(M, key, shot # "idle")
    <2>1. PICK started \in BOOLEAN, pumped \in BOOLEAN, heated \in BOOLEAN :
            Become(Start(M, key, started /\ ~inhibited, pumped, heated))
      BY <1>1 DEF RequestStartCooldown
    <2> DEFINE begins == started /\ ~inhibited
               r == Start(M, key, begins, pumped, heated)
    <2>2. begins \in BOOLEAN /\ Become(r)
      BY <2>1
    <2> HIDE DEF begins
    <2>3. /\ IsMachine(r) /\ SameSettings(M.ctl, r.ctl) /\ r.ctl.mode \in {M.ctl.mode, "brew"}
          /\ Inhibits(r) /\ (r.pump = RunningPump => r.cool.status = "pumping")
          /\ Active(r) => r.ctl.mode = "brew"
      BY <1>1, <2>2, StartCools, MachineParts DEF Owned
    <2>4. ctl' = r.ctl /\ cool' = r.cool /\ pump' = r.pump
      BY <2>2 DEF Become
    <2> HIDE DEF r
    <2>5. IsMachine(M)' /\ Inhibits(M)' /\ (Active(M)' <=> Active(r))
      BY <2>3, <2>4, MachineParts DEF IsMachine, Inhibits, Active, M
    <2>6. shot = "idle" /\ shot' = shot
      BY <1>1 DEF CanStart, RequestStartCooldown
    <2>7. SameSettings(ctl, ctl') /\ (ctl'.mode = "steam" => ~Active(M)')
      BY <2>3, <2>4, <2>5, MachineParts DEF SameSettings
    <2>8. pump' = RunningPump => cool'.status = "pumping"
      BY <2>3, <2>4
    <2>9. QED
      BY <2>5, <2>6, <2>7, <2>8 DEF Owned, RunningPump
  <1>2. CASE ~(~Calibrating(ctl) /\ CanStart(M, key, shot # "idle"))
    <2>1. cool' = cool /\ pump' = pump /\ shot' = shot /\ \E ok \in BOOLEAN : AbortOr(ok, ctl)
      BY <1>2 DEF RequestStartCooldown
    <2>2. QED
      BY <2>1, AbortOrKeeps, KeepsItself, KeepSteps, MachineParts DEF Owned
  <1>3. QED
    BY <1>1, <1>2

LEMMA StopCooldownStep ==
  ASSUME Owned, StopCooldown
  PROVE  Owned' /\ SameSettings(ctl, ctl')
  <1>1. PICK wrapped \in BOOLEAN, pumped \in BOOLEAN, heated \in BOOLEAN :
          Become(Stop(M, wrapped, pumped, heated))
    BY Zenon DEF StopCooldown
  <1>2. shot' = shot
    BY DEF StopCooldown
  <1>3. CASE Stop(M, wrapped, pumped, heated) = M
    BY <1>1, <1>2, <1>3, KeepSteps, KeepsItself, MachineParts DEF Become, Owned
  <1>4. CASE Cools(M, Stop(M, wrapped, pumped, heated))
    BY <1>1, <1>2, <1>4, CoolSteps
  <1>5. QED
    BY <1>3, <1>4, StopCools DEF Owned

(* The transactions.  Only their two adopting steps change a setting in use.     *)
LEMMA TransactionSteps ==
  ASSUME Owned,
         \/ RequestStop \/ (\E targets \in TargetPairs, steam \in world.steam : RequestSettings(targets, steam))
         \/ RequestSaveCalibration \/ PrepareRequest \/ SaveTargets \/ SaveSteam \/ RestoreTargets
         \/ RollbackRequest \/ SaveCalibration \/ RollbackCalibrationRequest \/ Trip
  PROVE  Owned' /\ SameSettings(ctl, ctl')
  <1>1. IsShaped(ctl) /\ Keeps(ctl, ctl)
    BY MachineParts, KeepsItself DEF Owned
  <1>2. cool' = cool /\ pump' = pump /\ shot' = shot
    BY DEF RequestStop, RequestSettings, RequestSaveCalibration, PrepareRequest, SaveTargets, SaveSteam,
           RestoreTargets, RollbackRequest, SaveCalibration, RollbackCalibrationRequest, Trip,
           InsideTheMutex, OutsideTheMutex
  <1>3. Keeps(ctl, ctl')
    <2>1. CASE \E targets \in TargetPairs, steam \in world.steam : RequestSettings(targets, steam)
      BY <1>1, <2>1, AbortOrKeeps DEF RequestSettings
    <2>2. CASE RequestSaveCalibration
      <3>1. PICK ok \in BOOLEAN, saves \in BOOLEAN :
              LET c == Expire(ctl, ok) IN ctl' \in {PrepareCalibrationSave(c, saves), Renew(c), c}
        BY <2>2 DEF RequestSaveCalibration
      <3> DEFINE c == Expire(ctl, ok)
      <3>2. Keeps(ctl, c) /\ IsShaped(c)
        BY <1>1, AbortKeeps DEF Keeps, Calms
      <3>3. ctl' \in {PrepareCalibrationSave(c, saves), Renew(c), c}
        BY <3>1
      <3> HIDE DEF c
      <3>4. Keeps(c, PrepareCalibrationSave(c, saves)) /\ Keeps(c, Renew(c))
        BY <3>2, CalibrationKeeps
      <3>5. QED
        BY <3>2, <3>3, <3>4, KeepsTransitive
    <2>3. CASE PrepareRequest
      BY <1>1, <2>3, PrepareKeeps DEF PrepareRequest
    <2>4. CASE RollbackRequest
      BY <1>1, <2>4, RollbackKeeps DEF RollbackRequest
    <2>5. CASE RollbackCalibrationRequest
      BY <1>1, <2>5, CalibrationKeeps DEF RollbackCalibrationRequest
    <2>6. CASE RequestStop \/ SaveTargets \/ SaveSteam \/ RestoreTargets \/ SaveCalibration \/ Trip
      BY <1>1, <2>6 DEF RequestStop, SaveTargets, SaveSteam, RestoreTargets, SaveCalibration, Trip,
                        OutsideTheMutex
    <2>7. QED
      BY <2>1, <2>2, <2>3, <2>4, <2>5, <2>6
  <1>4. QED
    BY <1>2, <1>3, KeepSteps

LEMMA AdoptStep ==
  ASSUME Owned, AdoptRequest
  PROVE  /\ Owned' /\ ctl'.offset = ctl.offset
         /\ ctl'.targets \in {ctl.targets, req.targets} /\ ctl'.steam \in {ctl.steam, req.steam}
  <1>1. /\ Calms(ctl, ctl') /\ ctl'.offset = ctl.offset
        /\ ctl'.targets \in {ctl.targets, req.targets} /\ ctl'.steam \in {ctl.steam, req.steam}
    BY AdoptSettingsCalms, MachineParts DEF Owned, AdoptRequest
  <1>2. cool' = cool /\ pump' = pump /\ shot' = shot
    BY DEF AdoptRequest, InsideTheMutex
  <1>3. QED
    BY <1>1, <1>2, CalmSteps, MachineParts DEF Owned

LEMMA AdoptCalibrationStep ==
  ASSUME Owned, AdoptCalibrationRequest
  PROVE  /\ Owned' /\ ctl'.offset \in {ctl.offset, req.offset}
         /\ ctl'.targets = ctl.targets /\ ctl'.steam = ctl.steam
  <1>1. /\ Calms(ctl, ctl') /\ ctl'.offset \in {ctl.offset, req.offset}
        /\ ctl'.targets = ctl.targets /\ ctl'.steam = ctl.steam
    BY AdoptCalibrationCalms, MachineParts DEF Owned, AdoptCalibrationRequest
  <1>2. cool' = cool /\ pump' = pump /\ shot' = shot
    BY DEF AdoptCalibrationRequest, InsideTheMutex
  <1>3. QED
    BY <1>1, <1>2, CalmSteps, MachineParts DEF Owned

(* Time, and what a machine starts from.                                         *)
LEMMA TickStep ==
  ASSUME Owned, Tick
  PROVE  Owned' /\ SameSettings(ctl, ctl')
  <1> DEFINE m == [M EXCEPT !.ctl = Age(ctl)]
  <1>1. Become(AgeCooldown(m)) /\ shot' = shot
    BY MachineParts DEF Tick
  <1>2. Keeps(ctl, Age(ctl))
    BY SmallKeeps, MachineParts DEF Owned
  <1>3. IsMachine(m) /\ m.ctl = Age(ctl) /\ m.cool = cool /\ m.pump = pump
    BY <1>2, MachineParts DEF Owned, IsMachine, Keeps, Calms, M
  <1> HIDE DEF m
  <1>4. /\ IsMachine(AgeCooldown(m)) /\ ctl' = Age(ctl) /\ pump' = pump /\ cool'.status = cool.status
        /\ cool' = AgeCooldown(m).cool
    BY <1>1, <1>3, AgeCools DEF Become
  <1>5. IsMachine(M)' /\ Inhibits(M)' /\ (Active(M)' <=> Active(M)) /\ SameSettings(ctl, ctl')
    BY <1>2, <1>3, <1>4, MachineParts DEF Owned, IsMachine, Inhibits, Active, M, Keeps, Calms
  <1>6. ctl'.mode \in {ctl.mode, "brew"}
    BY <1>2, <1>4 DEF Keeps, Calms
  <1>7. QED
    BY <1>1, <1>4, <1>5, <1>6 DEF Owned, RunningPump, Pumping

LEMMA BootedIsCalm ==
  ASSUME NEW stored, NEW reading, NEW pulse
  PROVE  LET r == Booted(stored, reading, pulse) IN
           IsShaped(r) /\ r.cooling = FALSE /\ r.mode = "brew"
  <1> DEFINE c == Construct(stored.targets, stored.steam, stored.offset)
  <1>1. IsShaped(c) /\ c.cooling = FALSE /\ c.mode = "brew"
    BY DEF Construct, LatchFault, IsShaped, ControllerFields
  <1> HIDE DEF c
  <1>2. Keeps(c, Update(c, reading, FALSE, TRUE, TRUE, pulse))
    BY <1>1, UpdateKeeps
  <1>3. QED
    BY <1>1, <1>2 DEF Booted, c, Keeps, Calms

LEMMA BootIsOwned ==
  ASSUME IsShaped(ctl), ctl.cooling = FALSE, ctl.mode = "brew",
         cool = NoCooldown, pump = StoppedPump, shot = "idle"
  PROVE  Owned
  BY MachineParts DEF Owned, Inhibits, Active, NoCooldown, CooldownFields, StoppedPump, RunningPump

LEMMA RestartStep ==
  ASSUME Restart
  PROVE  Owned'
  <1>1. IsShaped(ctl') /\ ctl'.cooling = FALSE /\ ctl'.mode = "brew"
    <2>1. PICK reading, pulse : ctl' = Booted(nvs, reading, pulse)
      BY DEF Restart
    <2>2. QED
      BY <2>1, BootedIsCalm
  <1>2. cool' = NoCooldown /\ pump' = StoppedPump /\ shot' = "idle"
    BY DEF Restart
  <1>3. QED
    BY <1>1, <1>2, MachineParts
       DEF Owned, IsMachine, Inhibits, Active, M, NoCooldown, CooldownFields, StoppedPump, RunningPump

-----------------------------------------------------------------------------
(* A request that is about to adopt has persisted what it will adopt: what the   *)
(* controller uses has not moved since, as there is one HTTP task.               *)
Fields == {"targets", "steam", "offset"}
SavesRequest ==
  /\ DOMAIN req = Fields /\ DOMAIN nvs = Fields
  /\ api \in {"save_steam", "adopt"} => req.targets \in {ctl.targets, nvs.targets}
  /\ api = "adopt" => req.steam \in {ctl.steam, nvs.steam}
  /\ api = "adopt_calibration" => req.offset = nvs.offset

LEMMA OtherRequests ==
  ASSUME SavesRequest, SameSettings(ctl, ctl'), req' = req, nvs' = nvs,
         api' = api \/ api' \notin {"save_steam", "adopt", "adopt_calibration"}
  PROVE  SavesRequest'
  BY DEF SavesRequest, SameSettings

LEMMA FreshRequests ==
  ASSUME DOMAIN req' = Fields, DOMAIN nvs' = Fields,
         api' \notin {"save_steam", "adopt", "adopt_calibration"}
  PROVE  SavesRequest'
  BY DEF SavesRequest

LEMMA SavingSteps ==
  ASSUME SavesRequest, SameSettings(ctl, ctl'),
         \/ (\E targets \in TargetPairs, steam \in world.steam : RequestSettings(targets, steam))
         \/ RequestSaveCalibration \/ PrepareRequest \/ SaveTargets \/ SaveSteam \/ RestoreTargets
         \/ RollbackRequest \/ SaveCalibration \/ RollbackCalibrationRequest
  PROVE  SavesRequest'
  <1> USE DEF Fields
  <1>1. CASE \E targets \in TargetPairs, steam \in world.steam : RequestSettings(targets, steam)
    BY <1>1, FreshRequests DEF RequestSettings, SavesRequest
  <1>2. CASE RequestSaveCalibration
    BY <1>2, FreshRequests DEF RequestSaveCalibration, SavesRequest
  <1>3. CASE PrepareRequest
    BY <1>3, FreshRequests DEF PrepareRequest, SavesRequest
  <1>4. CASE SaveTargets
    BY <1>4 DEF SaveTargets, SavesRequest, TargetsChange, SameSettings
  <1>5. CASE SaveSteam
    BY <1>5 DEF SaveSteam, SavesRequest, SteamChanges, SameSettings
  <1>6. CASE RestoreTargets
    BY <1>6, FreshRequests DEF RestoreTargets, SavesRequest
  <1>7. CASE RollbackRequest
    BY <1>7, FreshRequests DEF RollbackRequest, SavesRequest
  <1>8. CASE SaveCalibration
    BY <1>8 DEF SaveCalibration, SavesRequest
  <1>9. CASE RollbackCalibrationRequest
    BY <1>9, FreshRequests DEF RollbackCalibrationRequest, SavesRequest
  <1>10. QED
    BY <1>1, <1>2, <1>3, <1>4, <1>5, <1>6, <1>7, <1>8, <1>9

-----------------------------------------------------------------------------
(* All together.                                                                 *)
Consistent == Owned /\ SavesRequest

PersistedOnly ==
  /\ ctl'.targets \in {ctl.targets, nvs.targets}
  /\ ctl'.steam \in {ctl.steam, nvs.steam}
  /\ ctl'.offset \in {ctl.offset, nvs.offset}

LEMMA InitIsConsistent == Init => Consistent
  <1> SUFFICES ASSUME Init PROVE Consistent
    OBVIOUS
  <1>1. PICK offset, reading, pulse :
          /\ nvs = [targets |-> DefaultTargets, steam |-> DefaultSteam, offset |-> offset]
          /\ ctl = Booted(nvs, reading, pulse) /\ Boot(nvs)
    BY DEF Init
  <1>2. Owned
    BY <1>1, BootedIsCalm, BootIsOwned DEF Boot
  <1>3. SavesRequest
    BY <1>1 DEF Boot, SavesRequest, Fields
  <1>4. QED
    BY <1>2, <1>3 DEF Consistent

LEMMA StepsOfServe ==
  ASSUME Consistent, Serve
  PROVE  Consistent' /\ PersistedOnly
  <1> USE DEF Consistent
  <1>1. Owned' /\ SameSettings(ctl, ctl')
    <2>1. CASE \E mode \in Modes : RequestMode(mode)
      BY <2>1, ModeStep
    <2>2. CASE (\E phase \in FirstPhases : RequestStartShot(phase)) \/ RequestStopShot
      BY <2>2, StartShotStep, StopShotStep
    <2>3. CASE \E key \in Keys : RequestStartCooldown(key)
      BY <2>3, StartCooldownStep
    <2>4. QED
      BY <2>1, <2>2, <2>3, PlainSteps, TransactionSteps DEF Serve
  <1>2. CASE \/ \E targets \in TargetPairs, steam \in world.steam : RequestSettings(targets, steam)
             \/ RequestSaveCalibration
    BY <1>1, <1>2, SavingSteps DEF PersistedOnly, SameSettings
  <1>3. CASE ~(\/ \E targets \in TargetPairs, steam \in world.steam : RequestSettings(targets, steam)
               \/ RequestSaveCalibration)
    <2>1. req' = req /\ nvs' = nvs /\ api' \in {"idle", "stop"}
      BY <1>3 DEF Serve, Request, RequestMode, RequestHeater, RequestDismiss, Poll, RequestStartCalibration,
                  RequestRenew, RequestCancel, RequestCandidate, RequestStartShot, RequestStopShot,
                  RequestStartCooldown, RequestStop
    <2>2. QED
      BY <1>1, <2>1, OtherRequests DEF PersistedOnly, SameSettings
  <1>4. QED
    BY <1>2, <1>3

LEMMA StepsOfContinue ==
  ASSUME Consistent, Continue
  PROVE  Consistent' /\ PersistedOnly
  <1> USE DEF Consistent
  <1>1. CASE AdoptRequest
    <2>1. /\ Owned' /\ ctl'.offset = ctl.offset
          /\ ctl'.targets \in {ctl.targets, req.targets} /\ ctl'.steam \in {ctl.steam, req.steam}
      BY <1>1, AdoptStep
    <2>2. req.targets \in {ctl.targets, nvs.targets} /\ req.steam \in {ctl.steam, nvs.steam}
      BY <1>1 DEF AdoptRequest, SavesRequest
    <2>3. SavesRequest'
      BY <1>1, FreshRequests DEF AdoptRequest, SavesRequest
    <2>4. QED
      BY <2>1, <2>2, <2>3 DEF PersistedOnly
  <1>2. CASE AdoptCalibrationRequest
    <2>1. /\ Owned' /\ ctl'.offset \in {ctl.offset, req.offset}
          /\ ctl'.targets = ctl.targets /\ ctl'.steam = ctl.steam
      BY <1>2, AdoptCalibrationStep
    <2>2. req.offset = nvs.offset
      BY <1>2 DEF AdoptCalibrationRequest, SavesRequest
    <2>3. SavesRequest'
      BY <1>2, FreshRequests DEF AdoptCalibrationRequest, SavesRequest
    <2>4. QED
      BY <2>1, <2>2, <2>3 DEF PersistedOnly
  <1>3. CASE StopCooldown
    <2>1. Owned' /\ SameSettings(ctl, ctl')
      BY <1>3, StopCooldownStep
    <2>2. api' = "idle" /\ req' = req /\ nvs' = nvs
      BY <1>3 DEF StopCooldown
    <2>3. QED
      BY <2>1, <2>2, OtherRequests DEF PersistedOnly, SameSettings
  <1>4. CASE ~AdoptRequest /\ ~AdoptCalibrationRequest /\ ~StopCooldown
    <2>1. Owned' /\ SameSettings(ctl, ctl')
      BY <1>4, TransactionSteps DEF Continue
    <2>2. SavesRequest'
      BY <1>4, <2>1, SavingSteps DEF Continue
    <2>3. QED
      BY <2>1, <2>2 DEF PersistedOnly, SameSettings
  <1>5. QED
    BY <1>1, <1>2, <1>3, <1>4

LEMMA NextIsConsistent ==
  ASSUME Consistent, [Next]_vars
  PROVE  Consistent' /\ (PersistedOnly \/ Restart)
  <1> USE DEF Consistent
  <1>1. CASE Serve \/ Continue
    BY <1>1, StepsOfServe, StepsOfContinue
  <1>2. CASE Restart
    BY <1>2, RestartStep, FreshRequests DEF Restart, SavesRequest
  <1>3. CASE TemperatureUpdate \/ WorkflowUpdate \/ MissLock \/ MissInRequest \/ Trip \/ Tick
    <2>1. Owned' /\ SameSettings(ctl, ctl')
      BY <1>3, TemperatureStep, WorkflowStep, EmergencyStep, TransactionSteps, TickStep
         DEF MissLock, MissInRequest
    <2>2. /\ req' = req /\ nvs' = nvs
          /\ api' = api \/ api' \notin {"save_steam", "adopt", "adopt_calibration"}
      BY <1>3 DEF TemperatureUpdate, WorkflowUpdate, WorkflowTurn, Overtake, MissLock, MissInRequest,
                  Trip, Tick
    <2>3. QED
      BY <2>1, <2>2, OtherRequests DEF PersistedOnly, SameSettings
  <1>4. CASE UNCHANGED vars
    <2>1. ctl' = ctl /\ cool' = cool /\ pump' = pump /\ shot' = shot /\ api' = api /\ req' = req /\ nvs' = nvs
      BY <1>4 DEF vars, state
    <2>2. Owned' /\ SameSettings(ctl, ctl')
      BY <2>1, KeepSteps, KeepsItself, MachineParts DEF Owned
    <2>3. QED
      BY <2>1, <2>2, OtherRequests DEF PersistedOnly, SameSettings
  <1>5. QED
    BY <1>1, <1>2, <1>3, <1>4 DEF Next

LEMMA AlwaysConsistent == Spec => []Consistent
  BY InitIsConsistent, NextIsConsistent, PTL DEF Spec

(* The heater's inhibit is set exactly while a cooldown is active: however the   *)
(* cooldown ends (CooldownController's fail, complete, stop), it is released.    *)
THEOREM HeaterIsReleased == Spec => []InhibitIsOwned
  <1>1. Consistent => InhibitIsOwned
    BY MachineParts DEF Consistent, Owned, Inhibits, InhibitIsOwned
  <1>2. QED
    BY <1>1, AlwaysConsistent, PTL

(* A shot, a cooldown and Steam exclude each other, and a pump that runs does so *)
(* for the shot or the cooldown that owns it, whatever output failed before.     *)
THEOREM PumpIsOwned == Spec => []PumpHasOneOwner
  <1>1. Consistent => PumpHasOneOwner
    BY DEF Consistent, Owned, PumpHasOneOwner
  <1>2. QED
    BY <1>1, AlwaysConsistent, PTL

(* The settings a controller comes to use (update_settings and                   *)
(* save_temperature_calibration) are in NVS at that step, whatever failed.       *)
THEOREM PersistedFirst == Spec => AdoptsOnlyPersisted
  <1>1. Consistent /\ [Next]_vars =>
          [\/ /\ ctl'.targets \in {ctl.targets, nvs.targets}
              /\ ctl'.steam \in {ctl.steam, nvs.steam}
              /\ ctl'.offset \in {ctl.offset, nvs.offset}
           \/ Restart]_vars
    BY NextIsConsistent DEF PersistedOnly
  <1>2. QED
    BY <1>1, AlwaysConsistent, PTL DEF Spec, AdoptsOnlyPersisted

-----------------------------------------------------------------------------
(* II. Types.                                                                    *)

Alone(c) ==
  Calibrating(c) =>
    /\ c.mode = "brew" /\ c.permit /\ ~Faulted(c) /\ Idle(c) /\ ~c.cooling
    /\ ~Running(c.warmup) /\ ~Running(c.recovery)
Sound(c) == IsController(c) /\ Alone(c)

HardFaults == Faults \ {"over_temperature"}
Carries(c, r) ==
  /\ Sound(r)
  /\ Calibrating(r) => Calibrating(c)
  /\ Faulted(c) => r.fault \in {c.fault} \cup HardFaults

LEMMA CarriesTransitive ==
  ASSUME NEW c, NEW d, NEW e, Carries(c, d), Carries(d, e)
  PROVE  Carries(c, e)
  BY DEF Carries, Faulted, HardFaults, Faults

LEMMA CarriesItself ==
  ASSUME NEW c, Sound(c)
  PROVE  Carries(c, c)
  BY DEF Carries

LEMMA AgesAreClosed ==
  /\ \A limit \in Nat : Off \in Ages(limit) /\ 0 \in Ages(limit)
  /\ \A limit \in Nat : \A age \in Ages(limit) : Older(age, limit) \in Ages(limit)
  /\ ~Running(Off) /\ \A limit : Older(Off, limit) = Off
  BY DEF Older, Ages, Off, Running

LEMMA LimitsAreNat ==
  /\ HeatingTimeout \in Nat /\ ReadyStability \in Nat /\ SessionLease \in Nat
  /\ LongestSteam \in Nat /\ FailureStreak \in Nat
  BY TimingAssumption

-----------------------------------------------------------------------------
(* The methods of TemperatureController, from the smallest to update.            *)
LEMMA LatchCarries ==
  ASSUME NEW c, Sound(c), NEW code \in Faults, Faulted(c) => code \in {c.fault} \cup HardFaults
  PROVE  Carries(c, LatchFault(c, code))
  BY AgesAreClosed, LimitsAreNat
     DEF Carries, Sound, Alone, Calibrating, LatchFault, IsController, ControllerFields, Modes

LEMMA InternalCarries ==
  ASSUME NEW c, Sound(c)
  PROVE  /\ Carries(c, LatchFault(c, "internal_error"))
         /\ Carries(c, LatchFault(c, "sensor_failure"))
         /\ Carries(c, LatchFault(c, "heating_timeout"))
  BY LatchCarries DEF Faults, HardFaults

LEMMA HeatOffCarries ==
  ASSUME NEW c, Sound(c), NEW heat \in BOOLEAN
  PROVE  Carries(c, [c EXCEPT !.heat = heat])
  BY DEF Carries, Sound, Alone, Calibrating, Faulted, Idle, IsController, ControllerFields

LEMMA ForceOffCarries ==
  ASSUME NEW c, Sound(c), NEW ok \in BOOLEAN
  PROVE  Carries(c, ForceOff(c, ok))
  BY HeatOffCarries, InternalCarries DEF ForceOff

LEMMA ReturnCarries ==
  ASSUME NEW c, Sound(c)
  PROVE  Carries(c, ReturnToBrew(c))
  BY AgesAreClosed, LimitsAreNat
     DEF Carries, Sound, Alone, Calibrating, Faulted, Idle, ReturnToBrew, IsController, ControllerFields, Modes

LEMMA OffsetsAreInt ==
  /\ Offsets \subseteq Int /\ \A offset \in Offsets : Reference - offset \in Candidates
  /\ \A candidate \in Candidates : Reference - candidate \in Offsets
  BY TemperatureAssumption DEF Offsets

LEMMA RestoreCarries ==
  ASSUME NEW c, Sound(c), NEW ok \in BOOLEAN
  PROVE  Carries(c, RestoreOrdinaryBrew(c, ok)) /\ ~Calibrating(RestoreOrdinaryBrew(c, ok))
  <1> DEFINE left == [c EXCEPT !.calibration = "none", !.candidate = Reference - c.offset]
             off == [left EXCEPT !.heat = FALSE]
  <1>1. Carries(c, left) /\ Sound(left) /\ ~Calibrating(left)
    BY OffsetsAreInt DEF Carries, Sound, Alone, Calibrating, Faulted, IsController, ControllerFields
  <1>2. RestoreOrdinaryBrew(c, ok) = IF ok THEN ReturnToBrew(off) ELSE LatchFault(left, "internal_error")
    BY DEF RestoreOrdinaryBrew
  <1> HIDE DEF left
  <1>3. Carries(left, off) /\ Sound(off)
    BY <1>1, HeatOffCarries DEF Carries
  <1> HIDE DEF off
  <1>4. Carries(off, ReturnToBrew(off)) /\ Carries(left, LatchFault(left, "internal_error"))
    BY <1>1, <1>3, ReturnCarries, InternalCarries
  <1>5. Carries(left, RestoreOrdinaryBrew(c, ok))
    BY <1>2, <1>3, <1>4, CarriesTransitive
  <1>6. QED
    BY <1>1, <1>5, CarriesTransitive DEF Carries

LEMMA AbortCarries ==
  ASSUME NEW c, Sound(c), NEW ok \in BOOLEAN
  PROVE  Carries(c, Abort(c, ok)) /\ Carries(c, Expire(c, ok)) /\ ~Calibrating(Abort(c, ok))
  BY RestoreCarries, CarriesItself DEF Abort, Expire

LEMMA BadReadingCarries ==
  ASSUME NEW c, Sound(c), NEW ok \in BOOLEAN
  PROVE  Carries(c, BadReading(c, ok))
  <1> DEFINE streak == IF c.streak < FailureStreak THEN c.streak + 1 ELSE c.streak
             held == [c EXCEPT !.streak = streak, !.status = "heating", !.band = Off, !.heat = FALSE]
  <1>1. streak \in 0..FailureStreak
    BY LimitsAreNat DEF Sound, IsController
  <1>2. BadReading(c, ok) \in {held, LatchFault(held, "internal_error"), LatchFault(held, "sensor_failure")}
    BY DEF BadReading
  <1> HIDE DEF streak
  <1>3. Carries(c, held) /\ Sound(held)
    BY <1>1, AgesAreClosed, LimitsAreNat
       DEF Carries, Sound, Alone, Calibrating, Faulted, Idle, IsController, ControllerFields
  <1> HIDE DEF held
  <1>4. QED
    BY <1>2, <1>3, InternalCarries, CarriesTransitive

LEMMA ReadinessCarries ==
  ASSUME NEW c, Sound(c)
  PROVE  /\ Carries(c, ClearSoak(c)) /\ Sound(ClearSoak(c))
         /\ Carries(c, LeaveSteam(c)) /\ Sound(LeaveSteam(c))
         /\ Carries(c, TrackReadiness(c)) /\ Sound(TrackReadiness(c))
  <1>1. Carries(c, ClearSoak(c)) /\ Sound(ClearSoak(c))
    BY AgesAreClosed, LimitsAreNat
       DEF ClearSoak, Carries, Sound, Alone, Calibrating, Faulted, Idle, IsController, ControllerFields
  <1>2. Carries(c, LeaveSteam(c)) /\ Sound(LeaveSteam(c))
    BY ReturnCarries, CarriesItself DEF LeaveSteam, Carries
  <1>3. Carries(c, TrackReadiness(c)) /\ Sound(TrackReadiness(c))
    BY AgesAreClosed, LimitsAreNat
       DEF TrackReadiness, Carries, Sound, Alone, Calibrating, Faulted, Idle, IsController, ControllerFields
  <1>4. QED
    BY <1>1, <1>2, <1>3

LEMMA DeadlinesCarry ==
  ASSUME NEW f, Sound(f)
  PROVE  Carries(f, TrackDeadlines(f)) /\ Sound(TrackDeadlines(f))
  <1> DEFINE g == TrackDeadlines(f)
  <1>1. /\ Deadline(f.recovery, f) \in Ages(HeatingTimeout)
        /\ Deadline(f.warmup, f) \in Ages(HeatingTimeout)
    BY AgesAreClosed, LimitsAreNat DEF Deadline, Sound, IsController
  <1>2. CASE Calibrating(f) \/ ~f.permit
    <2>1. g = [f EXCEPT !.warmup = Off, !.recovery = Off]
      BY <1>2 DEF TrackDeadlines
    <2> HIDE DEF g
    <2>2. Carries(f, g) /\ Sound(g)
      BY <2>1, AgesAreClosed, LimitsAreNat
         DEF Carries, Sound, Alone, Calibrating, Faulted, Idle, IsController, ControllerFields
    <2>3. QED
      BY <2>2 DEF g
  <1>3. CASE ~(Calibrating(f) \/ ~f.permit)
    <2>1. g \in {[f EXCEPT !.warmup = Off, !.recovery = Off, !.achieved = TRUE],
                 [f EXCEPT !.recovery = Deadline(f.recovery, f)],
                 [f EXCEPT !.warmup = Deadline(f.warmup, f)]}
      BY <1>3 DEF TrackDeadlines
    <2> HIDE DEF g
    <2>2. IsController(g) /\ g.calibration = f.calibration /\ g.fault = f.fault
      <3> USE <1>1, AgesAreClosed, LimitsAreNat DEF Sound, IsController, ControllerFields
      <3>1. CASE g = [f EXCEPT !.warmup = Off, !.recovery = Off, !.achieved = TRUE]
        BY <3>1
      <3>2. CASE g = [f EXCEPT !.recovery = Deadline(f.recovery, f)]
        BY <3>2
      <3>3. CASE g = [f EXCEPT !.warmup = Deadline(f.warmup, f)]
        BY <3>3
      <3>4. QED
        BY <2>1, <3>1, <3>2, <3>3
    <2>3. Carries(f, g) /\ Sound(g)
      BY <1>3, <2>2 DEF Carries, Sound, Alone, Calibrating, Faulted
    <2>4. QED
      BY <2>3 DEF g
  <1>4. QED
    BY <1>2, <1>3

(* The passes of a regulation before it looks at the deadlines.                  *)
Passed(c) == TrackReadiness(LeaveSteam(ClearSoak(c)))

LEMMA RegulateCarries ==
  ASSUME NEW c, Sound(c), NEW ok \in BOOLEAN, NEW pulse \in BOOLEAN
  PROVE  Carries(c, Regulate(c, ok, pulse))
  <1> DEFINE f == Passed(c)
             g == TrackDeadlines(f)
  <1>1. Carries(c, f) /\ Sound(f)
    BY ReadinessCarries, CarriesTransitive DEF Passed
  <1>2. Regulate(c, ok, pulse) = IF DeadlineMissed(g) THEN LatchFault(g, "heating_timeout")
                                 ELSE UpdateHeater(g, ok, pulse)
    BY DEF Regulate, Passed
  <1> HIDE DEF f
  <1>3. Carries(c, g) /\ Sound(g)
    BY <1>1, DeadlinesCarry, CarriesTransitive
  <1> HIDE DEF g
  <1>4. Carries(g, UpdateHeater(g, ok, pulse)) /\ Carries(g, LatchFault(g, "heating_timeout"))
    <2> DEFINE heat == MayHeat(g) /\ pulse
    <2>1. heat \in BOOLEAN
      BY DEF MayHeat
    <2>2. UpdateHeater(g, ok, pulse) = IF ok THEN [g EXCEPT !.heat = heat] ELSE LatchFault(g, "internal_error")
      BY DEF UpdateHeater
    <2> HIDE DEF heat
    <2>3. QED
      BY <1>3, <2>1, <2>2, HeatOffCarries, InternalCarries
  <1>5. QED
    BY <1>2, <1>3, <1>4, CarriesTransitive

LEMMA JudgeCarries ==
  ASSUME NEW c, Sound(c), ~Faulted(c), NEW ok \in BOOLEAN, NEW pulse \in BOOLEAN
  PROVE  Carries(c, Judge(c, ok, pulse))
  <1> DEFINE valid == [c EXCEPT !.streak = 0]
  <1>1. Carries(c, valid) /\ Sound(valid) /\ ~Faulted(valid)
    BY LimitsAreNat DEF Carries, Sound, Alone, Calibrating, Faulted, Idle, IsController, ControllerFields
  <1>2. Judge(c, ok, pulse) \in {BadReading(c, ok), LatchFault(valid, "over_temperature"),
                                 Regulate(valid, ok, pulse)}
    BY DEF Judge
  <1> HIDE DEF valid
  <1>3. Carries(valid, LatchFault(valid, "over_temperature"))
    BY <1>1, LatchCarries DEF Faults
  <1>4. QED
    BY <1>1, <1>2, <1>3, BadReadingCarries, RegulateCarries, CarriesTransitive

LEMMA UpdateCarries ==
  ASSUME NEW c, Sound(c), NEW reading \in Raw \cup {Bad}, NEW lease \in BOOLEAN,
         NEW released \in BOOLEAN, NEW ok \in BOOLEAN, NEW pulse \in BOOLEAN
  PROVE  Carries(c, Update(c, reading, lease, released, ok, pulse))
  <1> DEFINE d == Expire(c, released)
             read == [d EXCEPT !.reading = reading]
             off == [read EXCEPT !.status = "fault", !.heat = FALSE]
  <1>1. Carries(c, d) /\ Sound(d)
    BY AbortCarries DEF Carries
  <1> HIDE DEF d
  <1>2. Carries(d, read) /\ Sound(read)
    BY <1>1 DEF Carries, Sound, Alone, Calibrating, Faulted, Idle, IsController, ControllerFields
  <1>3. Carries(c, read)
    BY <1>1, <1>2, CarriesTransitive
  <1>4. Update(c, reading, lease, released, ok, pulse) =
          IF lease THEN LatchFault(read, "internal_error")
          ELSE IF Faulted(read) THEN off ELSE Judge(read, ok, pulse)
    BY DEF Update, d
  <1> HIDE DEF read
  <1>5. Carries(read, off)
    BY <1>2 DEF Carries, Sound, Alone, Calibrating, Faulted, Idle, IsController, ControllerFields
  <1> HIDE DEF off
  <1>6. QED
    BY <1>2, <1>3, <1>4, <1>5, InternalCarries, JudgeCarries, CarriesTransitive

(* The clients' methods.                                                         *)
LEMMA SetHeaterCarries ==
  ASSUME NEW c, Sound(c), ~Calibrating(c), NEW enabled \in BOOLEAN, NEW lease \in BOOLEAN
  PROVE  Carries(c, SetHeaterEnabled(c, enabled, lease))
  <1>1. Carries(c, [c EXCEPT !.heat = @ /\ enabled])
    BY DEF Carries, Sound, Alone, Calibrating, Faulted, Idle, IsController, ControllerFields
  <1>2. Carries(c, Permit(c, enabled))
    BY AgesAreClosed, LimitsAreNat
       DEF Permit, Carries, Sound, Alone, Calibrating, Faulted, Idle, IsController, ControllerFields
  <1>3. QED
    BY <1>1, <1>2, InternalCarries, CarriesItself DEF SetHeaterEnabled

(* Dismissal: what results is sound, no calibration, and softer only where       *)
(* Dismissable says.                                                             *)
LEMMA DismissSound ==
  ASSUME NEW c, Sound(c), NEW lease \in BOOLEAN, NEW ok \in BOOLEAN, NEW pulse \in BOOLEAN
  PROVE  LET r == Dismiss(c, lease, ok, pulse) IN
           Carries(c, r) \/ (Sound(r) /\ ~Calibrating(r) /\ Dismissable(c))
  <1>1. CASE Dismissable(c)
    <2>1. Sound(Cleared(c)) /\ ~Calibrating(Cleared(c))
      <3>1. ~Calibrating(c)
        BY <1>1 DEF Dismissable, Sound, Alone, Faulted
      <3>2. QED
        BY <3>1, AgesAreClosed, LimitsAreNat
           DEF Cleared, Sound, Alone, Calibrating, Faulted, Idle, IsController, ControllerFields
    <2>2. c.reading \in Raw \cup {Bad}
      BY DEF Sound, IsController
    <2>3. QED
      BY <1>1, <2>1, <2>2, UpdateCarries DEF Dismiss, Carries
  <1>2. CASE ~Dismissable(c)
    BY <1>2, CarriesItself DEF Dismiss
  <1>3. QED
    BY <1>1, <1>2

LEMMA PrepareCarries ==
  ASSUME NEW c, Sound(c), ~Calibrating(c), NEW targets \in TargetPairs, NEW steam \in SteamSettings,
         NEW ok \in BOOLEAN
  PROVE  Carries(c, PrepareSettings(c, targets, steam, ok))
  <1>1. Carries(c, Prepared(c, targets, steam)) /\ Sound(Prepared(c, targets, steam))
    <2>1. ActiveDiffers(c, targets) \in BOOLEAN
      BY DEF ActiveDiffers
    <2>2. QED
      BY <2>1 DEF Prepared, Carries, Sound, Alone, Calibrating, Faulted, Idle, IsController, ControllerFields
  <1>2. QED
    BY <1>1, ForceOffCarries, CarriesItself, CarriesTransitive DEF PrepareSettings

LEMMA RollbackCarries ==
  ASSUME NEW c, Sound(c), NEW ok \in BOOLEAN
  PROVE  Carries(c, RollbackSettings(c, ok))
  <1> DEFINE d == RollbackTargets(c, ok)
             back == [c EXCEPT !.heat = FALSE, !.nextTargets = c.targets, !.activeChange = FALSE,
                               !.updating = FALSE]
  <1>1. Carries(c, back)
    BY DEF Carries, Sound, Alone, Calibrating, Faulted, Idle, IsController, ControllerFields
  <1>2. Carries(c, d) /\ Sound(d)
    <2>1. d \in {back, LatchFault(c, "internal_error"), c}
      BY DEF RollbackTargets
    <2> HIDE DEF back, d
    <2>2. QED
      BY <1>1, <2>1, InternalCarries, CarriesItself DEF Carries
  <1> HIDE DEF d
  <1>3. Carries(d, RollbackSteam(d))
    <2>1. Carries(d, [d EXCEPT !.heat = FALSE, !.nextSteam = d.steam, !.steamUpdating = FALSE])
      BY <1>2 DEF Carries, Sound, Alone, Calibrating, Faulted, Idle, IsController, ControllerFields
    <2>2. QED
      BY <1>2, <2>1, CarriesItself DEF RollbackSteam
  <1>4. QED
    BY <1>2, <1>3, CarriesTransitive DEF RollbackSettings, d

LEMMA AdoptSettingsCarries ==
  ASSUME NEW c, Sound(c), NEW targets \in TargetPairs, NEW steam \in SteamSettings
  PROVE  Carries(c, AdoptSettings(c, targets, steam))
  <1> DEFINE adopted == [c EXCEPT !.targets = targets, !.activeChange = FALSE, !.updating = FALSE]
             again == [adopted EXCEPT
                         !.band = Off, !.achieved = @ /\ (Running(c.warmup) \/ Running(c.recovery)),
                         !.status = IF Faulted(c) THEN @ ELSE "heating"]
             first == IF targets = c.targets THEN c ELSE AdoptTargets(c, targets)
  <1>1. Carries(c, adopted) /\ Sound(adopted)
    BY DEF Carries, Sound, Alone, Calibrating, Faulted, Idle, IsController, ControllerFields
  <1>2. AdoptTargets(c, targets) \in {LatchFault(c, "internal_error"), adopted, again}
    BY DEF AdoptTargets
  <1> HIDE DEF adopted
  <1>3. Carries(adopted, again)
    BY <1>1, AgesAreClosed, LimitsAreNat
       DEF Carries, Sound, Alone, Calibrating, Faulted, Idle, IsController, ControllerFields
  <1> HIDE DEF again
  <1>4. Carries(c, first) /\ Sound(first)
    BY <1>1, <1>2, <1>3, InternalCarries, CarriesItself, CarriesTransitive DEF Carries
  <1>5. AdoptSettings(c, targets, steam) \in {first, AdoptSteam(first, steam)}
    BY DEF AdoptSettings
  <1> HIDE DEF first
  <1>6. Carries(first, AdoptSteam(first, steam))
    <2>1. Carries(first, [first EXCEPT !.steam = steam, !.steamUpdating = FALSE])
      BY <1>4 DEF Carries, Sound, Alone, Calibrating, Faulted, Idle, IsController, ControllerFields
    <2>2. QED
      BY <1>4, <2>1, InternalCarries DEF AdoptSteam
  <1>7. QED
    BY <1>4, <1>5, <1>6, CarriesTransitive

(* The calibration's own methods.                                                *)
LEMMA CalibrationCarries ==
  ASSUME NEW c, Sound(c), Calibrating(c), NEW candidate \in Candidates, NEW ok \in BOOLEAN
  PROVE  /\ Carries(c, Renew(c)) /\ Carries(c, SetCandidate(c, candidate, ok))
         /\ Carries(c, PrepareCalibrationSave(c, ok))
  <1> DEFINE set == [Renew(c) EXCEPT !.candidate = candidate, !.band = Off, !.status = "heating"]
             saving == [Renew(c) EXCEPT !.calibration = "saving"]
  <1>1. Carries(c, Renew(c)) /\ Sound(Renew(c)) /\ Calibrating(Renew(c))
    BY AgesAreClosed, LimitsAreNat
       DEF Renew, Carries, Sound, Alone, Calibrating, Faulted, Idle, IsController, ControllerFields
  <1>2. Carries(Renew(c), set) /\ Carries(Renew(c), saving)
    BY <1>1, AgesAreClosed, LimitsAreNat
       DEF Carries, Sound, Alone, Calibrating, Faulted, Idle, IsController, ControllerFields
  <1>3. PrepareCalibrationSave(c, ok) = ForceOff(saving, ok)
    BY DEF PrepareCalibrationSave
  <1>4. SetCandidate(c, candidate, ok) \in {Renew(c), ForceOff(set, ok)}
    BY DEF SetCandidate
  <1> HIDE DEF set, saving
  <1>5. Sound(set) /\ Sound(saving) /\ Carries(c, set) /\ Carries(c, saving)
    BY <1>1, <1>2, CarriesTransitive DEF Carries
  <1>6. QED
    BY <1>1, <1>3, <1>4, <1>5, ForceOffCarries, CarriesTransitive

LEMMA RollbackCalibrationCarries ==
  ASSUME NEW c, Sound(c)
  PROVE  Carries(c, RollbackCalibration(c))
  BY AgesAreClosed, LimitsAreNat
     DEF RollbackCalibration, Carries, Sound, Alone, Calibrating, Faulted, Idle, IsController,
         ControllerFields

LEMMA AdoptCalibrationCarries ==
  ASSUME NEW c, Sound(c), NEW offset \in Offsets, NEW ok \in BOOLEAN
  PROVE  Carries(c, AdoptCalibration(c, offset, ok))
  <1> DEFINE d == [c EXCEPT !.offset = offset]
  <1>1. Carries(c, d) /\ Sound(d)
    BY DEF Carries, Sound, Alone, Calibrating, Faulted, Idle, IsController, ControllerFields
  <1>2. AdoptCalibration(c, offset, ok) \in {RestoreOrdinaryBrew(d, ok), LatchFault(c, "internal_error")}
    BY DEF AdoptCalibration
  <1> HIDE DEF d
  <1>3. QED
    BY <1>1, <1>2, RestoreCarries, InternalCarries, CarriesTransitive

LEMMA StartCalibrationSound ==
  ASSUME NEW c, Sound(c), CanStartCalibration(c), NEW ok \in BOOLEAN
  PROVE  Sound(StartCalibration(c, ok)) /\ ~Faulted(c)
  <1> DEFINE begun == [c EXCEPT !.calibration = "active", !.candidate = Reference - c.offset,
                                !.session = 0, !.band = Off, !.warmup = Off, !.recovery = Off,
                                !.achieved = FALSE, !.status = "heating"]
  <1>1. Sound(begun)
    BY AgesAreClosed, LimitsAreNat, OffsetsAreInt
       DEF CanStartCalibration, Sound, Alone, Calibrating, Faulted, Idle, IsController, ControllerFields
  <1>2. StartCalibration(c, ok) = ForceOff(begun, ok)
    BY DEF StartCalibration
  <1> HIDE DEF begun
  <1>3. QED
    BY <1>1, <1>2, ForceOffCarries DEF Carries, CanStartCalibration

LEMMA SmallCarries ==
  ASSUME NEW c, Sound(c), NEW phase \in Phases
  PROVE  Carries(c, SetExtractionPhase(c, phase)) /\ Carries(c, Age(c))
  <1>1. Carries(c, SetExtractionPhase(c, phase))
    BY DEF SetExtractionPhase, Carries, Sound, Alone, Calibrating, Faulted, Idle, IsController,
           ControllerFields
  <1>2. Carries(c, Age(c))
    BY AgesAreClosed, LimitsAreNat
       DEF Age, Carries, Sound, Alone, Calibrating, Faulted, Idle, Running, IsController, ControllerFields
  <1>3. QED
    BY <1>1, <1>2

LEMMA SetModeCarries ==
  ASSUME NEW c, Sound(c), NEW mode \in Modes, NEW ok \in BOOLEAN
  PROVE  Carries(c, SetMode(c, mode, ok)) /\ (~Calibrating(c) => ~Calibrating(SetMode(c, mode, ok)))
  <1> DEFINE moved == Moved(c, mode)
             off == [moved EXCEPT !.status = "fault", !.heat = FALSE]
  <1>1. SetMode(c, mode, ok) =
          IF Calibrating(c) THEN RestoreOrdinaryBrew(c, ok)
          ELSE IF ~Idle(c) \/ c.mode = mode THEN c
          ELSE IF Faulted(c) THEN off ELSE ForceOff(moved, ok)
    BY DEF SetMode
  <1>2. CASE Calibrating(c)
    BY <1>1, <1>2, RestoreCarries
  <1>3. CASE ~Calibrating(c)
    <2>1. Carries(c, moved) /\ Sound(moved) /\ ~Calibrating(moved)
      BY <1>3, AgesAreClosed, LimitsAreNat
         DEF Moved, ReturnToBrew, Carries, Sound, Alone, Calibrating, Faulted, IsController, ControllerFields
    <2> HIDE DEF moved
    <2>2. Carries(moved, off) /\ Carries(moved, ForceOff(moved, ok))
      <3>1. Carries(moved, off)
        BY <2>1 DEF Carries, Sound, Alone, Calibrating, Faulted, IsController, ControllerFields
      <3>2. QED
        BY <2>1, <3>1, ForceOffCarries
    <2> HIDE DEF off
    <2>3. Carries(c, SetMode(c, mode, ok))
      BY <1>1, <1>3, <2>1, <2>2, CarriesItself, CarriesTransitive
    <2>4. QED
      BY <1>3, <2>3 DEF Carries
  <1>4. QED
    BY <1>2, <1>3

-----------------------------------------------------------------------------
(* The cooldown's methods, over the three parts it works on.                     *)
IsSoundMachine(m) ==
  DOMAIN m = {"ctl", "cool", "pump"} /\ Sound(m.ctl) /\ IsCooldown(m.cool) /\ IsPump(m.pump)
CarriesAll(m, r) == IsSoundMachine(r) /\ Carries(m.ctl, r.ctl)

LEMMA CarriesAllTransitive ==
  ASSUME NEW m, NEW n, NEW r, CarriesAll(m, n), CarriesAll(n, r)
  PROVE  CarriesAll(m, r)
  BY CarriesTransitive DEF CarriesAll

LEMMA PumpOffIsPump ==
  ASSUME NEW m, IsSoundMachine(m), NEW pumped \in BOOLEAN
  PROVE  IsPump(PumpOff(m, pumped))
  BY DEF PumpOff, StoppedPump, IsPump, IsSoundMachine

LEMMA EndInhibitCarries ==
  ASSUME NEW c, Sound(c), NEW ok \in BOOLEAN
  PROVE  Carries(c, EndCooldownInhibit(c, ok)) /\ Sound(EndCooldownInhibit(c, ok))
  <1> DEFINE d == ForceOff(c, ok)
  <1>1. Carries(c, d) /\ Sound(d)
    BY ForceOffCarries DEF Carries
  <1>2. EndCooldownInhibit(c, ok) = [d EXCEPT !.cooling = FALSE]
    BY DEF EndCooldownInhibit
  <1> HIDE DEF d
  <1>3. Carries(d, [d EXCEPT !.cooling = FALSE])
    BY <1>1 DEF Carries, Sound, Alone, Calibrating, Faulted, Idle, IsController, ControllerFields
  <1>4. QED
    BY <1>1, <1>2, <1>3, CarriesTransitive DEF Carries

LEMMA BeginInhibitCarries ==
  ASSUME NEW c, Sound(c), ~Calibrating(c), NEW ok \in BOOLEAN
  PROVE  Carries(c, BeginCooldownInhibit(c, ok))
  <1> DEFINE d == SetMode(c, "brew", ok)
             inhibiting == [d EXCEPT !.cooling = TRUE]
  <1>1. Carries(c, d) /\ Sound(d) /\ ~Calibrating(d)
    BY SetModeCarries DEF Carries, Modes
  <1>2. BeginCooldownInhibit(c, ok) \in {ForceOff(inhibiting, ok), inhibiting}
    BY DEF BeginCooldownInhibit, Abort
  <1> HIDE DEF d
  <1>3. Carries(d, inhibiting) /\ Sound(inhibiting)
    BY <1>1 DEF Carries, Sound, Alone, Calibrating, Faulted, Idle, IsController, ControllerFields
  <1> HIDE DEF inhibiting
  <1>4. QED
    BY <1>1, <1>2, <1>3, ForceOffCarries, CarriesTransitive

LEMMA FailCarries ==
  ASSUME NEW m, IsSoundMachine(m), NEW code \in Faults,
         Faulted(m.ctl) => code \in {m.ctl.fault} \cup HardFaults,
         NEW pumped \in BOOLEAN, NEW heated \in BOOLEAN
  PROVE  CarriesAll(m, Fail(m, code, pumped, heated))
  <1> DEFINE c == LatchFault(m.ctl, code)
             d == EndCooldownInhibit(c, heated)
             q == PumpOff(m, pumped)
             r == [m EXCEPT !.ctl = d, !.pump = q, !.cool.status = "idle", !.cool.outcome = "failed"]
  <1>1. Carries(m.ctl, c) /\ Sound(c)
    BY LatchCarries DEF IsSoundMachine, Carries
  <1>2. Carries(m.ctl, d) /\ Sound(d)
    BY <1>1, EndInhibitCarries, CarriesTransitive
  <1>3. IsPump(q)
    BY PumpOffIsPump
  <1>4. Fail(m, code, pumped, heated) = r
    BY DEF Fail, IsSoundMachine
  <1> HIDE DEF c, d, q
  <1>5. DOMAIN r = {"ctl", "cool", "pump"} /\ r.ctl = d /\ r.pump = q /\ IsCooldown(r.cool)
    BY DEF IsSoundMachine, IsCooldown, CooldownFields
  <1> HIDE DEF r
  <1>6. QED
    BY <1>2, <1>3, <1>4, <1>5 DEF CarriesAll, IsSoundMachine

LEMMA HardFails ==
  ASSUME NEW m, IsSoundMachine(m), NEW pumped \in BOOLEAN, NEW heated \in BOOLEAN
  PROVE  /\ CarriesAll(m, Fail(m, "internal_error", pumped, heated))
         /\ CarriesAll(m, Fail(m, "sensor_failure", pumped, heated))
         /\ Faulted(m.ctl) => CarriesAll(m, Fail(m, m.ctl.fault, pumped, heated))
  <1>1. Faulted(m.ctl) => m.ctl.fault \in Faults
    BY DEF IsSoundMachine, Sound, IsController, Faulted
  <1>2. QED
    BY <1>1, FailCarries DEF Faults, HardFaults

LEMMA CompleteCarries ==
  ASSUME NEW m, IsSoundMachine(m), NEW pumped \in BOOLEAN, NEW heated \in BOOLEAN
  PROVE  CarriesAll(m, Complete(m, pumped, heated))
  <1> DEFINE d == EndCooldownInhibit(m.ctl, heated)
             q == PumpOff(m, pumped)
             ended == [m EXCEPT !.ctl = d, !.pump = q, !.cool.status = "idle"]
             c == LatchFault(d, "internal_error")
             failed == [ended EXCEPT !.ctl = c, !.cool.outcome = "failed"]
  <1>1. Carries(m.ctl, d) /\ Sound(d) /\ IsPump(q)
    BY EndInhibitCarries, PumpOffIsPump DEF IsSoundMachine
  <1>2. Complete(m, pumped, heated) \in {ended, failed}
    BY DEF Complete, IsSoundMachine
  <1>3. Carries(m.ctl, c) /\ Sound(c)
    BY <1>1, InternalCarries, CarriesTransitive DEF Carries
  <1> HIDE DEF d, q, c
  <1>4. DOMAIN ended = {"ctl", "cool", "pump"} /\ ended.ctl = d /\ ended.pump = q /\ IsCooldown(ended.cool)
    BY DEF IsSoundMachine, IsCooldown, CooldownFields
  <1> HIDE DEF ended
  <1>5. DOMAIN failed = {"ctl", "cool", "pump"} /\ failed.ctl = c /\ failed.pump = q /\ IsCooldown(failed.cool)
    BY <1>4 DEF IsCooldown, CooldownFields
  <1> HIDE DEF failed
  <1>6. CarriesAll(m, ended) /\ CarriesAll(m, failed)
    BY <1>1, <1>3, <1>4, <1>5 DEF CarriesAll, IsSoundMachine
  <1>7. QED
    BY <1>2, <1>6

Outcomes == {"none", "target_reached", "cutoff", "stopped", "failed"}

LEMMA EnterCarries ==
  ASSUME NEW m, IsSoundMachine(m), NEW outcome \in Outcomes, NEW settle \in 0..Stabilization,
         NEW pumped \in BOOLEAN, NEW heated \in BOOLEAN
  PROVE  CarriesAll(m, EnterStabilization(m, outcome, settle, pumped, heated))
  <1> DEFINE c == ForceOff(m.ctl, heated)
             q == PumpOff(m, pumped)
             quiet == [m EXCEPT !.ctl = c, !.pump = q]
             settling == [quiet EXCEPT !.cool.status = "stabilizing", !.cool.outcome = outcome,
                                       !.cool.settle = settle]
  <1>1. Carries(m.ctl, c) /\ Sound(c) /\ IsPump(q)
    BY ForceOffCarries, PumpOffIsPump DEF IsSoundMachine, Carries
  <1>2. EnterStabilization(m, outcome, settle, pumped, heated)
          \in {Fail(quiet, "internal_error", pumped, heated), Complete(settling, pumped, heated), settling}
    BY DEF EnterStabilization, IsSoundMachine
  <1> HIDE DEF c, q
  <1>3. DOMAIN quiet = {"ctl", "cool", "pump"} /\ quiet.ctl = c /\ quiet.pump = q /\ quiet.cool = m.cool
    BY DEF IsSoundMachine
  <1> HIDE DEF quiet
  <1>4. CarriesAll(m, quiet) /\ IsSoundMachine(quiet)
    BY <1>1, <1>3 DEF CarriesAll, IsSoundMachine
  <1>5. DOMAIN settling = {"ctl", "cool", "pump"} /\ settling.ctl = c /\ settling.pump = q
        /\ IsCooldown(settling.cool)
    BY <1>3 DEF IsSoundMachine, IsCooldown, CooldownFields, Outcomes
  <1> HIDE DEF settling
  <1>6. CarriesAll(m, settling) /\ IsSoundMachine(settling)
    BY <1>1, <1>5 DEF CarriesAll, IsSoundMachine
  <1>7. QED
    BY <1>2, <1>4, <1>6, HardFails, CompleteCarries, CarriesAllTransitive

LEMMA AdvanceCarries ==
  ASSUME NEW m, IsSoundMachine(m), NEW sampled, NEW sample, NEW expired,
         NEW pumped \in BOOLEAN, NEW heated \in BOOLEAN
  PROVE  CarriesAll(m, Advance(m, sampled, sample, expired, pumped, heated))
  <1> DEFINE c == ForceOff(m.ctl, TRUE)
             off == [m EXCEPT !.ctl = c]
             still == [off EXCEPT !.pump = IF @.running THEN StoppedPump ELSE @]
  <1>1. Carries(m.ctl, c) /\ Sound(c)
    BY ForceOffCarries DEF IsSoundMachine, Carries
  <1>2. Advance(m, sampled, sample, expired, pumped, heated) =
          IF ~sampled THEN Fail(m, "sensor_failure", pumped, heated)
          ELSE IF Faulted(m.ctl) THEN Fail(m, m.ctl.fault, pumped, heated)
          ELSE IF ~heated THEN Fail(m, "internal_error", pumped, heated)
          ELSE IF m.cool.status = "pumping"
               THEN IF ~m.pump.running THEN Fail(off, "internal_error", pumped, heated)
                    ELSE IF sample <= m.cool.target
                         THEN EnterStabilization(off, "target_reached", 0, pumped, heated)
                    ELSE IF LimitReached(m)
                         THEN EnterStabilization(off, "cutoff", m.cool.age - PumpLimit, pumped, heated)
                    ELSE off
               ELSE IF m.pump.running /\ ~pumped THEN Fail(off, "internal_error", pumped, heated)
                    ELSE IF expired THEN Complete(off, pumped, heated) ELSE still
    BY DEF Advance, IsSoundMachine
  <1> HIDE DEF c
  <1>3. DOMAIN off = {"ctl", "cool", "pump"} /\ off.ctl = c /\ off.pump = m.pump /\ off.cool = m.cool
    BY DEF IsSoundMachine
  <1> HIDE DEF off
  <1>4. CarriesAll(m, off) /\ IsSoundMachine(off)
    BY <1>1, <1>3 DEF CarriesAll, IsSoundMachine
  <1>5. CarriesAll(m, still)
    <2>1. DOMAIN still = {"ctl", "cool", "pump"} /\ still.ctl = c /\ still.cool = m.cool
          /\ still.pump \in {StoppedPump, m.pump}
      BY <1>3
    <2> HIDE DEF still
    <2>2. IsPump(StoppedPump)
      BY DEF IsPump, StoppedPump
    <2>3. QED
      BY <1>1, <2>1, <2>2 DEF CarriesAll, IsSoundMachine
  <1> HIDE DEF still
  <1>6. LimitReached(m) => m.cool.age - PumpLimit \in 0..Stabilization
    BY CooldownAssumption DEF LimitReached, LongestCooldown, IsSoundMachine, IsCooldown
  <1>7. /\ CarriesAll(off, EnterStabilization(off, "target_reached", 0, pumped, heated))
        /\ LimitReached(m) =>
             CarriesAll(off, EnterStabilization(off, "cutoff", m.cool.age - PumpLimit, pumped, heated))
        /\ CarriesAll(off, Fail(off, "internal_error", pumped, heated))
        /\ CarriesAll(off, Complete(off, pumped, heated))
    <2>1. 0 \in 0..Stabilization
      BY CooldownAssumption
    <2>2. QED
      BY <1>4, <1>6, <2>1, EnterCarries, HardFails, CompleteCarries DEF Outcomes
  <1>8. QED
    BY <1>2, <1>4, <1>5, <1>7, HardFails, CarriesAllTransitive

LEMMA StopCarries ==
  ASSUME NEW m, IsSoundMachine(m), NEW wrapped \in BOOLEAN, NEW pumped \in BOOLEAN, NEW heated \in BOOLEAN
  PROVE  CarriesAll(m, Stop(m, wrapped, pumped, heated))
  <1>1. CarriesAll(m, m)
    BY CarriesItself DEF CarriesAll, IsSoundMachine
  <1>2. CarriesAll(m, EnterStabilization(m, "stopped", 0, pumped, heated))
    <2>1. 0 \in 0..Stabilization
      BY CooldownAssumption
    <2>2. QED
      BY <2>1, EnterCarries DEF Outcomes
  <1>3. CarriesAll(m, Advance(m, TRUE, m.cool.target + 1, wrapped \/ m.cool.settle >= Stabilization,
                              pumped, heated))
    BY AdvanceCarries
  <1>4. m.cool.status \in {"idle", "pumping", "stabilizing"}
    BY DEF IsSoundMachine, IsCooldown
  <1>5. CASE m.cool.status = "idle"
    BY <1>1, <1>5 DEF Stop
  <1>6. CASE m.cool.status = "pumping"
    BY <1>2, <1>6 DEF Stop
  <1>7. CASE m.cool.status = "stabilizing"
    BY <1>3, <1>7 DEF Stop
  <1>8. QED
    BY <1>4, <1>5, <1>6, <1>7

LEMMA ConsumeCarries ==
  ASSUME NEW m, IsSoundMachine(m), NEW pumped \in BOOLEAN, NEW heated \in BOOLEAN
  PROVE  CarriesAll(m, Consume(m, pumped, heated))
  <1> DEFINE c == LatchFault(m.ctl, "internal_error")
             q == PumpOff(m, pumped)
             latched == [m EXCEPT !.ctl = c, !.pump = q]
  <1>1. Carries(m.ctl, c) /\ Sound(c) /\ IsPump(q)
    BY InternalCarries, PumpOffIsPump DEF IsSoundMachine, Carries
  <1>2. Consume(m, pumped, heated) \in {latched, UpdateCooldown(latched, pumped, heated)}
    BY DEF Consume, IsSoundMachine
  <1> HIDE DEF c, q
  <1>3. CarriesAll(m, latched) /\ IsSoundMachine(latched)
    BY <1>1 DEF CarriesAll, IsSoundMachine
  <1> HIDE DEF latched
  <1>4. CarriesAll(latched, UpdateCooldown(latched, pumped, heated))
    BY <1>3, AdvanceCarries DEF UpdateCooldown
  <1>5. QED
    BY <1>2, <1>3, <1>4, CarriesAllTransitive

LEMMA StartCarries ==
  ASSUME NEW m, IsSoundMachine(m), ~Calibrating(m.ctl), NEW key \in Keys, NEW started \in BOOLEAN,
         NEW pumped \in BOOLEAN, NEW heated \in BOOLEAN
  PROVE  CarriesAll(m, Start(m, key, started, pumped, heated))
  <1> DEFINE c == BeginCooldownInhibit(m.ctl, heated)
             begun == [NoCooldown EXCEPT !.status = "pumping", !.target = m.ctl.targets.brew, !.key = key]
             inhibiting == [m EXCEPT !.ctl = c, !.cool = begun]
             pumping == [inhibiting EXCEPT !.pump = RunningPump]
  <1>1. Carries(m.ctl, c) /\ Sound(c)
    BY BeginInhibitCarries DEF IsSoundMachine, Carries
  <1>2. IsCooldown(begun)
    BY CooldownAssumption
       DEF NoCooldown, IsCooldown, CooldownFields, LongestCooldown, IsSoundMachine, Sound, IsController
  <1>3. Start(m, key, started, pumped, heated)
          \in {pumping, Fail(inhibiting, "internal_error", pumped, heated)}
    BY DEF Start, IsSoundMachine
  <1> HIDE DEF c, begun
  <1>4. CarriesAll(m, inhibiting) /\ IsSoundMachine(inhibiting)
    BY <1>1, <1>2 DEF CarriesAll, IsSoundMachine
  <1> HIDE DEF inhibiting
  <1>5. CarriesAll(inhibiting, pumping)
    BY <1>4, CarriesItself DEF CarriesAll, IsSoundMachine, IsPump, RunningPump
  <1>6. QED
    BY <1>3, <1>4, <1>5, HardFails, CarriesAllTransitive

LEMMA AgeAllCarries ==
  ASSUME NEW m, IsSoundMachine(m)
  PROVE  CarriesAll(m, AgeCooldown(m))
  <1>1. Carries(m.ctl, m.ctl)
    BY CarriesItself DEF IsSoundMachine
  <1>2. /\ Older(m.cool.age, LongestCooldown) \in 0..LongestCooldown
        /\ Older(m.cool.settle, Stabilization) \in 0..Stabilization
    BY CooldownAssumption DEF Older, Off, LongestCooldown, IsSoundMachine, IsCooldown
  <1>3. QED
    BY <1>1, <1>2 DEF AgeCooldown, CarriesAll, IsSoundMachine, IsCooldown, CooldownFields

-----------------------------------------------------------------------------
(* What holds of the whole state, and what a step has to show.                   *)
Whole == TypeOK /\ Alone(ctl) /\ (Calibrating(ctl) => shot = "idle")

Hardens ==
  Faulted(ctl) =>
    \/ ctl'.fault = "none" /\ Dismissable(ctl)
    \/ ctl'.fault = "over_temperature" /\ ctl.fault = "over_temperature"
    \/ ctl'.fault \in Faults \ {"over_temperature"}
SoundStep ==
  /\ Sound(ctl') /\ IsCooldown(cool') /\ IsPump(pump')
  /\ Hardens
  /\ Calibrating(ctl') => shot' = "idle"

LEMMA WholeParts ==
  ASSUME Whole
  PROVE  /\ IsSoundMachine(M) /\ Sound(ctl) /\ IsCooldown(cool) /\ IsPump(pump)
         /\ M.ctl = ctl /\ M.cool = cool /\ M.pump = pump
  BY DEF Whole, TypeOK, IsSoundMachine, Sound, M

LEMMA CarrySteps ==
  ASSUME Whole, Carries(ctl, ctl'), IsCooldown(cool'), IsPump(pump'),
         shot' \in {shot, "idle"} \/ ~Calibrating(ctl) \/ shot # "idle"
  PROVE  SoundStep
  <1>1. Hardens
    BY WholeParts DEF Hardens, Carries, HardFaults, Faulted, Faults, Sound, IsController
  <1>2. QED
    BY <1>1 DEF SoundStep, Carries, Whole

LEMMA OnlyControlSteps ==
  ASSUME Whole, Carries(ctl, ctl'), cool' = cool, pump' = pump, shot' = shot
  PROVE  SoundStep
  BY CarrySteps, WholeParts

LEMMA CarryAllSteps ==
  ASSUME Whole, NEW r, CarriesAll(M, r), Become(r), shot' \in {shot, "idle"}
  PROVE  SoundStep
  <1>1. Carries(ctl, ctl') /\ IsCooldown(cool') /\ IsPump(pump')
    BY WholeParts DEF CarriesAll, Become, IsSoundMachine
  <1>2. QED
    BY <1>1, CarrySteps

LEMMA WorldsAreTyped ==
  ASSUME Whole
  PROVE  Readings \subseteq Raw \cup {Bad} /\ world.steam \subseteq SteamSettings
         /\ tripped \in BOOLEAN /\ inhibited \in BOOLEAN
  BY WorldsAssumption DEF Whole, TypeOK, Readings

(* The turns of the two control tasks.                                           *)
LEMMA TemperatureSound ==
  ASSUME Whole, TemperatureUpdate
  PROVE  SoundStep
  <1>1. PICK reading \in Readings, released, ok, pulse, pumped, heated \in BOOLEAN :
          LET m == IF failSafe THEN Consume(M, pumped, heated) ELSE M IN
          /\ released \/ SessionExpired(ctl)
          /\ failSafe \/ (pumped /\ heated)
          /\ Become([m EXCEPT !.ctl = Update(@, reading, tripped, released, ok, pulse)])
    BY Zenon DEF TemperatureUpdate
  <1> DEFINE m == IF failSafe THEN Consume(M, pumped, heated) ELSE M
             c == Update(m.ctl, reading, tripped, released, ok, pulse)
  <1>2. CarriesAll(M, m) /\ IsSoundMachine(m)
    <2>1. CarriesAll(M, M)
      BY WholeParts, CarriesItself DEF CarriesAll
    <2>2. QED
      BY <2>1, WholeParts, ConsumeCarries DEF CarriesAll
  <1>3. Become([m EXCEPT !.ctl = c]) /\ shot' \in {shot, "idle"}
    BY <1>1 DEF TemperatureUpdate
  <1> HIDE DEF m
  <1>4. Carries(m.ctl, c)
    BY <1>2, WorldsAreTyped, UpdateCarries DEF IsSoundMachine
  <1> HIDE DEF c
  <1>5. CarriesAll(m, [m EXCEPT !.ctl = c])
    BY <1>2, <1>4 DEF CarriesAll, IsSoundMachine, Carries
  <1>6. QED
    BY <1>2, <1>3, <1>5, CarriesAllTransitive, CarryAllSteps

LEMMA PumpsArePumps == IsPump(StoppedPump) /\ IsPump(RunningPump) /\ \A phase : IsPump(PumpFor(phase))
  BY DEF IsPump, StoppedPump, RunningPump, PumpFor

LEMMA WorkflowSound ==
  ASSUME Whole, WorkflowUpdate
  PROVE  SoundStep
  <1>1. CASE failSafe \/ Active(M)
    <2>1. PICK pumped \in BOOLEAN, heated \in BOOLEAN :
            LET m == IF failSafe THEN Consume(M, pumped, heated) ELSE UpdateCooldown(M, pumped, heated)
            IN Become([m EXCEPT !.ctl = SetExtractionPhase(m.ctl, "idle")])
      BY <1>1 DEF WorkflowUpdate, WorkflowTurn
    <2> DEFINE m == IF failSafe THEN Consume(M, pumped, heated) ELSE UpdateCooldown(M, pumped, heated)
               c == SetExtractionPhase(m.ctl, "idle")
    <2>2. CarriesAll(M, m) /\ IsSoundMachine(m)
      BY WholeParts, ConsumeCarries, AdvanceCarries DEF UpdateCooldown, CarriesAll
    <2>3. Become([m EXCEPT !.ctl = c]) /\ shot' \in {shot, "idle"}
      BY <1>1, <2>1 DEF WorkflowUpdate, WorkflowTurn
    <2> HIDE DEF m
    <2>4. Carries(m.ctl, c)
      BY <2>2, SmallCarries DEF IsSoundMachine, Phases
    <2> HIDE DEF c
    <2>5. CarriesAll(m, [m EXCEPT !.ctl = c])
      BY <2>2, <2>4 DEF CarriesAll, IsSoundMachine, Carries
    <2>6. QED
      BY <2>2, <2>3, <2>5, CarriesAllTransitive, CarryAllSteps
  <1>2. CASE ~(failSafe \/ Active(M))
    <2>1. cool' = cool /\ ((\E phase \in Phases : AdvanceShot(phase)) \/ FailShot)
      BY <1>2 DEF WorkflowUpdate, WorkflowTurn
    <2>2. CASE \E phase \in Phases : AdvanceShot(phase)
      <3>1. PICK phase \in Phases : AdvanceShot(phase)
        BY <2>2
      <3>2. Carries(ctl, ctl') /\ (shot' = shot \/ shot # "idle")
        BY <3>1, WholeParts, SmallCarries DEF AdvanceShot
      <3>3. IsPump(pump')
        BY <3>1, WholeParts, PumpsArePumps DEF AdvanceShot
      <3>4. QED
        BY <2>1, <3>2, <3>3, WholeParts, CarrySteps
    <2>3. CASE FailShot
      <3> DEFINE c == SetExtractionPhase(ctl, "idle")
      <3>1. Carries(ctl, c) /\ Sound(c)
        BY WholeParts, SmallCarries DEF Phases, Carries
      <3>2. ctl' = LatchFault(c, "internal_error")
        BY <2>3 DEF FailShot
      <3> HIDE DEF c
      <3>3. Carries(ctl, ctl')
        BY <3>1, <3>2, InternalCarries, CarriesTransitive
      <3>4. QED
        BY <2>1, <2>3, <3>3, WholeParts, PumpOffIsPump, CarrySteps DEF FailShot
    <2>4. QED
      BY <2>1, <2>2, <2>3
  <1>3. QED
    BY <1>1, <1>2

LEMMA EmergencySound ==
  ASSUME Whole, Emergency
  PROVE  SoundStep
  <1>1. Carries(ctl, ctl') /\ shot' = shot /\ cool' = cool
    BY WholeParts, HeatOffCarries DEF Emergency
  <1>2. IsPump(pump')
    BY WholeParts, PumpOffIsPump DEF Emergency
  <1>3. QED
    BY <1>1, <1>2, WholeParts, CarrySteps

(* The requests.                                                                 *)
LEMMA AbortOrSound ==
  ASSUME Whole, NEW ok \in BOOLEAN, NEW next, ~Calibrating(ctl) => Carries(ctl, next), AbortOr(ok, next)
  PROVE  Carries(ctl, ctl')
  BY WholeParts, AbortCarries DEF AbortOr

LEMMA ModeSound ==
  ASSUME Whole, NEW mode \in Modes, RequestMode(mode)
  PROVE  SoundStep
  <1>1. \E ok \in BOOLEAN : AbortOr(ok, ctl) \/ AbortOr(ok, SetMode(ctl, mode, ok))
    BY DEF RequestMode
  <1>2. Carries(ctl, ctl')
    BY <1>1, WholeParts, SetModeCarries, CarriesItself, AbortOrSound
  <1>3. QED
    BY <1>2, OnlyControlSteps DEF RequestMode, OnlyControl

LEMMA HeaterSound ==
  ASSUME Whole, NEW enabled \in BOOLEAN, RequestHeater(enabled)
  PROVE  SoundStep
  <1>1. Carries(ctl, ctl')
    BY WholeParts, WorldsAreTyped, SetHeaterCarries, AbortOrSound DEF RequestHeater
  <1>2. QED
    BY <1>1, OnlyControlSteps DEF RequestHeater, OnlyControl

LEMMA DismissSoundStep ==
  ASSUME Whole, RequestDismiss
  PROVE  SoundStep
  <1>1. cool' = cool /\ pump' = pump /\ shot' = shot
    BY DEF RequestDismiss, OnlyControl
  <1>2. PICK ok \in BOOLEAN, pulse \in BOOLEAN : ctl' = Dismiss(ctl, tripped, ok /\ ~inhibited, pulse)
    BY DEF RequestDismiss
  <1> DEFINE works == ok /\ ~inhibited
  <1>3. works \in BOOLEAN /\ ctl' = Dismiss(ctl, tripped, works, pulse)
    BY <1>2
  <1> HIDE DEF works
  <1>4. CASE Carries(ctl, ctl')
    BY <1>1, <1>4, OnlyControlSteps
  <1>5. CASE Sound(ctl') /\ ~Calibrating(ctl') /\ Dismissable(ctl)
    <2>1. Hardens
      BY <1>5 DEF Hardens, Dismissable, Sound, IsController
    <2>2. QED
      BY <1>1, <1>5, <2>1, WholeParts DEF SoundStep
  <1>6. QED
    BY <1>3, <1>4, <1>5, WholeParts, WorldsAreTyped, DismissSound

LEMMA SessionSound ==
  ASSUME Whole, \/ Poll \/ RequestRenew \/ RequestCancel
                \/ (\E candidate \in Candidates : RequestCandidate(candidate))
  PROVE  SoundStep
  <1>1. cool' = cool /\ pump' = pump /\ shot' = shot
    BY DEF Poll, RequestRenew, RequestCancel, RequestCandidate, OnlyControl
  <1>2. PICK ok \in BOOLEAN :
          LET c == Expire(ctl, ok) IN
          \/ ctl' = c
          \/ CanRenew(c) /\ ctl' = Renew(c)
          \/ CanRenew(c) /\ ctl' = RestoreOrdinaryBrew(c, ok)
          \/ CanRenew(c) /\ \E candidate \in Candidates : ctl' = SetCandidate(c, candidate, ok)
    BY DEF Poll, RequestRenew, RequestCancel, RequestCandidate
  <1> DEFINE c == Expire(ctl, ok)
  <1>3. Carries(ctl, c) /\ Sound(c)
    BY WholeParts, AbortCarries DEF Carries
  <1>4. \/ ctl' = c
        \/ CanRenew(c) /\ ctl' = Renew(c)
        \/ CanRenew(c) /\ ctl' = RestoreOrdinaryBrew(c, ok)
        \/ CanRenew(c) /\ \E candidate \in Candidates : ctl' = SetCandidate(c, candidate, ok)
    BY <1>2
  <1> HIDE DEF c
  <1>5. CanRenew(c) => Calibrating(c)
    BY DEF CanRenew, Calibrating
  <1>6. \E candidate \in Candidates : TRUE
    BY TemperatureAssumption
  <1>7. ctl' = c \/ Carries(c, ctl')
    BY <1>3, <1>4, <1>5, <1>6, CalibrationCarries, RestoreCarries
  <1>8. QED
    BY <1>1, <1>3, <1>7, CarriesTransitive, OnlyControlSteps

LEMMA StartCalibrationStep ==
  ASSUME Whole, RequestStartCalibration
  PROVE  SoundStep
  <1>1. cool' = cool /\ pump' = pump /\ shot' = shot /\ shot = "idle"
    BY DEF RequestStartCalibration, OnlyControl
  <1>2. PICK ok \in BOOLEAN :
          LET c == Expire(ctl, ok)
          IN ctl' = IF CanStartCalibration(c) THEN StartCalibration(c, ok) ELSE c
    BY DEF RequestStartCalibration
  <1> DEFINE c == Expire(ctl, ok)
  <1>3. Carries(ctl, c) /\ Sound(c)
    BY WholeParts, AbortCarries DEF Carries
  <1>4. ctl' = IF CanStartCalibration(c) THEN StartCalibration(c, ok) ELSE c
    BY <1>2
  <1> HIDE DEF c
  <1>5. CASE CanStartCalibration(c)
    <2>1. Sound(ctl') /\ ~Faulted(c)
      BY <1>3, <1>4, <1>5, StartCalibrationSound
    <2>2. ~Faulted(ctl)
      BY <1>3, <2>1 DEF Carries, Faulted, HardFaults, Faults
    <2>3. QED
      BY <1>1, <2>1, <2>2, WholeParts DEF SoundStep, Hardens
  <1>6. CASE ~CanStartCalibration(c)
    BY <1>1, <1>3, <1>4, <1>6, OnlyControlSteps
  <1>7. QED
    BY <1>5, <1>6

LEMMA ShotRequestsSound ==
  ASSUME Whole, (\E phase \in FirstPhases : RequestStartShot(phase)) \/ RequestStopShot
  PROVE  SoundStep
  <1>1. CASE \E phase \in FirstPhases : RequestStartShot(phase)
    <2>1. PICK phase \in FirstPhases : RequestStartShot(phase)
      BY <1>1
    <2>2. CASE Calibrating(ctl) \/ Active(M) \/ ctl.mode # "brew" \/ shot # "idle"
      <3>1. Carries(ctl, ctl')
        BY <2>1, <2>2, WholeParts, CarriesItself, AbortOrSound DEF RequestStartShot
      <3>2. QED
        BY <2>1, <2>2, <3>1, OnlyControlSteps DEF RequestStartShot
    <2>3. CASE ~(Calibrating(ctl) \/ Active(M) \/ ctl.mode # "brew" \/ shot # "idle")
      <3>1. cool' = cool /\ IsPump(pump')
        BY <2>1, <2>3, WholeParts, PumpsArePumps, PumpOffIsPump DEF RequestStartShot
      <3>2. Carries(ctl, ctl')
        BY <2>1, <2>3, WholeParts, CarriesItself, InternalCarries DEF RequestStartShot
      <3>3. QED
        BY <2>3, <3>1, <3>2, WholeParts, CarrySteps
    <2>4. QED
      BY <2>2, <2>3
  <1>2. CASE RequestStopShot
    <2>1. cool' = cool /\ shot' = "idle" /\ Carries(ctl, ctl') /\ IsPump(pump')
      BY <1>2, WholeParts, CarriesItself, InternalCarries, PumpOffIsPump DEF RequestStopShot
    <2>2. QED
      BY <2>1, WholeParts, CarrySteps
  <1>3. QED
    BY <1>1, <1>2

LEMMA CooldownRequestsSound ==
  ASSUME Whole, (\E key \in Keys : RequestStartCooldown(key)) \/ StopCooldown
  PROVE  SoundStep
  <1>1. CASE \E key \in Keys : RequestStartCooldown(key)
    <2>1. PICK key \in Keys : RequestStartCooldown(key)
      BY <1>1
    <2>2. CASE ~Calibrating(ctl) /\ CanStart(M, key, shot # "idle")
      <3>1. PICK started \in BOOLEAN, pumped \in BOOLEAN, heated \in BOOLEAN :
              Become(Start(M, key, started /\ ~inhibited, pumped, heated))
        BY <2>1, <2>2 DEF RequestStartCooldown
      <3> DEFINE begins == started /\ ~inhibited
      <3>2. begins \in BOOLEAN /\ Become(Start(M, key, begins, pumped, heated))
        BY <3>1
      <3> HIDE DEF begins
      <3>3. CarriesAll(M, Start(M, key, begins, pumped, heated))
        BY <2>2, <3>2, WholeParts, StartCarries
      <3>4. QED
        BY <2>1, <3>2, <3>3, CarryAllSteps DEF RequestStartCooldown
    <2>3. CASE ~(~Calibrating(ctl) /\ CanStart(M, key, shot # "idle"))
      <3>1. cool' = cool /\ pump' = pump /\ shot' = shot /\ \E ok \in BOOLEAN : AbortOr(ok, ctl)
        BY <2>1, <2>3 DEF RequestStartCooldown
      <3>2. QED
        BY <3>1, WholeParts, CarriesItself, AbortOrSound, OnlyControlSteps
    <2>4. QED
      BY <2>2, <2>3
  <1>2. CASE StopCooldown
    <2>1. PICK wrapped \in BOOLEAN, pumped \in BOOLEAN, heated \in BOOLEAN :
            Become(Stop(M, wrapped, pumped, heated))
      BY <1>2, Zenon DEF StopCooldown
    <2>2. CarriesAll(M, Stop(M, wrapped, pumped, heated))
      BY WholeParts, StopCarries
    <2>3. QED
      BY <1>2, <2>1, <2>2, CarryAllSteps DEF StopCooldown
  <1>3. QED
    BY <1>1, <1>2

(* The transactions, time and a restart.                                         *)
LEMMA TransactionsSound ==
  ASSUME Whole,
         \/ RequestStop \/ (\E targets \in TargetPairs, steam \in world.steam : RequestSettings(targets, steam))
         \/ RequestSaveCalibration \/ PrepareRequest \/ SaveTargets \/ SaveSteam \/ RestoreTargets
         \/ RollbackRequest \/ SaveCalibration \/ RollbackCalibrationRequest \/ Trip
         \/ AdoptRequest \/ AdoptCalibrationRequest
  PROVE  SoundStep
  <1>1. Sound(ctl) /\ Carries(ctl, ctl) /\ IsStored(req)
    BY WholeParts, CarriesItself DEF Whole, TypeOK
  <1>2. cool' = cool /\ pump' = pump /\ shot' = shot
    BY DEF RequestStop, RequestSettings, RequestSaveCalibration, PrepareRequest, SaveTargets, SaveSteam,
           RestoreTargets, RollbackRequest, SaveCalibration, RollbackCalibrationRequest, Trip,
           AdoptRequest, AdoptCalibrationRequest, InsideTheMutex, OutsideTheMutex
  <1>3. Carries(ctl, ctl')
    <2>1. CASE \E targets \in TargetPairs, steam \in world.steam : RequestSettings(targets, steam)
      BY <1>1, <2>1, AbortOrSound DEF RequestSettings
    <2>2. CASE RequestSaveCalibration
      <3>1. PICK ok \in BOOLEAN, saves \in BOOLEAN :
              LET c == Expire(ctl, ok) IN
              \/ CanRenew(c) /\ ctl' \in {PrepareCalibrationSave(c, saves), Renew(c)}
              \/ ctl' = c
        BY <2>2 DEF RequestSaveCalibration
      <3> DEFINE c == Expire(ctl, ok)
      <3>2. Carries(ctl, c) /\ Sound(c)
        BY <1>1, AbortCarries DEF Carries
      <3>3. (CanRenew(c) /\ ctl' \in {PrepareCalibrationSave(c, saves), Renew(c)}) \/ ctl' = c
        BY <3>1
      <3> HIDE DEF c
      <3>4. CanRenew(c) => Carries(c, PrepareCalibrationSave(c, saves)) /\ Carries(c, Renew(c))
        <4>1. CanRenew(c) => Calibrating(c)
          BY DEF CanRenew, Calibrating
        <4>2. Reference \in Candidates
          BY TemperatureAssumption
        <4>3. QED
          BY <3>2, <4>1, <4>2, CalibrationCarries
      <3>5. QED
        BY <3>2, <3>3, <3>4, CarriesTransitive
    <2>3. CASE PrepareRequest
      <3>1. CanPrepareSettings(ctl, req.targets) => ~Calibrating(ctl)
        BY DEF CanPrepareSettings
      <3>2. QED
        BY <1>1, <2>3, <3>1, PrepareCarries DEF PrepareRequest, IsStored
    <2>4. CASE RollbackRequest
      BY <1>1, <2>4, RollbackCarries DEF RollbackRequest
    <2>5. CASE RollbackCalibrationRequest
      BY <1>1, <2>5, RollbackCalibrationCarries DEF RollbackCalibrationRequest
    <2>6. CASE AdoptRequest
      BY <1>1, <2>6, AdoptSettingsCarries DEF AdoptRequest, IsStored
    <2>7. CASE AdoptCalibrationRequest
      BY <1>1, <2>7, AdoptCalibrationCarries DEF AdoptCalibrationRequest, IsStored
    <2>8. CASE RequestStop \/ SaveTargets \/ SaveSteam \/ RestoreTargets \/ SaveCalibration \/ Trip
      BY <1>1, <2>8 DEF RequestStop, SaveTargets, SaveSteam, RestoreTargets, SaveCalibration, Trip,
                        OutsideTheMutex
    <2>9. QED
      BY <2>1, <2>2, <2>3, <2>4, <2>5, <2>6, <2>7, <2>8
  <1>4. QED
    BY <1>2, <1>3, OnlyControlSteps

LEMMA TickSound ==
  ASSUME Whole, Tick
  PROVE  SoundStep
  <1> DEFINE m == [M EXCEPT !.ctl = Age(ctl)]
  <1>1. Become(AgeCooldown(m)) /\ shot' = shot
    BY WholeParts DEF Tick
  <1>2. Carries(ctl, Age(ctl))
    BY WholeParts, SmallCarries DEF Phases
  <1>3. CarriesAll(M, m) /\ IsSoundMachine(m)
    BY <1>2, WholeParts DEF CarriesAll, IsSoundMachine, Carries
  <1> HIDE DEF m
  <1>4. CarriesAll(M, AgeCooldown(m))
    BY <1>3, AgeAllCarries, CarriesAllTransitive
  <1>5. QED
    BY <1>1, <1>4, CarryAllSteps

LEMMA ConstructIsSound ==
  ASSUME NEW stored, IsStored(stored)
  PROVE  LET c == Construct(stored.targets, stored.steam, stored.offset) IN Sound(c) /\ ~Calibrating(c)
  <1> DEFINE fresh ==
        [mode |-> "brew", status |-> "heating", fault |-> "none",
         permit |-> TRUE, heat |-> FALSE, cooling |-> FALSE, phase |-> "idle",
         targets |-> stored.targets, steam |-> stored.steam, offset |-> stored.offset,
         updating |-> FALSE, nextTargets |-> stored.targets, activeChange |-> FALSE,
         steamUpdating |-> FALSE, nextSteam |-> stored.steam,
         calibration |-> "none", candidate |-> Reference - stored.offset,
         session |-> 0, reading |-> Bad, streak |-> 0, band |-> Off,
         achieved |-> FALSE, warmup |-> Off, recovery |-> Off,
         steamTimer |-> Off, soak |-> Off]
             bare == [fresh EXCEPT !.targets = DefaultTargets]
             c == Construct(stored.targets, stored.steam, stored.offset)
  <1>1. /\ stored.targets \in TargetPairs /\ stored.steam \in SteamSettings /\ stored.offset \in Offsets
        /\ Reference - stored.offset \in Candidates /\ DefaultTargets \in TargetPairs
        /\ 0 \in 0..FailureStreak
    <2>1. stored.targets \in TargetPairs /\ stored.steam \in SteamSettings /\ stored.offset \in Offsets
      BY DEF IsStored
    <2>2. DefaultTargets \in TargetPairs
      BY SettingsAssumption
    <2>3. Reference - stored.offset \in Candidates
      BY <2>1, OffsetsAreInt
    <2>4. 0 \in 0..FailureStreak
      BY LimitsAreNat
    <2>5. QED
      BY <2>1, <2>2, <2>3, <2>4
  <1>2. c = IF Reachable(stored.targets, stored.offset) THEN fresh ELSE LatchFault(bare, "internal_error")
    BY DEF Construct
  <1>3. IsController(fresh)
    BY <1>1, AgesAreClosed, LimitsAreNat DEF IsController, ControllerFields, Modes, Phases
  <1>4. fresh.calibration = "none"
    OBVIOUS
  <1> HIDE DEF fresh
  <1>5. IsController(bare) /\ bare.calibration = "none"
    BY <1>1, <1>3, <1>4 DEF IsController, ControllerFields
  <1> HIDE DEF bare, c
  <1>6. Sound(c) /\ ~Calibrating(c)
    BY <1>2, <1>3, <1>4, <1>5, InternalCarries DEF Carries, Sound, Alone, Calibrating
  <1>7. QED
    BY <1>6 DEF c

LEMMA BootedIsSound ==
  ASSUME NEW stored, IsStored(stored), NEW reading \in Raw \cup {Bad}, NEW pulse \in BOOLEAN
  PROVE  Sound(Booted(stored, reading, pulse)) /\ ~Calibrating(Booted(stored, reading, pulse))
  <1> DEFINE c == Construct(stored.targets, stored.steam, stored.offset)
  <1>1. Sound(c) /\ ~Calibrating(c)
    BY ConstructIsSound
  <1> HIDE DEF c
  <1>2. Carries(c, Update(c, reading, FALSE, TRUE, TRUE, pulse))
    BY <1>1, UpdateCarries
  <1>3. QED
    BY <1>1, <1>2 DEF Booted, c, Carries

LEMMA NothingIsTyped == IsCooldown(NoCooldown) /\ IsPump(StoppedPump)
  <1>1. 0 \in 0..LongestCooldown /\ 0 \in 0..Stabilization
    BY CooldownAssumption DEF LongestCooldown
  <1>2. QED
    BY <1>1, PumpsArePumps DEF NoCooldown, IsCooldown, CooldownFields

LEMMA RestartSound ==
  ASSUME Whole, Restart
  PROVE  Sound(ctl') /\ ~Calibrating(ctl') /\ IsCooldown(cool') /\ IsPump(pump')
  <1>1. PICK reading \in Readings, pulse \in BOOLEAN : ctl' = Booted(nvs, reading, pulse)
    BY DEF Restart
  <1>2. Sound(ctl') /\ ~Calibrating(ctl')
    BY <1>1, WorldsAreTyped, BootedIsSound DEF Whole, TypeOK
  <1>3. QED
    BY <1>2, NothingIsTyped DEF Restart

LEMMA NextSound ==
  ASSUME Whole, Next, ~Restart
  PROVE  SoundStep
  <1>1. CASE Serve
    <2>1. CASE (\E mode \in Modes : RequestMode(mode)) \/ (\E enabled \in BOOLEAN : RequestHeater(enabled))
      BY <2>1, ModeSound, HeaterSound
    <2>2. QED
      BY <1>1, <2>1, DismissSoundStep, SessionSound, StartCalibrationStep, ShotRequestsSound,
         CooldownRequestsSound, TransactionsSound DEF Serve
  <1>2. CASE Continue
    BY <1>2, CooldownRequestsSound, TransactionsSound DEF Continue
  <1>3. QED
    BY <1>1, <1>2, TemperatureSound, WorkflowSound, EmergencySound, TickSound, TransactionsSound
       DEF Next, MissLock, MissInRequest

(* The rest of the state.                                                        *)
RestOK ==
  /\ world \in Worlds /\ shot \in Phases
  /\ tripped \in BOOLEAN /\ inhibited \in BOOLEAN /\ failSafe \in BOOLEAN
  /\ due \in BOOLEAN /\ lost \in BOOLEAN
  /\ api \in Free \cup InTransaction \cup InStop
StoredOK == IsStored(req) /\ IsStored(nvs)

LEMMA RestTyped ==
  ASSUME RestOK, Next
  PROVE  RestOK'
  <1> USE DEF RestOK, Free, InTransaction, InStop
  <1>1. world' \in Worlds
    BY DEF Next
  <1>2. CASE TemperatureUpdate \/ WorkflowUpdate \/ Tick \/ Trip
    <2>1. shot' \in Phases
      BY <1>2 DEF TemperatureUpdate, WorkflowUpdate, WorkflowTurn, AdvanceShot, FailShot, Phases, Tick, Trip
    <2>2. QED
      BY <1>1, <1>2, <2>1 DEF TemperatureUpdate, WorkflowUpdate, WorkflowTurn, Overtake, Tick, Trip
  <1>3. CASE MissLock \/ MissInRequest
    BY <1>1, <1>3 DEF MissLock, MissInRequest, Emergency
  <1>4. CASE Restart
    BY <1>1, <1>4 DEF Restart, Phases
  <1>5. CASE Serve
    <2>1. shot' \in Phases
      BY <1>5 DEF Serve, RequestMode, RequestHeater, RequestDismiss, Poll, RequestStartCalibration,
                  RequestRenew,
                  RequestCancel, RequestCandidate, RequestStartShot, RequestStopShot, RequestStartCooldown,
                  RequestStop, RequestSettings, RequestSaveCalibration, OnlyControl, InsideTheMutex,
                  FirstPhases, Phases
    <2>2. QED
      BY <1>1, <1>5, <2>1
         DEF Serve, Request, RequestMode, RequestHeater, RequestDismiss, Poll, RequestStartCalibration,
             RequestRenew, RequestCancel, RequestCandidate, RequestStartShot, RequestStopShot,
             RequestStartCooldown, RequestStop, RequestSettings, RequestSaveCalibration, InsideTheMutex
  <1>6. CASE Continue
    BY <1>1, <1>6
       DEF Continue, StopCooldown, PrepareRequest, SaveTargets, SaveSteam, RestoreTargets, RollbackRequest,
           AdoptRequest, SaveCalibration, RollbackCalibrationRequest, AdoptCalibrationRequest,
           InsideTheMutex, OutsideTheMutex
  <1>7. QED
    BY <1>2, <1>3, <1>4, <1>5, <1>6 DEF Next

LEMMA StoredTyped ==
  ASSUME Whole, Next
  PROVE  StoredOK'
  <1>1. StoredOK /\ Sound(ctl) /\ world.steam \subseteq SteamSettings
    BY WholeParts, WorldsAreTyped DEF Whole, TypeOK, StoredOK
  <1> USE DEF StoredOK, IsStored
  <1>2. CASE \E targets \in TargetPairs, steam \in world.steam : RequestSettings(targets, steam)
    BY <1>1, <1>2 DEF RequestSettings
  <1>3. CASE RequestSaveCalibration
    <2>1. PICK ok \in BOOLEAN : LET c == Expire(ctl, ok) IN
            nvs' = nvs /\ (req' = [req EXCEPT !.offset = CandidateOffset(c)] \/ req' = req)
      BY <1>3 DEF RequestSaveCalibration
    <2> DEFINE c == Expire(ctl, ok)
    <2>2. Sound(c)
      BY <1>1, AbortCarries DEF Carries
    <2>3. nvs' = nvs /\ (req' = [req EXCEPT !.offset = CandidateOffset(c)] \/ req' = req)
      BY <2>1
    <2> HIDE DEF c
    <2>4. CandidateOffset(c) \in Offsets
      BY <2>2, OffsetsAreInt DEF CandidateOffset, Sound, IsController
    <2>5. QED
      BY <1>1, <2>3, <2>4
  <1>4. CASE SaveTargets \/ SaveSteam \/ SaveCalibration
    BY <1>1, <1>4 DEF SaveTargets, SaveSteam, SaveCalibration
  <1>5. CASE RestoreTargets
    BY <1>1, <1>5 DEF RestoreTargets, Sound, IsController
  <1>6. CASE Restart
    BY <1>1, <1>6 DEF Restart
  <1>7. CASE req' = req /\ nvs' = nvs
    BY <1>1, <1>7
  <1>8. ASSUME ~RequestSaveCalibration, ~SaveTargets, ~SaveSteam, ~SaveCalibration, ~RestoreTargets, ~Restart,
               ~\E targets \in TargetPairs, steam \in world.steam : RequestSettings(targets, steam)
        PROVE  req' = req /\ nvs' = nvs
    <2>1. CASE Serve
      BY <1>8, <2>1
         DEF Serve, Request, RequestMode, RequestHeater, RequestDismiss, Poll, RequestStartCalibration,
             RequestRenew, RequestCancel, RequestCandidate, RequestStartShot, RequestStopShot,
             RequestStartCooldown, RequestStop
    <2>2. CASE Continue
      BY <1>8, <2>2 DEF Continue, StopCooldown, PrepareRequest, RollbackRequest, AdoptRequest,
                        RollbackCalibrationRequest, AdoptCalibrationRequest
    <2>3. QED
      BY <1>8, <2>1, <2>2
         DEF Next, TemperatureUpdate, WorkflowUpdate, WorkflowTurn, MissLock, MissInRequest, Trip, Tick
  <1>9. QED
    BY <1>2, <1>3, <1>4, <1>5, <1>6, <1>7, <1>8

-----------------------------------------------------------------------------
(* All together.                                                                 *)
LEMMA InitIsWhole == Init => Whole
  <1> SUFFICES ASSUME Init PROVE Whole
    OBVIOUS
  <1>1. PICK offset \in Offsets, reading \in Readings, pulse \in BOOLEAN :
          /\ nvs = [targets |-> DefaultTargets, steam |-> DefaultSteam, offset |-> offset]
          /\ ctl = Booted(nvs, reading, pulse) /\ Boot(nvs)
    BY DEF Init
  <1>2. world \in Worlds /\ Readings \subseteq Raw \cup {Bad}
    BY WorldsAssumption DEF Init, Readings
  <1>3. IsStored(nvs) /\ IsStored(req)
    BY <1>1, SettingsAssumption, DefaultsAssumption DEF IsStored, Boot
  <1>4. Sound(ctl) /\ ~Calibrating(ctl)
    BY <1>1, <1>2, <1>3, BootedIsSound
  <1>5. IsCooldown(cool) /\ IsPump(pump)
    BY <1>1, NothingIsTyped DEF Boot
  <1>6. QED
    BY <1>1, <1>2, <1>3, <1>4, <1>5 DEF Whole, TypeOK, Sound, Boot, Phases, Free

LEMMA NextIsWhole ==
  ASSUME Whole, [Next]_vars
  PROVE  Whole' /\ (Next => Hardens \/ Restart)
  <1>1. CASE Next
    <2>1. RestOK'
      BY <1>1, RestTyped DEF Whole, TypeOK, RestOK
    <2>2. StoredOK'
      BY <1>1, StoredTyped
    <2>3. CASE Restart
      BY <2>1, <2>2, <2>3, RestartSound DEF Whole, TypeOK, RestOK, StoredOK, Sound
    <2>4. CASE ~Restart
      BY <1>1, <2>1, <2>2, <2>4, NextSound DEF Whole, TypeOK, RestOK, StoredOK, Sound, SoundStep
    <2>5. QED
      BY <2>3, <2>4
  <1>2. CASE UNCHANGED vars /\ ~Next
    BY <1>2 DEF Whole, TypeOK, vars, state, Alone
  <1>3. QED
    BY <1>1, <1>2

LEMMA AlwaysWhole == Spec => []Whole
  BY InitIsWhole, NextIsWhole, PTL DEF Spec

(* Every field of the shared control state keeps its type: no timer passes its   *)
(* limit, no method leaves a status, a fault or a setting outside its values.    *)
THEOREM TypeCorrect == Spec => []TypeOK
  <1>1. Whole => TypeOK
    BY DEF Whole
  <1>2. QED
    BY <1>1, AlwaysWhole, PTL

(* TemperatureController's latched fault is dismissed only as an                 *)
(* over-temperature whose cause is gone, and no later failure of any task makes  *)
(* another fault dismissable.                                                    *)
THEOREM FaultsHarden == Spec => FaultOnlyHardens
  <1>1. Whole /\ [Next]_vars =>
          [Faulted(ctl) =>
             \/ ctl'.fault = "none" /\ Dismissable(ctl)
             \/ ctl'.fault = "over_temperature" /\ ctl.fault = "over_temperature"
             \/ ctl'.fault \in Faults \ {"over_temperature"}
             \/ Restart]_vars
    BY NextIsWhole DEF Hardens
  <1>2. QED
    BY <1>1, AlwaysWhole, PTL DEF Spec, FaultOnlyHardens

(* An open calibration session excludes shot, cooldown, Steam, settings save,    *)
(* fault and heating deadline, whoever else asked for one in the meantime.       *)
THEOREM CalibrationExcludes == Spec => []CalibrationIsAlone
  <1>1. Whole /\ Consistent => CalibrationIsAlone
    BY WholeParts DEF Whole, Alone, Consistent, Owned, Inhibits, CalibrationIsAlone
  <1>2. QED
    BY <1>1, AlwaysWhole, AlwaysConsistent, PTL

-----------------------------------------------------------------------------
(* III. Time.                                                                    *)

(* Heat is permitted and no save is under way; it is bounded in time; only the   *)
(* branch's own deadline runs; and none has passed without effect.               *)
Backed(c) == c.heat => c.permit /\ Idle(c)
Timed(c) ==
  c.heat =>
    IF Calibrating(c) THEN c.calibration = "saving" \/ c.session < SessionLease
    ELSE DemandsHeat(c) => Running(c.warmup) \/ Running(c.recovery) \/ c.status = "ready"
OneDeadline(c) == IF c.achieved THEN c.warmup = Off ELSE c.recovery = Off
Kept(c) ==
  ReadingOk(c) /\ ~Faulted(c) => c.warmup < HeatingTimeout /\ c.recovery < HeatingTimeout

(* What a method may do to the deadlines, to the heat and to what is under way.  *)
Steady(c, r) ==
  /\ OneDeadline(c) => OneDeadline(r)
  /\ r.warmup \in {c.warmup, Off} /\ r.recovery \in {c.recovery, Off}
  /\ r.reading = c.reading
  /\ Faulted(c) => Faulted(r)
Warms(c, r) == Backed(c) => (r.heat => c.heat) /\ Backed(r) /\ (Timed(c) => Timed(r))
Rests(c, r) == Steady(c, r) /\ Warms(c, r)
Releases(c, r) ==
  /\ r.updating => c.updating
  /\ r.steamUpdating => c.steamUpdating /\ r.nextSteam = c.nextSteam
  /\ r.calibration = "saving" => c.calibration = "saving"
  /\ Calibrating(r) => Calibrating(c)
Settles(c, r) == Rests(c, r) /\ Releases(c, r)

(* Methods call one another, so that each relation has to compose.               *)
LEMMA SteadyTransitive ==
  ASSUME NEW c, NEW d, NEW e, Steady(c, d), Steady(d, e)
  PROVE  Steady(c, e)
  BY DEF Steady

LEMMA ReleasesTransitive ==
  ASSUME NEW c, NEW d, NEW e, Releases(c, d), Releases(d, e)
  PROVE  Releases(c, e)
  BY DEF Releases

LEMMA SettlesTransitive ==
  ASSUME NEW c, NEW d, NEW e, Settles(c, d), Settles(d, e)
  PROVE  Settles(c, e)
  BY SteadyTransitive, ReleasesTransitive DEF Settles, Rests, Warms

LEMMA RestsTransitive ==
  ASSUME NEW c, NEW d, NEW e, Rests(c, d), Rests(d, e)
  PROVE  Rests(c, e)
  BY SteadyTransitive DEF Rests, Warms

LEMMA SettlesItself ==
  ASSUME NEW c
  PROVE  Settles(c, c)
  BY DEF Settles, Rests, Steady, Warms, Releases

(* To change nothing that these relations look at settles.                       *)
Alike(c, r) ==
  /\ r.warmup = c.warmup /\ r.recovery = c.recovery /\ r.reading = c.reading
  /\ r.fault = c.fault /\ r.achieved = c.achieved /\ r.calibration = c.calibration
  /\ r.updating = c.updating /\ r.steamUpdating = c.steamUpdating /\ r.nextSteam = c.nextSteam
  /\ r.permit = c.permit /\ r.status = c.status /\ DemandsHeat(r) = DemandsHeat(c)

LEMMA AlikeSettles ==
  ASSUME NEW c, NEW r, Alike(c, r), r.heat => c.heat, r.session \in {c.session, 0}
  PROVE  Settles(c, r) /\ Steady(c, r) /\ Releases(c, r)
  <1>1. 0 < SessionLease
    BY TimingAssumption
  <1>2. Steady(c, r) /\ Releases(c, r)
    BY DEF Alike, Steady, Releases, OneDeadline, Faulted, Calibrating
  <1>3. Warms(c, r)
    BY <1>1 DEF Alike, Warms, Backed, Timed, Idle, Calibrating
  <1>4. QED
    BY <1>2, <1>3 DEF Settles, Rests

LEMMA ColdRests ==
  ASSUME NEW c, NEW r, r.heat = FALSE
  PROVE  /\ Warms(c, r)
         /\ Steady(c, r) => Rests(c, r)
         /\ Steady(c, r) /\ Releases(c, r) => Settles(c, r)
  BY DEF Settles, Rests, Warms, Backed, Timed

(* A fault turns the heat off, and both deadlines with it.                       *)
LEMMA LatchSettles ==
  ASSUME NEW c, IsController(c), NEW code \in Faults
  PROVE  /\ Settles(c, LatchFault(c, code)) /\ Faulted(LatchFault(c, code))
         /\ LatchFault(c, code).heat = FALSE
  <1> DEFINE r == LatchFault(c, code)
  <1>1. /\ r.heat = FALSE /\ r.fault = code /\ r.warmup = Off /\ r.recovery = Off
        /\ r.reading = c.reading /\ r.calibration = "none"
        /\ r.updating = c.updating /\ r.steamUpdating = c.steamUpdating /\ r.nextSteam = c.nextSteam
    BY DEF LatchFault, IsController, ControllerFields
  <1> HIDE DEF r
  <1>2. Faulted(r) /\ ~Calibrating(r)
    BY <1>1 DEF Faulted, Calibrating, Faults
  <1>3. Steady(c, r) /\ Releases(c, r)
    BY <1>1, <1>2 DEF Steady, Releases, OneDeadline
  <1>4. QED
    BY <1>1, <1>2, <1>3, ColdRests DEF r

LEMMA InternalSettles ==
  ASSUME NEW c, IsController(c)
  PROVE  /\ Settles(c, LatchFault(c, "internal_error")) /\ Faulted(LatchFault(c, "internal_error"))
         /\ LatchFault(c, "internal_error").heat = FALSE
  BY LatchSettles DEF Faults

LEMMA HeatOffSettles ==
  ASSUME NEW c, IsController(c), NEW heat \in BOOLEAN, heat => c.heat
  PROVE  Settles(c, [c EXCEPT !.heat = heat]) /\ IsController([c EXCEPT !.heat = heat])
  <1> DEFINE r == [c EXCEPT !.heat = heat]
  <1>1. r.heat = heat /\ IsController(r) /\ r.session = c.session
    BY DEF IsController, ControllerFields
  <1>2. Alike(c, r)
    BY DEF Alike, DemandsHeat, ControlTemperature, ControlTarget, ActiveTarget, Calibrating, Effective,
           Compensation, IsController, ControllerFields
  <1> HIDE DEF r
  <1>3. QED
    BY <1>1, <1>2, AlikeSettles DEF r

LEMMA ForceOffSettles ==
  ASSUME NEW c, IsController(c), NEW ok \in BOOLEAN
  PROVE  /\ Settles(c, ForceOff(c, ok)) /\ ForceOff(c, ok).heat = FALSE
         /\ Steady(c, ForceOff(c, ok)) /\ Releases(c, ForceOff(c, ok))
  <1>1. [c EXCEPT !.heat = FALSE].heat = FALSE
    BY DEF IsController, ControllerFields
  <1>2. QED
    BY <1>1, InternalSettles, HeatOffSettles DEF ForceOff, Settles, Rests

(* What is steady and then off settles.                                          *)
LEMMA ThenOff ==
  ASSUME NEW c, NEW d, IsController(d), Steady(c, d), NEW ok \in BOOLEAN
  PROVE  /\ Rests(c, ForceOff(d, ok)) /\ ForceOff(d, ok).heat = FALSE
         /\ Releases(c, d) => Settles(c, ForceOff(d, ok))
  BY ForceOffSettles, SteadyTransitive, ReleasesTransitive, ColdRests

(* The methods of TemperatureController, from the smallest.                      *)
LEMMA ReturnSteady ==
  ASSUME NEW c, IsController(c)
  PROVE  Steady(c, ReturnToBrew(c)) /\ Releases(c, ReturnToBrew(c)) /\ ReturnToBrew(c).heat = c.heat
  <1> DEFINE r == ReturnToBrew(c)
  <1>1. /\ r.warmup = Off /\ r.recovery = Off /\ r.achieved = FALSE /\ r.reading = c.reading
        /\ r.fault = c.fault /\ r.calibration = c.calibration /\ r.heat = c.heat
        /\ r.updating = c.updating /\ r.steamUpdating = c.steamUpdating /\ r.nextSteam = c.nextSteam
    BY DEF ReturnToBrew, IsController, ControllerFields
  <1> HIDE DEF r
  <1>2. QED
    BY <1>1 DEF Steady, Releases, OneDeadline, Faulted, Calibrating, r

LEMMA RestoreSettles ==
  ASSUME NEW c, Sound(c), NEW ok \in BOOLEAN
  PROVE  LET r == RestoreOrdinaryBrew(c, ok) IN
           Settles(c, r) /\ r.heat = FALSE /\ Steady(c, r) /\ Releases(c, r)
  <1> DEFINE left == [c EXCEPT !.calibration = "none", !.candidate = Reference - c.offset]
             off == [left EXCEPT !.heat = FALSE]
  <1>1. IsController(left) /\ Steady(c, left) /\ Releases(c, left)
    BY OffsetsAreInt DEF Steady, Releases, OneDeadline, Faulted, Calibrating, Sound, IsController,
                         ControllerFields
  <1>2. RestoreOrdinaryBrew(c, ok) = IF ok THEN ReturnToBrew(off) ELSE LatchFault(left, "internal_error")
    BY DEF RestoreOrdinaryBrew
  <1> HIDE DEF left
  <1>3. IsController(off) /\ off.heat = FALSE /\ Steady(left, off) /\ Releases(left, off)
    BY <1>1, HeatOffSettles DEF Settles, Rests, IsController, ControllerFields
  <1> HIDE DEF off
  <1>4. /\ Steady(c, ReturnToBrew(off)) /\ Releases(c, ReturnToBrew(off)) /\ ReturnToBrew(off).heat = FALSE
    BY <1>1, <1>3, ReturnSteady, SteadyTransitive, ReleasesTransitive
  <1>5. LET r == LatchFault(left, "internal_error") IN
          Steady(c, r) /\ Releases(c, r) /\ r.heat = FALSE
    BY <1>1, InternalSettles, SteadyTransitive, ReleasesTransitive DEF Settles, Rests
  <1>6. QED
    BY <1>2, <1>4, <1>5, ColdRests

LEMMA AbortSettles ==
  ASSUME NEW c, Sound(c), NEW ok \in BOOLEAN
  PROVE  Settles(c, Abort(c, ok)) /\ Settles(c, Expire(c, ok))
  BY RestoreSettles, SettlesItself DEF Abort, Expire

LEMMA SetHeaterSettles ==
  ASSUME NEW c, Sound(c), ~Calibrating(c), NEW enabled \in BOOLEAN, NEW lease \in BOOLEAN
  PROVE  Settles(c, SetHeaterEnabled(c, enabled, lease))
  <1> DEFINE kept == [c EXCEPT !.heat = @ /\ enabled]
             r == Permit(c, enabled)
  <1>1. Settles(c, kept)
    BY HeatOffSettles DEF Sound, IsController
  <1>2. CASE c.permit # enabled
    <2>1. /\ r.permit = enabled /\ r.warmup = Off /\ r.recovery = Off /\ r.achieved = FALSE
          /\ r.reading = c.reading /\ r.fault = c.fault /\ r.calibration = c.calibration
          /\ r.updating = c.updating /\ r.steamUpdating = c.steamUpdating /\ r.nextSteam = c.nextSteam
          /\ r.heat = (c.heat /\ enabled /\ ~Faulted(c))
      BY DEF Permit, Sound, IsController, ControllerFields
    <2> HIDE DEF r
    <2>2. Steady(c, r) /\ Releases(c, r)
      BY <2>1 DEF Steady, Releases, OneDeadline, Faulted, Calibrating
    <2>3. Warms(c, r)
      BY <1>2, <2>1 DEF Warms, Backed, Timed
    <2>4. SetHeaterEnabled(c, enabled, lease) \in {r, c, LatchFault(c, "internal_error")}
      BY <1>2 DEF SetHeaterEnabled, r
    <2>5. QED
      BY <2>2, <2>3, <2>4, InternalSettles, SettlesItself DEF Settles, Rests, Sound
  <1>3. CASE c.permit = enabled
    <2>1. SetHeaterEnabled(c, enabled, lease) \in {kept, c, LatchFault(c, "internal_error")}
      BY <1>3 DEF SetHeaterEnabled
    <2>2. QED
      BY <1>1, <2>1, InternalSettles, SettlesItself DEF Sound
  <1>4. QED
    BY <1>2, <1>3

LEMMA PhaseSettles ==
  ASSUME NEW c, IsController(c), NEW phase
  PROVE  Settles(c, SetExtractionPhase(c, phase))
  <1> DEFINE r == SetExtractionPhase(c, phase)
  <1>1. r.heat = c.heat /\ r.session = c.session
    BY DEF SetExtractionPhase, IsController, ControllerFields
  <1>2. Alike(c, r)
    BY DEF Alike, DemandsHeat, ControlTemperature, ControlTarget, ActiveTarget, Calibrating, Effective,
           Compensation, SetExtractionPhase, IsController, ControllerFields
  <1> HIDE DEF r
  <1>3. QED
    BY <1>1, <1>2, AlikeSettles DEF r

LEMMA SetModeSettles ==
  ASSUME NEW c, Sound(c), NEW mode \in Modes, NEW ok \in BOOLEAN
  PROVE  Settles(c, SetMode(c, mode, ok))
  <1> DEFINE moved == Moved(c, mode)
             off == [moved EXCEPT !.status = "fault", !.heat = FALSE]
  <1>1. SetMode(c, mode, ok) \in {RestoreOrdinaryBrew(c, ok), c, off, ForceOff(moved, ok)}
    BY DEF SetMode
  <1>2. IsController(moved)
    BY AgesAreClosed, LimitsAreNat DEF Moved, ReturnToBrew, Sound, IsController, ControllerFields
  <1>3. /\ moved.warmup = Off /\ moved.recovery = Off /\ moved.achieved = FALSE
        /\ moved.reading = c.reading /\ moved.fault = c.fault /\ moved.calibration = c.calibration
        /\ moved.updating = c.updating /\ moved.steamUpdating = c.steamUpdating /\ moved.nextSteam = c.nextSteam
    BY DEF Moved, ReturnToBrew, Sound, IsController, ControllerFields
  <1> HIDE DEF moved
  <1>4. Steady(c, moved) /\ Releases(c, moved)
    BY <1>3 DEF Steady, Releases, OneDeadline, Faulted, Calibrating
  <1>5. Steady(c, off) /\ Releases(c, off) /\ off.heat = FALSE
    BY <1>2, <1>3 DEF Steady, Releases, OneDeadline, Faulted, Calibrating, IsController, ControllerFields
  <1> HIDE DEF off
  <1>6. Settles(c, off) /\ Settles(c, ForceOff(moved, ok))
    BY <1>2, <1>4, <1>5, ColdRests, ThenOff
  <1>7. QED
    BY <1>1, <1>6, RestoreSettles, SettlesItself

LEMMA PrepareRests ==
  ASSUME NEW c, Sound(c), ~Calibrating(c), NEW targets \in TargetPairs, NEW steam \in SteamSettings,
         NEW ok \in BOOLEAN
  PROVE  Rests(c, PrepareSettings(c, targets, steam, ok))
  <1> DEFINE d == Prepared(c, targets, steam)
  <1>1. IsController(d)
    BY DEF Prepared, ActiveDiffers, Sound, IsController, ControllerFields
  <1>2. Steady(c, d)
    BY DEF Prepared, Steady, OneDeadline, Faulted, Sound, IsController, ControllerFields
  <1> HIDE DEF d
  <1>3. Rests(c, ForceOff(d, ok))
    BY <1>1, <1>2, ThenOff
  <1>4. QED
    BY <1>3, SettlesItself DEF PrepareSettings, d, Settles

LEMMA RollbackSettles ==
  ASSUME NEW c, Sound(c), NEW ok \in BOOLEAN
  PROVE  Settles(c, RollbackSettings(c, ok))
  <1> DEFINE d == RollbackTargets(c, ok)
             back == [c EXCEPT !.heat = FALSE, !.nextTargets = c.targets, !.activeChange = FALSE,
                               !.updating = FALSE]
  <1>1. Steady(c, back) /\ Releases(c, back) /\ back.heat = FALSE /\ IsController(back)
    BY DEF Steady, Releases, OneDeadline, Faulted, Calibrating, Sound, IsController, ControllerFields
  <1>2. d \in {back, LatchFault(c, "internal_error"), c}
    BY DEF RollbackTargets
  <1> HIDE DEF back, d
  <1>3. Settles(c, d) /\ IsController(d)
    BY <1>1, <1>2, ColdRests, InternalSettles, SettlesItself, InternalCarries DEF Carries, Sound
  <1> DEFINE r == [d EXCEPT !.heat = FALSE, !.nextSteam = d.steam, !.steamUpdating = FALSE]
  <1>4. Steady(d, r) /\ Releases(d, r) /\ r.heat = FALSE
    BY <1>3 DEF Steady, Releases, OneDeadline, Faulted, Calibrating, IsController, ControllerFields
  <1>5. RollbackSettings(c, ok) \in {r, d}
    BY DEF RollbackSettings, RollbackSteam, d
  <1> HIDE DEF r
  <1>6. QED
    BY <1>3, <1>4, <1>5, ColdRests, SettlesTransitive

LEMMA AdoptSettles ==
  ASSUME NEW c, Sound(c), NEW targets \in TargetPairs, NEW steam \in SteamSettings
  PROVE  Settles(c, AdoptSettings(c, targets, steam))
  <1> DEFINE adopted == [c EXCEPT !.targets = targets, !.activeChange = FALSE, !.updating = FALSE]
             again == [adopted EXCEPT
                         !.band = Off, !.achieved = @ /\ (Running(c.warmup) \/ Running(c.recovery)),
                         !.status = IF Faulted(c) THEN @ ELSE "heating"]
             first == IF targets = c.targets THEN c ELSE AdoptTargets(c, targets)
  <1>1. /\ Steady(c, adopted) /\ Releases(c, adopted) /\ adopted.heat = c.heat /\ Sound(adopted)
        /\ adopted.warmup = c.warmup /\ adopted.recovery = c.recovery
    BY DEF Steady, Releases, OneDeadline, Faulted, Calibrating, Sound, Alone, Idle, IsController,
           ControllerFields
  <1>2. first \in {LatchFault(c, "internal_error"), c} \/ (c.updating /\ first \in {adopted, again})
    BY DEF AdoptTargets
  <1> HIDE DEF adopted
  <1>3. Steady(c, again) /\ Releases(c, again) /\ again.heat = c.heat /\ Sound(again)
    <2>1. /\ Steady(adopted, again) /\ Releases(adopted, again) /\ again.heat = adopted.heat
          /\ IsController(again) /\ Alone(again)
      BY <1>1, AgesAreClosed, LimitsAreNat
         DEF Steady, Releases, OneDeadline, Running, Faulted, Calibrating, Sound, Alone, Idle, IsController,
             ControllerFields
    <2>2. QED
      BY <1>1, <2>1, SteadyTransitive, ReleasesTransitive DEF Sound
  <1> HIDE DEF again, first
  <1>4. Settles(c, first) /\ Sound(first)
    <2>1. c.updating /\ Backed(c) => ~c.heat
      BY DEF Backed, Idle
    <2>2. c.heat \in BOOLEAN
      BY DEF Sound, IsController
    <2>3. c.updating => Settles(c, adopted) /\ Settles(c, again)
      BY <1>1, <1>3, <2>1, <2>2 DEF Settles, Rests, Warms, Backed, Timed
    <2>4. QED
      BY <1>1, <1>2, <1>3, <2>3, InternalSettles, InternalCarries, SettlesItself DEF Carries, Sound
  <1>5. AdoptSettings(c, targets, steam) \in {first, AdoptSteam(first, steam)}
    BY DEF AdoptSettings, first
  <1>6. Settles(first, AdoptSteam(first, steam))
    <2> DEFINE r == [first EXCEPT !.steam = steam, !.steamUpdating = FALSE]
    <2>1. Steady(first, r) /\ Releases(first, r) /\ r.heat = first.heat
      BY <1>4 DEF Steady, Releases, OneDeadline, Faulted, Calibrating, Sound, IsController, ControllerFields
    <2>2. AdoptSteam(first, steam) = LatchFault(first, "internal_error")
            \/ (first.steamUpdating /\ AdoptSteam(first, steam) = r)
      BY DEF AdoptSteam
    <2> HIDE DEF r
    <2>3. first.steamUpdating => Settles(first, r)
      BY <1>4, <2>1 DEF Settles, Rests, Warms, Backed, Timed, Idle, Sound, IsController
    <2>4. QED
      BY <1>4, <2>2, <2>3, InternalSettles DEF Sound
  <1>7. QED
    BY <1>4, <1>5, <1>6, SettlesTransitive

(* The calibration's own methods.                                                *)
LEMMA StartCalibrationRests ==
  ASSUME NEW c, Sound(c), NEW ok \in BOOLEAN
  PROVE  Rests(c, StartCalibration(c, ok))
  <1> DEFINE begun == [c EXCEPT !.calibration = "active", !.candidate = Reference - c.offset,
                                !.session = 0, !.band = Off, !.warmup = Off, !.recovery = Off,
                                !.achieved = FALSE, !.status = "heating"]
  <1>1. IsController(begun)
    BY AgesAreClosed, LimitsAreNat, OffsetsAreInt DEF Sound, IsController, ControllerFields
  <1>2. Steady(c, begun)
    BY DEF Steady, OneDeadline, Faulted, Sound, IsController, ControllerFields
  <1>3. StartCalibration(c, ok) = ForceOff(begun, ok)
    BY DEF StartCalibration
  <1> HIDE DEF begun
  <1>4. QED
    BY <1>1, <1>2, <1>3, ThenOff

LEMMA RenewSettles ==
  ASSUME NEW c, Sound(c)
  PROVE  Settles(c, Renew(c)) /\ IsController(Renew(c)) /\ Steady(c, Renew(c)) /\ Releases(c, Renew(c))
  <1> DEFINE r == Renew(c)
  <1>1. r.heat = c.heat /\ r.session = 0 /\ IsController(r)
    BY AgesAreClosed, LimitsAreNat DEF Renew, Sound, IsController, ControllerFields
  <1>2. Alike(c, r)
    BY DEF Alike, DemandsHeat, ControlTemperature, ControlTarget, ActiveTarget, Calibrating, Effective,
           Compensation, Renew, Sound, IsController, ControllerFields
  <1> HIDE DEF r
  <1>3. QED
    BY <1>1, <1>2, AlikeSettles DEF r

LEMMA CandidateSettles ==
  ASSUME NEW c, Sound(c), NEW candidate \in Candidates, NEW ok \in BOOLEAN
  PROVE  Settles(c, SetCandidate(c, candidate, ok))
  <1> DEFINE d == Renew(c)
             set == [d EXCEPT !.candidate = candidate, !.band = Off, !.status = "heating"]
  <1>1. Settles(c, d) /\ IsController(d)
    BY RenewSettles
  <1>2. SetCandidate(c, candidate, ok) \in {d, ForceOff(set, ok)}
    BY DEF SetCandidate
  <1> HIDE DEF d
  <1>3. IsController(set) /\ Steady(d, set) /\ Releases(d, set)
    BY <1>1, AgesAreClosed, LimitsAreNat
       DEF Steady, Releases, OneDeadline, Faulted, Calibrating, IsController, ControllerFields
  <1> HIDE DEF set
  <1>4. Settles(d, ForceOff(set, ok))
    BY <1>3, ThenOff
  <1>5. QED
    BY <1>1, <1>2, <1>4, SettlesTransitive

LEMMA SaveRests ==
  ASSUME NEW c, Sound(c), NEW ok \in BOOLEAN
  PROVE  Rests(c, PrepareCalibrationSave(c, ok))
  <1> DEFINE d == Renew(c)
             saving == [d EXCEPT !.calibration = "saving"]
  <1>1. Steady(c, d) /\ IsController(d)
    BY RenewSettles
  <1>2. PrepareCalibrationSave(c, ok) = ForceOff(saving, ok)
    BY DEF PrepareCalibrationSave
  <1> HIDE DEF d
  <1>3. IsController(saving) /\ Steady(d, saving)
    BY <1>1 DEF Steady, OneDeadline, Faulted, IsController, ControllerFields
  <1> HIDE DEF saving
  <1>4. QED
    BY <1>1, <1>2, <1>3, ThenOff, SteadyTransitive

LEMMA RollbackCalibrationSettles ==
  ASSUME NEW c, Sound(c)
  PROVE  Settles(c, RollbackCalibration(c)) /\ RollbackCalibration(c).calibration # "saving"
  <1> DEFINE r == [c EXCEPT !.calibration = "active", !.session = 0]
  <1>1. CASE c.calibration = "saving"
    <2>1. /\ r.warmup = c.warmup /\ r.recovery = c.recovery /\ r.reading = c.reading
          /\ r.fault = c.fault /\ r.achieved = c.achieved /\ r.calibration = "active"
          /\ r.updating = c.updating /\ r.steamUpdating = c.steamUpdating /\ r.nextSteam = c.nextSteam
    /\ r.permit = c.permit
          /\ r.session = 0 /\ r.heat = c.heat
      BY DEF Sound, IsController, ControllerFields
    <2>2. 0 < SessionLease
      BY TimingAssumption
    <2> HIDE DEF r
    <2>3. Steady(c, r) /\ Releases(c, r)
      BY <1>1, <2>1 DEF Steady, Releases, OneDeadline, Faulted, Calibrating
    <2>4. Warms(c, r)
      BY <2>1, <2>2 DEF Warms, Backed, Timed, Idle, Calibrating
    <2>5. RollbackCalibration(c) = r
      BY <1>1 DEF RollbackCalibration, r
    <2>6. QED
      BY <2>1, <2>3, <2>4, <2>5 DEF Settles, Rests
  <1>2. CASE c.calibration # "saving"
    BY <1>2, SettlesItself DEF RollbackCalibration
  <1>3. QED
    BY <1>1, <1>2

LEMMA AdoptCalibrationSettles ==
  ASSUME NEW c, Sound(c), NEW offset \in Offsets, NEW ok \in BOOLEAN
  PROVE  Settles(c, AdoptCalibration(c, offset, ok))
  <1> DEFINE d == [c EXCEPT !.offset = offset]
             r == RestoreOrdinaryBrew(d, ok)
  <1>1. Steady(c, d) /\ Releases(c, d) /\ Sound(d)
    BY DEF Steady, Releases, OneDeadline, Faulted, Calibrating, Sound, Alone, Idle, IsController,
           ControllerFields
  <1>2. AdoptCalibration(c, offset, ok) \in {r, LatchFault(c, "internal_error")}
    BY DEF AdoptCalibration
  <1> HIDE DEF d
  <1>3. r.heat = FALSE /\ Steady(d, r) /\ Releases(d, r)
    BY <1>1, RestoreSettles
  <1> HIDE DEF r
  <1>4. QED
    BY <1>1, <1>2, <1>3, ColdRests, SteadyTransitive, ReleasesTransitive, InternalSettles DEF Sound

-----------------------------------------------------------------------------
(* update sets the heater anew, and so answers for it itself.                    *)
Times(c, r) ==
  /\ Backed(r) /\ Timed(r)
  /\ OneDeadline(c) => OneDeadline(r) /\ Kept(r)

LEMMA OffIsTimed ==
  ASSUME NEW c, NEW r, Steady(c, r), r.heat = FALSE, Faulted(r) \/ ~ReadingOk(r)
  PROVE  Times(c, r)
  BY DEF Times, Backed, Timed, Kept, Steady

LEMMA BadReadingTimes ==
  ASSUME NEW c, Sound(c), ~ReadingOk(c), NEW ok \in BOOLEAN
  PROVE  Times(c, BadReading(c, ok)) /\ Releases(c, BadReading(c, ok))
  <1> DEFINE streak == IF c.streak < FailureStreak THEN c.streak + 1 ELSE c.streak
             held == [c EXCEPT !.streak = streak, !.status = "heating", !.band = Off, !.heat = FALSE]
  <1>1. streak \in 0..FailureStreak
    BY LimitsAreNat DEF Sound, IsController
  <1>2. BadReading(c, ok) \in {held, LatchFault(held, "internal_error"), LatchFault(held, "sensor_failure")}
    BY DEF BadReading
  <1> HIDE DEF streak
  <1>3. IsController(held)
    BY <1>1, AgesAreClosed, LimitsAreNat DEF Sound, IsController, ControllerFields
  <1>4. Steady(c, held) /\ Releases(c, held) /\ held.heat = FALSE /\ ~ReadingOk(held)
    BY DEF Steady, Releases, OneDeadline, Faulted, Calibrating, ReadingOk, Sound, IsController,
           ControllerFields
  <1> HIDE DEF held
  <1>5. ASSUME NEW code \in {"internal_error", "sensor_failure"}
        PROVE  LET r == LatchFault(held, code) IN
                 Steady(c, r) /\ Releases(c, r) /\ r.heat = FALSE /\ Faulted(r)
    BY <1>3, <1>4, LatchSettles, SteadyTransitive, ReleasesTransitive DEF Settles, Rests, Faults
  <1>6. QED
    BY <1>2, <1>3, <1>4, <1>5, OffIsTimed

(* What the passes of a regulation leave alone.                                  *)
Same(c, r) ==
  /\ r.calibration = c.calibration /\ r.session = c.session /\ r.permit = c.permit
  /\ r.updating = c.updating /\ r.steamUpdating = c.steamUpdating /\ r.nextSteam = c.nextSteam
  /\ r.reading = c.reading /\ r.fault = c.fault
  /\ OneDeadline(c) => OneDeadline(r)

LEMMA PassedSame ==
  ASSUME NEW c, Sound(c)
  PROVE  Sound(Passed(c)) /\ Same(c, Passed(c))
  <1>1. \A d : Sound(d) => Same(d, ClearSoak(d))
    BY DEF ClearSoak, Same, OneDeadline, Sound, IsController, ControllerFields
  <1>2. \A d : Sound(d) => Same(d, LeaveSteam(d))
    BY DEF LeaveSteam, ReturnToBrew, Same, OneDeadline, Sound, IsController, ControllerFields
  <1>3. \A d : Sound(d) => Same(d, TrackReadiness(d))
    BY DEF TrackReadiness, Same, OneDeadline, Sound, IsController, ControllerFields
  <1>4. \A d, e, f : Same(d, e) /\ Same(e, f) => Same(d, f)
    BY DEF Same
  <1>5. Sound(ClearSoak(c)) /\ Sound(LeaveSteam(ClearSoak(c))) /\ Sound(Passed(c))
    BY ReadinessCarries DEF Passed
  <1>6. QED
    BY <1>1, <1>2, <1>3, <1>4, <1>5 DEF Passed

(* TrackDeadlines: the branch's deadline runs where heat is wanted, and it is    *)
(* the only one that runs.                                                       *)
LEMMA DeadlinesRun ==
  ASSUME NEW f, Sound(f)
  PROVE  LET g == TrackDeadlines(f) IN
         /\ Same(f, g)
         /\ g.permit /\ ~Calibrating(g) /\ DemandsHeat(g) =>
              Running(g.warmup) \/ Running(g.recovery) \/ g.status = "ready"
         /\ OneDeadline(g) /\ ~DeadlineMissed(g) =>
              g.warmup < HeatingTimeout /\ g.recovery < HeatingTimeout
  <1> DEFINE g == TrackDeadlines(f)
             again == Deadline(f.recovery, f)
             first == Deadline(f.warmup, f)
  <1>1. /\ g.calibration = f.calibration /\ g.session = f.session /\ g.permit = f.permit
        /\ g.updating = f.updating /\ g.steamUpdating = f.steamUpdating /\ g.nextSteam = f.nextSteam
        /\ g.reading = f.reading /\ g.fault = f.fault /\ g.status = f.status
        /\ DemandsHeat(g) = DemandsHeat(f)
    BY DEF TrackDeadlines, DemandsHeat, ControlTemperature, ControlTarget, ActiveTarget, Calibrating,
           Effective, Compensation, Sound, IsController, ControllerFields
  <1>2. /\ Calibrating(f) \/ ~f.permit => g.warmup = Off /\ g.recovery = Off /\ g.achieved = f.achieved
        /\ ~(Calibrating(f) \/ ~f.permit) /\ f.status = "ready" =>
             g.warmup = Off /\ g.recovery = Off /\ g.achieved = TRUE
        /\ ~(Calibrating(f) \/ ~f.permit) /\ f.status # "ready" /\ f.achieved =>
             g.warmup = f.warmup /\ g.recovery = again /\ g.achieved = f.achieved
        /\ ~(Calibrating(f) \/ ~f.permit) /\ f.status # "ready" /\ ~f.achieved =>
             g.warmup = first /\ g.recovery = f.recovery /\ g.achieved = f.achieved
    BY DEF TrackDeadlines, Sound, IsController, ControllerFields
  <1>3. DemandsHeat(f) => Running(again) /\ Running(first)
    BY DEF Deadline, Running, Off
  <1>4. /\ f.achieved \in BOOLEAN /\ -1 < HeatingTimeout /\ Off = -1
        /\ again \in Ages(HeatingTimeout) /\ first \in Ages(HeatingTimeout)
    BY AgesAreClosed, LimitsAreNat, TimingAssumption DEF Deadline, Off, Sound, IsController
  <1>5. Calibrating(g) = Calibrating(f)
    BY <1>1 DEF Calibrating
  <1>6. IsController(g)
    BY DeadlinesCarry DEF Sound
  <1> HIDE DEF g, again, first
  <1>7. Same(f, g)
    BY <1>1, <1>2, <1>4 DEF Same, OneDeadline
  <1>8. g.permit /\ ~Calibrating(g) /\ DemandsHeat(g) =>
          Running(g.warmup) \/ Running(g.recovery) \/ g.status = "ready"
    BY <1>1, <1>2, <1>3, <1>4, <1>5
  <1>9. ASSUME OneDeadline(g), ~DeadlineMissed(g)
        PROVE  g.warmup < HeatingTimeout /\ g.recovery < HeatingTimeout
    <2>1. CASE Calibrating(g) \/ ~g.permit \/ g.status = "ready"
      BY <1>1, <1>2, <1>4, <1>5, <2>1
    <2>2. CASE ~(Calibrating(g) \/ ~g.permit \/ g.status = "ready")
      <3>1. ~((IF g.achieved THEN g.recovery ELSE g.warmup) >= HeatingTimeout)
        BY <1>9, <2>2 DEF DeadlineMissed
      <3>2. g.warmup \in Ages(HeatingTimeout) /\ g.recovery \in Ages(HeatingTimeout)
        BY <1>6 DEF IsController
      <3>3. QED
        BY <1>4, <1>9, <3>1, <3>2, LimitsAreNat DEF OneDeadline, Ages
    <2>3. QED
      BY <2>1, <2>2
  <1>10. QED
    BY <1>7, <1>8, <1>9 DEF g

(* A session whose lease has run out is not updated further.                     *)
Leased(c) == Calibrating(c) => c.calibration = "saving" \/ c.session < SessionLease

LEMMA RegulateTimes ==
  ASSUME NEW c, Sound(c), Leased(c), NEW ok \in BOOLEAN, NEW pulse \in BOOLEAN
  PROVE  Times(c, Regulate(c, ok, pulse)) /\ Releases(c, Regulate(c, ok, pulse))
  <1> DEFINE f == Passed(c)
             g == TrackDeadlines(f)
             heat == MayHeat(g) /\ pulse
             r == [g EXCEPT !.heat = heat]
  <1>1. Regulate(c, ok, pulse) = IF DeadlineMissed(g) THEN LatchFault(g, "heating_timeout")
                                 ELSE UpdateHeater(g, ok, pulse)
    BY DEF Regulate, Passed
  <1>2. Sound(f) /\ Same(c, f)
    BY PassedSame
  <1> HIDE DEF f
  <1>3. /\ Same(f, g) /\ IsController(g)
        /\ g.permit /\ ~Calibrating(g) /\ DemandsHeat(g) =>
             Running(g.warmup) \/ Running(g.recovery) \/ g.status = "ready"
        /\ OneDeadline(g) /\ ~DeadlineMissed(g) =>
             g.warmup < HeatingTimeout /\ g.recovery < HeatingTimeout
    BY <1>2, DeadlinesRun, DeadlinesCarry DEF Sound
  <1> HIDE DEF g
  <1>4. UpdateHeater(g, ok, pulse) \in {r, LatchFault(g, "internal_error")}
    BY DEF UpdateHeater
  <1>5. heat \in BOOLEAN /\ (heat => g.permit /\ ~g.updating /\ ~g.steamUpdating)
    BY DEF MayHeat
  <1> HIDE DEF heat
  <1>6. Same(c, g) /\ Releases(c, g)
    BY <1>2, <1>3 DEF Same, Releases, Calibrating
  <1>7. ASSUME NEW code \in Faults
        PROVE  Times(c, LatchFault(g, code)) /\ Releases(c, LatchFault(g, code))
    <2> DEFINE h == LatchFault(g, code)
    <2>1. Settles(g, h) /\ Faulted(h) /\ h.heat = FALSE
      BY <1>3, LatchSettles
    <2> HIDE DEF h
    <2>2. QED
      BY <1>6, <2>1, ReleasesTransitive
         DEF Settles, Rests, Steady, Times, Backed, Timed, Kept, Same, h
  <1>8. Alike(g, r)
    BY <1>3 DEF Alike, DemandsHeat, ControlTemperature, ControlTarget, ActiveTarget, Calibrating, Effective,
           Compensation, IsController, ControllerFields
  <1>9. r.heat = heat /\ r.session = g.session
    BY <1>3 DEF IsController, ControllerFields
  <1> HIDE DEF r
  <1>10. Releases(c, r)
    BY <1>6, <1>8 DEF Releases, Calibrating, Alike
  <1>11. ~DeadlineMissed(g) => Times(c, r)
    <2>1. Backed(r)
      BY <1>5, <1>8, <1>9 DEF Backed, Idle, Alike
    <2>2. Timed(r)
      BY <1>3, <1>5, <1>6, <1>8, <1>9 DEF Timed, Same, Leased, Calibrating, Alike
    <2>3. ~DeadlineMissed(g) /\ OneDeadline(c) => OneDeadline(r) /\ Kept(r)
      BY <1>3, <1>6, <1>8 DEF Same, OneDeadline, Kept, Alike
    <2>4. QED
      BY <2>1, <2>2, <2>3 DEF Times
  <1>12. QED
    BY <1>1, <1>4, <1>7, <1>10, <1>11 DEF Faults

LEMMA JudgeTimes ==
  ASSUME NEW c, Sound(c), Leased(c), NEW ok \in BOOLEAN, NEW pulse \in BOOLEAN
  PROVE  Times(c, Judge(c, ok, pulse)) /\ Releases(c, Judge(c, ok, pulse))
  <1> DEFINE valid == [c EXCEPT !.streak = 0]
  <1>1. Sound(valid) /\ Leased(valid) /\ Steady(c, valid) /\ Releases(c, valid)
        /\ (OneDeadline(c) => OneDeadline(valid))
    BY LimitsAreNat DEF Steady, Releases, OneDeadline, Leased, Sound, Alone, Calibrating, Faulted, Idle,
                        IsController, ControllerFields
  <1>2. Judge(c, ok, pulse) \in {LatchFault(valid, "over_temperature"), Regulate(valid, ok, pulse)}
          \/ (~ReadingOk(c) /\ Judge(c, ok, pulse) = BadReading(c, ok))
    BY DEF Judge
  <1> HIDE DEF valid
  <1>3. Times(c, LatchFault(valid, "over_temperature")) /\ Releases(c, LatchFault(valid, "over_temperature"))
    <2> DEFINE h == LatchFault(valid, "over_temperature")
    <2>1. Settles(valid, h) /\ Faulted(h) /\ h.heat = FALSE
      BY <1>1, LatchSettles DEF Faults, Sound
    <2> HIDE DEF h
    <2>2. Steady(c, h) /\ Releases(c, h)
      BY <1>1, <2>1, SteadyTransitive, ReleasesTransitive DEF Settles, Rests
    <2>3. QED
      BY <2>1, <2>2, OffIsTimed DEF Sound, h
  <1>4. Times(c, Regulate(valid, ok, pulse)) /\ Releases(c, Regulate(valid, ok, pulse))
    <2>1. Times(valid, Regulate(valid, ok, pulse)) /\ Releases(valid, Regulate(valid, ok, pulse))
      BY <1>1, RegulateTimes
    <2>2. QED
      BY <1>1, <2>1, ReleasesTransitive DEF Times
  <1>5. QED
    BY <1>2, <1>3, <1>4, BadReadingTimes

LEMMA UpdateTimes ==
  ASSUME NEW c, Sound(c), NEW reading \in Raw \cup {Bad}, NEW lease \in BOOLEAN,
         NEW released \in BOOLEAN, NEW ok \in BOOLEAN, NEW pulse \in BOOLEAN
  PROVE  LET r == Update(c, reading, lease, released, ok, pulse) IN Times(c, r) /\ Releases(c, r)
  <1> DEFINE d == Expire(c, released)
             read == [d EXCEPT !.reading = reading]
             off == [read EXCEPT !.status = "fault", !.heat = FALSE]
             latched == LatchFault(read, "internal_error")
  <1>1. Sound(d) /\ Releases(c, d) /\ (OneDeadline(c) => OneDeadline(d))
    BY AbortCarries, AbortSettles DEF Carries, Settles, Rests, Steady
  <1>2. Leased(d)
    <2>1. c.session \in Ages(SessionLease) /\ SessionLease \in Nat
      BY LimitsAreNat DEF Sound, IsController
    <2>2. CASE SessionExpired(c)
      BY <2>2, RestoreCarries DEF Expire, Leased
    <2>3. CASE ~SessionExpired(c)
      BY <2>1, <2>3 DEF Expire, SessionExpired, Leased, Calibrating, Ages, Off, Sound, IsController
    <2>4. QED
      BY <2>2, <2>3
  <1>3. Update(c, reading, lease, released, ok, pulse)
          \in {latched, Judge(read, ok, pulse)}
          \/ (Faulted(read) /\ Update(c, reading, lease, released, ok, pulse) = off)
    BY DEF Update
  <1> HIDE DEF d
  <1>4. Sound(read) /\ Leased(read) /\ Releases(c, read) /\ (OneDeadline(c) => OneDeadline(read))
    BY <1>1, <1>2 DEF Releases, OneDeadline, Leased, Sound, Alone, Calibrating, Faulted, Idle,
                      IsController, ControllerFields
  <1> HIDE DEF read
  <1>5. Settles(read, latched) /\ Faulted(latched) /\ latched.heat = FALSE
    BY <1>4, InternalSettles DEF Sound
  <1> HIDE DEF latched
  <1>6. Times(read, latched) /\ Releases(read, latched)
    BY <1>4, <1>5, OffIsTimed DEF Settles, Rests, Sound
  <1>7. Faulted(read) => Times(read, off) /\ Releases(read, off)
    <2>1. /\ Steady(read, off) /\ Releases(read, off) /\ off.heat = FALSE
          /\ (Faulted(read) => Faulted(off))
      BY <1>4 DEF Steady, Releases, OneDeadline, Faulted, Calibrating, Sound, IsController, ControllerFields
    <2>2. QED
      BY <1>4, <2>1, OffIsTimed DEF Sound
  <1> HIDE DEF off
  <1>8. Times(read, Judge(read, ok, pulse)) /\ Releases(read, Judge(read, ok, pulse))
    BY <1>4, JudgeTimes
  <1>9. ASSUME NEW r, Times(read, r), Releases(read, r)
        PROVE  Times(c, r) /\ Releases(c, r)
    BY <1>4, <1>9, ReleasesTransitive DEF Times
  <1>10. QED
    BY <1>3, <1>6, <1>7, <1>8, <1>9

LEMMA DismissTimes ==
  ASSUME NEW c, Sound(c), NEW lease \in BOOLEAN, NEW ok \in BOOLEAN, NEW pulse \in BOOLEAN
  PROVE  LET r == Dismiss(c, lease, ok, pulse) IN
           Releases(c, r) /\ (Rests(c, r) \/ Times(c, r))
  <1>1. CASE Dismissable(c)
    <2> DEFINE d == Cleared(c)
               r == Update(d, c.reading, lease, TRUE, ok, pulse)
    <2>1. ~Calibrating(c)
      BY <1>1 DEF Dismissable, Sound, Alone, Faulted
    <2>2. Sound(d) /\ Releases(c, d) /\ OneDeadline(d)
      BY <2>1, AgesAreClosed, LimitsAreNat
         DEF Cleared, Releases, OneDeadline, Sound, Alone, Calibrating, Faulted, Idle, IsController,
             ControllerFields
    <2>3. c.reading \in Raw \cup {Bad}
      BY DEF Sound, IsController
    <2>4. Dismiss(c, lease, ok, pulse) = r
      BY <1>1 DEF Dismiss
    <2> HIDE DEF d
    <2>5. Times(d, r) /\ Releases(d, r)
      BY <2>2, <2>3, UpdateTimes
    <2> HIDE DEF r
    <2>6. QED
      BY <2>2, <2>4, <2>5, ReleasesTransitive DEF Times
  <1>2. CASE ~Dismissable(c)
    BY <1>2, SettlesItself DEF Dismiss, Settles
  <1>3. QED
    BY <1>1, <1>2

(* Time passes: no deadline is set by it, and nothing is said of heating until   *)
(* the loop has had its turn.                                                    *)
LEMMA AgeWaits ==
  ASSUME NEW c, Sound(c)
  PROVE  /\ Backed(c) => Backed(Age(c))
         /\ OneDeadline(c) => OneDeadline(Age(c))
         /\ Releases(c, Age(c))
  BY AgesAreClosed
     DEF Age, Backed, Idle, OneDeadline, Releases, Calibrating, Sound, IsController, ControllerFields

-----------------------------------------------------------------------------
(* The cooldown's methods.                                                       *)
LEMMA CoolingSettles ==
  ASSUME NEW c, Sound(c), NEW cooling
  PROVE  Settles(c, [c EXCEPT !.cooling = cooling])
  <1> DEFINE r == [c EXCEPT !.cooling = cooling]
  <1>1. r.heat = c.heat /\ r.session = c.session
    BY DEF Sound, IsController, ControllerFields
  <1>2. Alike(c, r)
    BY DEF Alike, DemandsHeat, ControlTemperature, ControlTarget, ActiveTarget, Calibrating, Effective,
           Compensation, Sound, IsController, ControllerFields
  <1> HIDE DEF r
  <1>3. QED
    BY <1>1, <1>2, AlikeSettles DEF r

LEMMA EndInhibitSettles ==
  ASSUME NEW c, Sound(c), NEW ok \in BOOLEAN
  PROVE  Settles(c, EndCooldownInhibit(c, ok))
  <1> DEFINE d == ForceOff(c, ok)
  <1>1. Settles(c, d) /\ Sound(d)
    BY ForceOffSettles, ForceOffCarries DEF Sound, Carries
  <1>2. EndCooldownInhibit(c, ok) = [d EXCEPT !.cooling = FALSE]
    BY DEF EndCooldownInhibit
  <1> HIDE DEF d
  <1>3. QED
    BY <1>1, <1>2, CoolingSettles, SettlesTransitive

LEMMA BeginInhibitSettles ==
  ASSUME NEW c, Sound(c), ~Calibrating(c), NEW ok \in BOOLEAN
  PROVE  Settles(c, BeginCooldownInhibit(c, ok))
  <1> DEFINE d == SetMode(c, "brew", ok)
             inhibiting == [d EXCEPT !.cooling = TRUE]
  <1>1. Settles(c, d) /\ Sound(d) /\ ~Calibrating(d)
    BY SetModeSettles, SetModeCarries DEF Carries, Modes
  <1>2. BeginCooldownInhibit(c, ok) \in {ForceOff(inhibiting, ok), inhibiting}
    BY DEF BeginCooldownInhibit, Abort
  <1> HIDE DEF d
  <1>3. Settles(d, inhibiting) /\ IsController(inhibiting)
    BY <1>1, CoolingSettles DEF Sound, IsController, ControllerFields
  <1> HIDE DEF inhibiting
  <1>4. Settles(inhibiting, ForceOff(inhibiting, ok))
    BY <1>3, ForceOffSettles
  <1>5. QED
    BY <1>1, <1>2, <1>3, <1>4, SettlesTransitive

(* Each of them makes of the controller what the temperature controller's own    *)
(* methods make of it, one after the other.                                      *)
LEMMA FailSettles ==
  ASSUME NEW m, IsSoundMachine(m), NEW code \in Faults, NEW pumped \in BOOLEAN, NEW heated \in BOOLEAN
  PROVE  LET r == Fail(m, code, pumped, heated) IN Settles(m.ctl, r.ctl) /\ Faulted(r.ctl)
  <1> DEFINE c == LatchFault(m.ctl, code)
             d == EndCooldownInhibit(c, heated)
  <1>1. Settles(m.ctl, c) /\ Faulted(c)
    BY LatchSettles DEF IsSoundMachine, Sound
  <1>2. Sound(c)
    BY AgesAreClosed, LimitsAreNat
       DEF LatchFault, IsSoundMachine, Sound, Alone, Calibrating, IsController, ControllerFields, Modes
  <1>3. Fail(m, code, pumped, heated).ctl = d
    BY DEF Fail, IsSoundMachine
  <1> HIDE DEF c
  <1>4. Settles(c, d)
    BY <1>2, EndInhibitSettles
  <1> HIDE DEF d
  <1>5. Faulted(d)
    BY <1>1, <1>4 DEF Settles, Rests, Steady
  <1>6. QED
    BY <1>1, <1>3, <1>4, <1>5, SettlesTransitive

LEMMA CompleteSettles ==
  ASSUME NEW m, IsSoundMachine(m), NEW pumped \in BOOLEAN, NEW heated \in BOOLEAN
  PROVE  Settles(m.ctl, Complete(m, pumped, heated).ctl)
  <1> DEFINE d == EndCooldownInhibit(m.ctl, heated)
             c == LatchFault(d, "internal_error")
  <1>1. Settles(m.ctl, d) /\ Sound(d)
    BY EndInhibitSettles, EndInhibitCarries DEF IsSoundMachine
  <1>2. Complete(m, pumped, heated).ctl \in {d, c}
    BY DEF Complete, IsSoundMachine
  <1> HIDE DEF d
  <1>3. Settles(d, c)
    BY <1>1, InternalSettles DEF Sound
  <1> HIDE DEF c
  <1>4. QED
    BY <1>1, <1>2, <1>3, SettlesTransitive

LEMMA EnterSettles ==
  ASSUME NEW m, IsSoundMachine(m), NEW outcome \in Outcomes, NEW settle \in 0..Stabilization,
         NEW pumped \in BOOLEAN, NEW heated \in BOOLEAN
  PROVE  Settles(m.ctl, EnterStabilization(m, outcome, settle, pumped, heated).ctl)
  <1> DEFINE c == ForceOff(m.ctl, heated)
             q == PumpOff(m, pumped)
             quiet == [m EXCEPT !.ctl = c, !.pump = q]
             settling == [quiet EXCEPT !.cool.status = "stabilizing", !.cool.outcome = outcome,
                                       !.cool.settle = settle]
  <1>1. Settles(m.ctl, c) /\ Sound(c) /\ IsPump(q)
    BY ForceOffSettles, ForceOffCarries, PumpOffIsPump DEF IsSoundMachine, Carries, Sound
  <1>2. EnterStabilization(m, outcome, settle, pumped, heated)
          \in {Fail(quiet, "internal_error", pumped, heated), Complete(settling, pumped, heated), settling}
    BY DEF EnterStabilization, IsSoundMachine
  <1> HIDE DEF c, q
  <1>3. IsSoundMachine(quiet) /\ quiet.ctl = c
    BY <1>1 DEF IsSoundMachine
  <1>4. IsSoundMachine(settling) /\ settling.ctl = c
    BY <1>1 DEF IsSoundMachine, IsCooldown, CooldownFields, Outcomes
  <1> HIDE DEF quiet, settling
  <1>5. /\ Settles(c, Fail(quiet, "internal_error", pumped, heated).ctl)
        /\ Settles(c, Complete(settling, pumped, heated).ctl)
        /\ Settles(c, settling.ctl)
    BY <1>3, <1>4, FailSettles, CompleteSettles, SettlesItself DEF Faults
  <1>6. QED
    BY <1>1, <1>2, <1>5, SettlesTransitive

LEMMA AdvanceSettles ==
  ASSUME NEW m, IsSoundMachine(m), NEW sampled, NEW sample, NEW expired,
         NEW pumped \in BOOLEAN, NEW heated \in BOOLEAN
  PROVE  Settles(m.ctl, Advance(m, sampled, sample, expired, pumped, heated).ctl)
  <1> DEFINE c == ForceOff(m.ctl, TRUE)
             off == [m EXCEPT !.ctl = c]
             still == [off EXCEPT !.pump = IF @.running THEN StoppedPump ELSE @]
             reached == EnterStabilization(off, "target_reached", 0, pumped, heated)
             cut == EnterStabilization(off, "cutoff", m.cool.age - PumpLimit, pumped, heated)
             failed == Fail(off, "internal_error", pumped, heated)
             ended == Complete(off, pumped, heated)
  <1>1. Settles(m.ctl, c) /\ Sound(c)
    BY ForceOffSettles, ForceOffCarries DEF IsSoundMachine, Carries, Sound
  <1>2. \/ ~sampled /\ Advance(m, sampled, sample, expired, pumped, heated)
                         = Fail(m, "sensor_failure", pumped, heated)
        \/ Faulted(m.ctl) /\ Advance(m, sampled, sample, expired, pumped, heated)
                               = Fail(m, m.ctl.fault, pumped, heated)
        \/ Advance(m, sampled, sample, expired, pumped, heated)
              \in {Fail(m, "internal_error", pumped, heated), failed, reached, off, ended, still}
        \/ LimitReached(m) /\ Advance(m, sampled, sample, expired, pumped, heated) = cut
    BY DEF Advance, IsSoundMachine
  <1>3. m.ctl.fault \in Faults \cup {"none"}
    BY DEF IsSoundMachine, Sound, IsController
  <1> HIDE DEF c
  <1>4. IsSoundMachine(off) /\ off.ctl = c /\ still.ctl = c
    BY <1>1 DEF IsSoundMachine
  <1> HIDE DEF off, still
  <1>5. LimitReached(m) => m.cool.age - PumpLimit \in 0..Stabilization
    BY CooldownAssumption DEF LimitReached, LongestCooldown, IsSoundMachine, IsCooldown
  <1>6. 0 \in 0..Stabilization
    BY CooldownAssumption
  <1>7. /\ Settles(c, reached.ctl) /\ (LimitReached(m) => Settles(c, cut.ctl))
        /\ Settles(c, failed.ctl) /\ Settles(c, ended.ctl) /\ Settles(c, off.ctl) /\ Settles(c, still.ctl)
    BY <1>4, <1>5, <1>6, EnterSettles, FailSettles, CompleteSettles, SettlesItself DEF Faults, Outcomes
  <1>8. /\ Settles(m.ctl, Fail(m, "sensor_failure", pumped, heated).ctl)
        /\ Settles(m.ctl, Fail(m, "internal_error", pumped, heated).ctl)
        /\ Faulted(m.ctl) => Settles(m.ctl, Fail(m, m.ctl.fault, pumped, heated).ctl)
    BY <1>3, FailSettles DEF Faults, Faulted
  <1> HIDE DEF reached, cut, failed, ended
  <1>9. QED
    BY <1>1, <1>2, <1>7, <1>8, SettlesTransitive

LEMMA StopSettles ==
  ASSUME NEW m, IsSoundMachine(m), NEW wrapped \in BOOLEAN, NEW pumped \in BOOLEAN, NEW heated \in BOOLEAN
  PROVE  Settles(m.ctl, Stop(m, wrapped, pumped, heated).ctl)
  <1>1. Settles(m.ctl, EnterStabilization(m, "stopped", 0, pumped, heated).ctl)
    <2>1. 0 \in 0..Stabilization
      BY CooldownAssumption
    <2>2. QED
      BY <2>1, EnterSettles DEF Outcomes
  <1>2. Settles(m.ctl, Advance(m, TRUE, m.cool.target + 1, wrapped \/ m.cool.settle >= Stabilization,
                               pumped, heated).ctl)
    BY AdvanceSettles
  <1>3. m.cool.status \in {"idle", "pumping", "stabilizing"}
    BY DEF IsSoundMachine, IsCooldown
  <1>4. CASE m.cool.status = "idle"
    BY <1>4, SettlesItself DEF Stop
  <1>5. CASE m.cool.status = "pumping"
    BY <1>1, <1>5 DEF Stop
  <1>6. CASE m.cool.status = "stabilizing"
    BY <1>2, <1>6 DEF Stop
  <1>7. QED
    BY <1>3, <1>4, <1>5, <1>6

LEMMA ConsumeSettles ==
  ASSUME NEW m, IsSoundMachine(m), NEW pumped \in BOOLEAN, NEW heated \in BOOLEAN
  PROVE  LET r == Consume(m, pumped, heated) IN Settles(m.ctl, r.ctl) /\ Faulted(r.ctl)
  <1> DEFINE c == LatchFault(m.ctl, "internal_error")
             q == PumpOff(m, pumped)
             latched == [m EXCEPT !.ctl = c, !.pump = q]
             r == Consume(m, pumped, heated)
  <1>1. Settles(m.ctl, c) /\ Faulted(c) /\ Sound(c) /\ IsPump(q)
    BY InternalSettles, InternalCarries, PumpOffIsPump DEF IsSoundMachine, Carries, Sound
  <1>2. r \in {latched, UpdateCooldown(latched, pumped, heated)}
    BY DEF Consume, IsSoundMachine
  <1> HIDE DEF c, q, r
  <1>3. IsSoundMachine(latched) /\ latched.ctl = c
    BY <1>1 DEF IsSoundMachine
  <1> HIDE DEF latched
  <1>4. Settles(c, latched.ctl) /\ Settles(c, UpdateCooldown(latched, pumped, heated).ctl)
    BY <1>3, AdvanceSettles, SettlesItself DEF UpdateCooldown
  <1>5. Settles(c, r.ctl)
    BY <1>2, <1>4
  <1>6. Settles(m.ctl, r.ctl) /\ Faulted(r.ctl)
    BY <1>1, <1>5, SettlesTransitive DEF Settles, Rests, Steady
  <1>7. QED
    BY <1>6 DEF r

LEMMA StartSettles ==
  ASSUME NEW m, IsSoundMachine(m), ~Calibrating(m.ctl), NEW key \in Keys, NEW started \in BOOLEAN,
         NEW pumped \in BOOLEAN, NEW heated \in BOOLEAN
  PROVE  Settles(m.ctl, Start(m, key, started, pumped, heated).ctl)
  <1> DEFINE c == BeginCooldownInhibit(m.ctl, heated)
             begun == [NoCooldown EXCEPT !.status = "pumping", !.target = m.ctl.targets.brew, !.key = key]
             inhibiting == [m EXCEPT !.ctl = c, !.cool = begun]
             pumping == [inhibiting EXCEPT !.pump = RunningPump]
  <1>1. Settles(m.ctl, c) /\ Sound(c)
    BY BeginInhibitSettles, BeginInhibitCarries DEF IsSoundMachine, Carries
  <1>2. IsCooldown(begun)
    BY CooldownAssumption
       DEF NoCooldown, IsCooldown, CooldownFields, LongestCooldown, IsSoundMachine, Sound, IsController
  <1>3. Start(m, key, started, pumped, heated)
          \in {pumping, Fail(inhibiting, "internal_error", pumped, heated)}
    BY DEF Start, IsSoundMachine
  <1> HIDE DEF c, begun
  <1>4. IsSoundMachine(inhibiting) /\ inhibiting.ctl = c /\ pumping.ctl = c
    BY <1>1, <1>2 DEF IsSoundMachine
  <1> HIDE DEF inhibiting, pumping
  <1>5. Settles(c, pumping.ctl) /\ Settles(c, Fail(inhibiting, "internal_error", pumped, heated).ctl)
    BY <1>4, FailSettles, SettlesItself DEF Faults
  <1>6. QED
    BY <1>1, <1>3, <1>5, SettlesTransitive

-----------------------------------------------------------------------------
(* What holds of the whole state, and what a step has to show.                   *)
TimeInv ==
  /\ Backed(ctl) /\ (~due => Timed(ctl))
  /\ OneDeadline(ctl) /\ (~due /\ ~failSafe => Kept(ctl))

LEMMA RestSteps ==
  ASSUME TimeInv, Rests(ctl, ctl'), due' = due, failSafe => failSafe' \/ Faulted(ctl')
  PROVE  TimeInv'
  <1>1. Off < HeatingTimeout
    BY TimingAssumption DEF Off
  <1>2. ~due' /\ ~failSafe' => Kept(ctl')
    BY <1>1 DEF TimeInv, Rests, Steady, Kept, ReadingOk
  <1>3. QED
    BY <1>2 DEF TimeInv, Rests, Warms, Steady

LEMMA TimedSteps ==
  ASSUME TimeInv, Times(ctl, ctl')
  PROVE  TimeInv'
  BY DEF TimeInv, Times

LEMMA SettleSteps ==
  ASSUME TimeInv, Settles(ctl, ctl'), due' = due, failSafe => failSafe' \/ Faulted(ctl')
  PROVE  TimeInv' /\ Releases(ctl, ctl')
  BY RestSteps DEF Settles

(* The turns of the two control tasks: who takes the flag leaves a fault.        *)
LEMMA TemperatureTimes ==
  ASSUME Whole, TimeInv, TemperatureUpdate
  PROVE  TimeInv' /\ Releases(ctl, ctl')
  <1>1. PICK reading \in Readings, released, ok, pulse, pumped, heated \in BOOLEAN :
          LET m == IF failSafe THEN Consume(M, pumped, heated) ELSE M IN
          /\ released \/ SessionExpired(ctl)
          /\ failSafe \/ (pumped /\ heated)
          /\ Become([m EXCEPT !.ctl = Update(@, reading, tripped, released, ok, pulse)])
    BY Zenon DEF TemperatureUpdate
  <1> DEFINE m == IF failSafe THEN Consume(M, pumped, heated) ELSE M
             c == Update(m.ctl, reading, tripped, released, ok, pulse)
  <1>2. IsSoundMachine(m) /\ Settles(ctl, m.ctl)
    BY WholeParts, ConsumeCarries, ConsumeSettles, SettlesItself DEF CarriesAll
  <1>3. Become([m EXCEPT !.ctl = c])
    BY <1>1
  <1> HIDE DEF m
  <1>4. Times(m.ctl, c) /\ Releases(m.ctl, c)
    BY <1>2, WorldsAreTyped, UpdateTimes DEF IsSoundMachine
  <1> HIDE DEF c
  <1>5. ctl' = c
    BY <1>2, <1>3 DEF Become, IsSoundMachine
  <1>6. Times(ctl, ctl') /\ Releases(ctl, ctl')
    BY <1>2, <1>4, <1>5, ReleasesTransitive DEF Times, Settles, Rests, Steady
  <1>7. QED
    BY <1>6, TimedSteps

LEMMA WorkflowTimes ==
  ASSUME Whole, TimeInv, WorkflowUpdate
  PROVE  TimeInv' /\ Releases(ctl, ctl')
  <1>1. due' = due
    BY DEF WorkflowUpdate, WorkflowTurn
  <1>2. CASE failSafe \/ Active(M)
    <2>1. PICK pumped \in BOOLEAN, heated \in BOOLEAN :
            LET m == IF failSafe THEN Consume(M, pumped, heated) ELSE UpdateCooldown(M, pumped, heated)
            IN Become([m EXCEPT !.ctl = SetExtractionPhase(m.ctl, "idle")])
      BY <1>2 DEF WorkflowUpdate, WorkflowTurn
    <2> DEFINE m == IF failSafe THEN Consume(M, pumped, heated) ELSE UpdateCooldown(M, pumped, heated)
               c == SetExtractionPhase(m.ctl, "idle")
    <2>2. IsSoundMachine(m)
      BY WholeParts, ConsumeCarries, AdvanceCarries DEF UpdateCooldown, CarriesAll
    <2>3. Settles(ctl, m.ctl) /\ (failSafe => Faulted(m.ctl))
      BY WholeParts, ConsumeSettles, AdvanceSettles DEF UpdateCooldown
    <2>4. Become([m EXCEPT !.ctl = c])
      BY <2>1
    <2> HIDE DEF m
    <2>5. Settles(m.ctl, c)
      BY <2>2, PhaseSettles DEF IsSoundMachine, Sound
    <2> HIDE DEF c
    <2>6. ctl' = c
      BY <2>2, <2>4 DEF Become, IsSoundMachine
    <2>7. Settles(ctl, ctl') /\ (failSafe => Faulted(ctl'))
      BY <2>3, <2>5, <2>6, SettlesTransitive DEF Settles, Rests, Steady
    <2>8. QED
      BY <1>1, <2>7, SettleSteps
  <1>3. CASE ~(failSafe \/ Active(M))
    <2>1. (\E phase \in Phases : AdvanceShot(phase)) \/ FailShot
      BY <1>3 DEF WorkflowUpdate, WorkflowTurn
    <2>2. CASE \E phase \in Phases : AdvanceShot(phase)
      BY <1>1, <1>3, <2>2, WholeParts, PhaseSettles, SettleSteps DEF AdvanceShot, Sound
    <2>3. CASE FailShot
      <3> DEFINE c == SetExtractionPhase(ctl, "idle")
      <3>1. Settles(ctl, c) /\ IsController(c)
        BY WholeParts, PhaseSettles, SmallCarries DEF Phases, Carries, Sound
      <3>2. ctl' = LatchFault(c, "internal_error")
        BY <2>3 DEF FailShot
      <3> HIDE DEF c
      <3>3. Settles(ctl, ctl')
        BY <3>1, <3>2, InternalSettles, SettlesTransitive
      <3>4. QED
        BY <1>1, <1>3, <3>3, SettleSteps
    <2>4. QED
      BY <2>1, <2>2, <2>3
  <1>4. QED
    BY <1>2, <1>3

LEMMA EmergencyTimes ==
  ASSUME Whole, TimeInv, Emergency, due' \in {due, FALSE}
  PROVE  TimeInv' /\ Releases(ctl, ctl')
  <1>1. Settles(ctl, ctl') /\ ctl'.heat = FALSE /\ failSafe' = TRUE
    BY WholeParts, HeatOffSettles DEF Emergency, Sound, IsController, ControllerFields
  <1>2. QED
    BY <1>1 DEF TimeInv, Settles, Rests, Warms, Steady, Timed

(* The requests.                                                                 *)
LEMMA AbortOrSettles ==
  ASSUME Whole, NEW ok \in BOOLEAN, NEW next, ~Calibrating(ctl) => Settles(ctl, next), AbortOr(ok, next)
  PROVE  Settles(ctl, ctl')
  BY WholeParts, AbortSettles DEF AbortOr

LEMMA OrdinaryTimes ==
  ASSUME Whole, TimeInv,
         \/ (\E mode \in Modes : RequestMode(mode)) \/ (\E enabled \in BOOLEAN : RequestHeater(enabled))
         \/ (\E phase \in FirstPhases : RequestStartShot(phase)) \/ RequestStopShot
         \/ (\E targets \in TargetPairs, steam \in world.steam : RequestSettings(targets, steam))
  PROVE  TimeInv' /\ Releases(ctl, ctl')
  <1>1. Sound(ctl) /\ Settles(ctl, ctl) /\ Settles(ctl, LatchFault(ctl, "internal_error"))
    BY WholeParts, SettlesItself, InternalSettles DEF Sound
  <1>2. due' = due /\ failSafe' = failSafe
    BY DEF RequestMode, RequestHeater, RequestStartShot, RequestStopShot, RequestSettings, Request,
           InsideTheMutex
  <1>3. Settles(ctl, ctl')
    <2>1. CASE \E mode \in Modes : RequestMode(mode)
      <3>1. \E mode \in Modes, ok \in BOOLEAN : AbortOr(ok, ctl) \/ AbortOr(ok, SetMode(ctl, mode, ok))
        BY <2>1 DEF RequestMode
      <3>2. QED
        BY <1>1, <3>1, SetModeSettles, AbortOrSettles
    <2>2. CASE \E enabled \in BOOLEAN : RequestHeater(enabled)
      BY <1>1, <2>2, WorldsAreTyped, SetHeaterSettles, AbortOrSettles DEF RequestHeater
    <2>3. CASE \E phase \in FirstPhases : RequestStartShot(phase)
      <3>1. \/ \E ok \in BOOLEAN : AbortOr(ok, ctl)
            \/ ctl' = ctl \/ ctl' = LatchFault(ctl, "internal_error")
        BY <2>3 DEF RequestStartShot
      <3>2. QED
        BY <1>1, <3>1, AbortOrSettles
    <2>4. CASE RequestStopShot
      BY <1>1, <2>4 DEF RequestStopShot
    <2>5. CASE \E targets \in TargetPairs, steam \in world.steam : RequestSettings(targets, steam)
      BY <1>1, <2>5, AbortOrSettles DEF RequestSettings
    <2>6. QED
      BY <2>1, <2>2, <2>3, <2>4, <2>5
  <1>4. QED
    BY <1>2, <1>3, SettleSteps

LEMMA DismissStep ==
  ASSUME Whole, TimeInv, RequestDismiss
  PROVE  TimeInv' /\ Releases(ctl, ctl')
  <1>1. due' = due /\ failSafe' = failSafe
    BY DEF RequestDismiss, Request
  <1>2. PICK ok \in BOOLEAN, pulse \in BOOLEAN : ctl' = Dismiss(ctl, tripped, ok /\ ~inhibited, pulse)
    BY DEF RequestDismiss
  <1> DEFINE works == ok /\ ~inhibited
  <1>3. works \in BOOLEAN /\ ctl' = Dismiss(ctl, tripped, works, pulse)
    BY <1>2
  <1> HIDE DEF works
  <1>4. Releases(ctl, ctl') /\ (Rests(ctl, ctl') \/ Times(ctl, ctl'))
    BY <1>3, WholeParts, WorldsAreTyped, DismissTimes
  <1>5. QED
    BY <1>1, <1>4, RestSteps, TimedSteps

LEMMA SessionTimes ==
  ASSUME Whole, TimeInv,
         \/ Poll \/ RequestRenew \/ RequestCancel
         \/ (\E candidate \in Candidates : RequestCandidate(candidate))
  PROVE  TimeInv' /\ Releases(ctl, ctl')
  <1>1. due' = due /\ failSafe' = failSafe
    BY DEF Poll, RequestRenew, RequestCancel, RequestCandidate, Request
  <1>2. PICK ok \in BOOLEAN :
          LET c == Expire(ctl, ok) IN
          \/ ctl' \in {c, Renew(c), RestoreOrdinaryBrew(c, ok)}
          \/ \E candidate \in Candidates : ctl' = SetCandidate(c, candidate, ok)
    BY DEF Poll, RequestRenew, RequestCancel, RequestCandidate
  <1> DEFINE c == Expire(ctl, ok)
  <1>3. Settles(ctl, c) /\ Sound(c)
    BY WholeParts, AbortCarries, AbortSettles DEF Carries
  <1>4. \/ ctl' \in {c, Renew(c), RestoreOrdinaryBrew(c, ok)}
        \/ \E candidate \in Candidates : ctl' = SetCandidate(c, candidate, ok)
    BY <1>2
  <1> HIDE DEF c
  <1>5. Settles(c, ctl')
    BY <1>3, <1>4, SettlesItself, RenewSettles, RestoreSettles, CandidateSettles
  <1>6. QED
    BY <1>1, <1>3, <1>5, SettlesTransitive, SettleSteps

(* The three steps that take up something new rest, and no more.                 *)
LEMMA BeginningTimes ==
  ASSUME Whole, TimeInv, RequestStartCalibration \/ RequestSaveCalibration \/ PrepareRequest
  PROVE  TimeInv'
  <1>1. due' = due /\ failSafe' = failSafe
    BY DEF RequestStartCalibration, RequestSaveCalibration, PrepareRequest, Request, InsideTheMutex
  <1>2. CASE RequestStartCalibration \/ RequestSaveCalibration
    <2>1. PICK ok, saves \in BOOLEAN :
            LET c == Expire(ctl, ok) IN
            ctl' \in {c, StartCalibration(c, ok), PrepareCalibrationSave(c, saves), Renew(c)}
      BY <1>2 DEF RequestStartCalibration, RequestSaveCalibration
    <2> DEFINE c == Expire(ctl, ok)
    <2>2. Rests(ctl, c) /\ Sound(c)
      BY WholeParts, AbortCarries, AbortSettles DEF Carries, Settles
    <2>3. ctl' \in {c, StartCalibration(c, ok), PrepareCalibrationSave(c, saves), Renew(c)}
      BY <2>1
    <2> HIDE DEF c
    <2>4. Rests(c, ctl')
      BY <2>2, <2>3, SettlesItself, StartCalibrationRests, SaveRests, RenewSettles DEF Settles
    <2>5. QED
      BY <1>1, <2>2, <2>4, RestsTransitive, RestSteps
  <1>3. CASE PrepareRequest
    <2>1. req.targets \in TargetPairs /\ req.steam \in SteamSettings /\ Sound(ctl)
      BY WholeParts DEF Whole, TypeOK, IsStored
    <2>2. \/ ctl' = ctl
          \/ ~Calibrating(ctl) /\ \E ok \in BOOLEAN : ctl' = PrepareSettings(ctl, req.targets, req.steam, ok)
      BY <1>3 DEF PrepareRequest, CanPrepareSettings
    <2>3. Rests(ctl, ctl')
      BY <2>1, <2>2, PrepareRests, SettlesItself DEF Settles
    <2>4. QED
      BY <1>1, <2>3, RestSteps
  <1>4. QED
    BY <1>2, <1>3

LEMMA CooldownTimes ==
  ASSUME Whole, TimeInv, (\E key \in Keys : RequestStartCooldown(key)) \/ StopCooldown
  PROVE  TimeInv' /\ Releases(ctl, ctl')
  <1>1. due' = due /\ failSafe' = failSafe
    BY DEF RequestStartCooldown, StopCooldown, Request
  <1>2. CASE \E key \in Keys : RequestStartCooldown(key)
    <2>1. PICK key \in Keys : RequestStartCooldown(key)
      BY <1>2
    <2>2. CASE ~Calibrating(ctl) /\ CanStart(M, key, shot # "idle")
      <3>1. PICK started \in BOOLEAN, pumped \in BOOLEAN, heated \in BOOLEAN :
              Become(Start(M, key, started /\ ~inhibited, pumped, heated))
        BY <2>1, <2>2 DEF RequestStartCooldown
      <3> DEFINE begins == started /\ ~inhibited
      <3>2. begins \in BOOLEAN /\ ctl' = Start(M, key, begins, pumped, heated).ctl
        BY <3>1 DEF Become
      <3> HIDE DEF begins
      <3>3. Settles(ctl, ctl')
        BY <2>2, <3>2, WholeParts, StartSettles
      <3>4. QED
        BY <1>1, <3>3, SettleSteps
    <2>3. CASE ~(~Calibrating(ctl) /\ CanStart(M, key, shot # "idle"))
      <3>1. \E ok \in BOOLEAN : AbortOr(ok, ctl)
        BY <2>1, <2>3 DEF RequestStartCooldown
      <3>2. Settles(ctl, ctl')
        BY <3>1, SettlesItself, AbortOrSettles
      <3>3. QED
        BY <1>1, <3>2, SettleSteps
    <2>4. QED
      BY <2>2, <2>3
  <1>3. CASE StopCooldown
    <2>1. PICK wrapped \in BOOLEAN, pumped \in BOOLEAN, heated \in BOOLEAN :
            Become(Stop(M, wrapped, pumped, heated))
      BY <1>3, Zenon DEF StopCooldown
    <2>2. Settles(ctl, ctl')
      BY <2>1, WholeParts, StopSettles DEF Become
    <2>3. QED
      BY <1>1, <2>2, SettleSteps
  <1>4. QED
    BY <1>2, <1>3

LEMMA TransactionTimes ==
  ASSUME Whole, TimeInv,
         \/ RequestStop \/ SaveTargets \/ SaveSteam \/ RestoreTargets \/ RollbackRequest \/ AdoptRequest
         \/ SaveCalibration \/ RollbackCalibrationRequest \/ AdoptCalibrationRequest \/ Trip
  PROVE  TimeInv' /\ Releases(ctl, ctl')
  <1>1. Sound(ctl) /\ Settles(ctl, ctl) /\ IsStored(req)
    BY WholeParts, SettlesItself DEF Whole, TypeOK
  <1>2. due' = due /\ failSafe' = failSafe
    BY DEF RequestStop, SaveTargets, SaveSteam, RestoreTargets, RollbackRequest, SaveCalibration,
           RollbackCalibrationRequest, Trip, AdoptRequest, AdoptCalibrationRequest, InsideTheMutex,
           OutsideTheMutex
  <1>3. Settles(ctl, ctl')
    <2>1. CASE RollbackRequest
      BY <1>1, <2>1, RollbackSettles DEF RollbackRequest
    <2>2. CASE RollbackCalibrationRequest
      BY <1>1, <2>2, RollbackCalibrationSettles DEF RollbackCalibrationRequest
    <2>3. CASE AdoptRequest
      BY <1>1, <2>3, AdoptSettles DEF AdoptRequest, IsStored
    <2>4. CASE AdoptCalibrationRequest
      BY <1>1, <2>4, AdoptCalibrationSettles DEF AdoptCalibrationRequest, IsStored
    <2>5. CASE RequestStop \/ SaveTargets \/ SaveSteam \/ RestoreTargets \/ SaveCalibration \/ Trip
      BY <1>1, <2>5 DEF RequestStop, SaveTargets, SaveSteam, RestoreTargets, SaveCalibration, Trip,
                        OutsideTheMutex
    <2>6. QED
      BY <2>1, <2>2, <2>3, <2>4, <2>5
  <1>4. QED
    BY <1>2, <1>3, SettleSteps

LEMMA TickTimes ==
  ASSUME Whole, TimeInv, Tick
  PROVE  TimeInv' /\ Releases(ctl, ctl')
  <1>1. ctl' = Age(ctl) /\ due' = TRUE
    BY WholeParts DEF Tick, AgeCooldown, Become, M
  <1>2. QED
    BY <1>1, WholeParts, AgeWaits DEF TimeInv

(* What a machine starts from.                                                   *)
LEMMA BootedTimes ==
  ASSUME NEW stored, IsStored(stored), NEW reading \in Raw \cup {Bad}, NEW pulse \in BOOLEAN
  PROVE  LET c == Booted(stored, reading, pulse) IN
           Backed(c) /\ Timed(c) /\ OneDeadline(c) /\ Kept(c) /\ Idle(c) /\ ~Calibrating(c)
  <1> DEFINE c == Construct(stored.targets, stored.steam, stored.offset)
             r == Update(c, reading, FALSE, TRUE, TRUE, pulse)
  <1>1. Sound(c) /\ ~Calibrating(c)
    BY ConstructIsSound
  <1>2. OneDeadline(c) /\ Idle(c)
    BY DEF Construct, LatchFault, OneDeadline, Idle
  <1>3. Booted(stored, reading, pulse) = r
    BY DEF Booted
  <1> HIDE DEF c
  <1>4. Times(c, r) /\ Releases(c, r)
    BY <1>1, UpdateTimes
  <1> HIDE DEF r
  <1>5. QED
    BY <1>1, <1>2, <1>3, <1>4 DEF Times, Releases, Idle

LEMMA InitIsTimed == Init => TimeInv
  <1> SUFFICES ASSUME Init PROVE TimeInv
    OBVIOUS
  <1>1. PICK offset \in Offsets, reading \in Readings, pulse \in BOOLEAN : ctl = Booted(nvs, reading, pulse)
    BY DEF Init
  <1>2. Whole
    BY InitIsWhole
  <1>3. reading \in Raw \cup {Bad} /\ IsStored(nvs)
    BY <1>2, WorldsAreTyped DEF Whole, TypeOK
  <1>4. QED
    BY <1>1, <1>3, BootedTimes DEF TimeInv

LEMMA RestartTimes ==
  ASSUME Whole, Restart
  PROVE  TimeInv' /\ Idle(ctl') /\ ~Calibrating(ctl')
  <1>1. PICK reading \in Readings, pulse \in BOOLEAN : ctl' = Booted(nvs, reading, pulse)
    BY DEF Restart
  <1>2. reading \in Raw \cup {Bad} /\ IsStored(nvs)
    BY WorldsAreTyped DEF Whole, TypeOK
  <1>3. QED
    BY <1>1, <1>2, BootedTimes DEF TimeInv

(* All together: every step keeps TimeInv, and all but four take nothing up.     *)
LEMMA NextTimes ==
  ASSUME Whole, TimeInv, Next
  PROVE  /\ TimeInv'
         /\ \/ Releases(ctl, ctl') \/ Restart
            \/ RequestStartCalibration \/ RequestSaveCalibration \/ PrepareRequest
  <1>1. CASE Serve
    BY <1>1, OrdinaryTimes, DismissStep, SessionTimes, BeginningTimes, CooldownTimes, TransactionTimes
       DEF Serve
  <1>2. CASE Continue
    BY <1>2, BeginningTimes, CooldownTimes, TransactionTimes DEF Continue
  <1>3. CASE MissLock \/ MissInRequest
    BY <1>3, EmergencyTimes DEF MissLock, MissInRequest
  <1>4. QED
    BY <1>1, <1>2, <1>3, TemperatureTimes, WorkflowTimes, TransactionTimes, TickTimes, RestartTimes DEF Next

(* In every reachable state the controller's deadlines cover its heat.           *)
LEMMA AlwaysTimed == Spec => []TimeInv
  <1>1. Whole /\ TimeInv /\ [Next]_vars => TimeInv'
    <2>1. ASSUME UNCHANGED vars, TimeInv PROVE TimeInv'
      BY <2>1 DEF vars, state, TimeInv
    <2>2. QED
      BY <2>1, NextTimes
  <1>2. QED
    BY <1>1, InitIsTimed, AlwaysWhole, PTL DEF Spec

(* Between turns of the temperature loop, heating has a warmup or recovery       *)
(* deadline that runs, or the machine is ready, or a calibration session within  *)
(* its lease: no order of requests, misses and faults leaves it unbounded.       *)
THEOREM HeatingIsTimed == Spec => []HeatIsTimed
  <1>1. TimeInv => HeatIsTimed
    BY DEF TimeInv, Timed, HeatIsTimed
  <1>2. QED
    BY <1>1, AlwaysTimed, PTL

(* TrackDeadlines latches heating_timeout in the turn in which a deadline is     *)
(* reached: no later turn finds one passed and the machine without a fault.      *)
THEOREM DeadlinesAreKept == Spec => []DeadlineIsKept
  <1>1. TimeInv => DeadlineIsKept
    BY DEF TimeInv, Kept, DeadlineIsKept
  <1>2. QED
    BY <1>1, AlwaysTimed, PTL

-----------------------------------------------------------------------------
(* IV. Answers.                                                                  *)

(* What the HTTP task has said and saved, by where it stands in its request.     *)
Stores(targets, steam, offset) ==
  nvs.targets = targets /\ nvs.steam = steam /\ nvs.offset = offset

(* Where nothing of a request is stored that RAM has not, and where a settings    *)
(* save is under way.                                                            *)
AtRest == Free \cup InStop \cup
  {"settings", "save_targets", "rollback", "save_calibration", "rollback_calibration"}
Saving == {"settings", "save_targets", "save_steam", "restore", "rollback", "torn", "adopt"}

(* While no answer was lost: each stage of a save says how far NVS is ahead of   *)
(* RAM, and what is prepared is what the request is about to adopt.              *)
StoredInv ==
  ~lost =>
    /\ api \in AtRest => Stores(ctl.targets, ctl.steam, ctl.offset)
    /\ api \in {"save_steam", "restore"} => Stores(req.targets, ctl.steam, ctl.offset)
    /\ api = "adopt" => Stores(req.targets, req.steam, ctl.offset)
    /\ api = "adopt_calibration" => Stores(ctl.targets, ctl.steam, req.offset)
    /\ api # "torn"
PendingInv ==
  /\ api \in {"saved", "unsaved"} => Idle(ctl) /\ ctl.calibration # "saving"
  /\ api \in Saving => ~Calibrating(ctl)
  /\ api \in {"save_targets", "save_steam", "adopt"} =>
       /\ ctl.updating => TargetsChange
       /\ ctl.steamUpdating => SteamChanges /\ ctl.nextSteam = req.steam
AnswerInv == StoredInv /\ PendingInv

(* A step of a control task, beside any request.                                 *)
LEMMA OutsideSteps ==
  ASSUME AnswerInv, SameSettings(ctl, ctl'), Releases(ctl, ctl'), nvs' = nvs, req' = req, lost' = lost,
         api' = api \/ (api \in InStop /\ api' \in InStop)
  PROVE  AnswerInv'
  <1>1. StoredInv'
    BY DEF AnswerInv, StoredInv, Stores, SameSettings, AtRest, Free, InStop
  <1>2. PendingInv'
    BY DEF AnswerInv, PendingInv, Saving, Idle, Releases, SameSettings, TargetsChange, SteamChanges, InStop
  <1>3. QED
    BY <1>1, <1>2 DEF AnswerInv

(* A step that ends a request without an answer, or begins one.                  *)
LEMMA SilentSteps ==
  ASSUME AnswerInv, SameSettings(ctl, ctl'), nvs' = nvs, lost' \/ ~lost, lost' \/ api \in AtRest,
         \/ api' \in {"idle", "stop", "save_calibration"}
         \/ api' = "settings" /\ ~Calibrating(ctl')
  PROVE  AnswerInv'
  <1>1. StoredInv'
    BY DEF AnswerInv, StoredInv, Stores, SameSettings, AtRest, Free, InStop
  <1>2. PendingInv'
    BY DEF PendingInv, Saving
  <1>3. QED
    BY <1>1, <1>2 DEF AnswerInv

(* Only the two adoptions and a restart change the settings in RAM.              *)
LEMMA SettingsStay ==
  ASSUME Consistent, Next, ~AdoptRequest, ~AdoptCalibrationRequest, ~Restart
  PROVE  SameSettings(ctl, ctl')
  <1> USE DEF Consistent
  <1>1. CASE Serve
    <2>1. CASE \E mode \in Modes : RequestMode(mode)
      BY <2>1, ModeStep
    <2>2. CASE (\E phase \in FirstPhases : RequestStartShot(phase)) \/ RequestStopShot
      BY <2>2, StartShotStep, StopShotStep
    <2>3. CASE \E key \in Keys : RequestStartCooldown(key)
      BY <2>3, StartCooldownStep
    <2>4. QED
      BY <1>1, <2>1, <2>2, <2>3, PlainSteps, TransactionSteps DEF Serve
  <1>2. CASE Continue
    BY <1>2, StopCooldownStep, TransactionSteps DEF Continue
  <1>3. CASE TemperatureUpdate \/ WorkflowUpdate \/ MissLock \/ MissInRequest \/ Trip \/ Tick
    BY <1>3, TemperatureStep, WorkflowStep, EmergencyStep, TransactionSteps, TickStep
       DEF MissLock, MissInRequest
  <1>4. QED
    BY <1>1, <1>2, <1>3 DEF Next

LEMMA ServeAnswers ==
  ASSUME AnswerInv, Serve, SameSettings(ctl, ctl')
  PROVE  AnswerInv'
  <1>1. nvs' = nvs /\ lost' = lost /\ api \in AtRest
    BY DEF Serve, Request, RequestMode, RequestHeater, RequestDismiss, Poll, RequestStartCalibration,
           RequestRenew, RequestCancel, RequestCandidate, RequestStartShot, RequestStopShot,
           RequestStartCooldown, RequestStop, RequestSettings, RequestSaveCalibration, AtRest
  <1>2. CASE \E targets \in TargetPairs, steam \in world.steam : RequestSettings(targets, steam)
    <2>1. api' = "idle" \/ (api' = "settings" /\ ~Calibrating(ctl'))
      BY <1>2 DEF RequestSettings, Calibrating
    <2>2. QED
      BY <1>1, <2>1, SilentSteps
  <1>3. CASE ~\E targets \in TargetPairs, steam \in world.steam : RequestSettings(targets, steam)
    <2>1. api' \in {"idle", "stop", "save_calibration"}
      BY <1>3
         DEF Serve, Request, RequestMode, RequestHeater, RequestDismiss, Poll, RequestStartCalibration,
             RequestRenew, RequestCancel, RequestCandidate, RequestStartShot, RequestStopShot,
             RequestStartCooldown, RequestStop, RequestSaveCalibration
    <2>2. QED
      BY <1>1, <2>1, SilentSteps
  <1>4. QED
    BY <1>2, <1>3

(* update_settings, from its check to its rollback.                              *)
LEMMA PrepareAnswers ==
  ASSUME Whole, AnswerInv, PrepareRequest, SameSettings(ctl, ctl')
  PROVE  AnswerInv'
  <1>1. nvs' = nvs /\ lost' = lost /\ req' = req /\ api = "settings"
    BY DEF PrepareRequest
  <1>2. CASE api' = "idle"
    BY <1>1, <1>2, SilentSteps DEF AtRest
  <1>3. CASE api' # "idle"
    <2>1. /\ CanPrepareSettings(ctl, req.targets) /\ api' = "save_targets"
          /\ ctl' = PrepareSettings(ctl, req.targets, req.steam, TRUE)
      BY <1>3 DEF PrepareRequest
    <2>2. /\ ~Calibrating(ctl') /\ (ctl'.updating => req.targets # ctl.targets)
          /\ ctl'.steamUpdating => req.steam # ctl.steam /\ ctl'.nextSteam = req.steam
      <3>1. CASE req.targets = ctl.targets /\ req.steam = ctl.steam
        BY <2>1, <3>1 DEF PrepareSettings, CanPrepareSettings, Idle
      <3>2. CASE ~(req.targets = ctl.targets /\ req.steam = ctl.steam)
        <4> DEFINE d == Prepared(ctl, req.targets, req.steam)
        <4>1. /\ d.calibration = ctl.calibration /\ d.updating = (req.targets # ctl.targets)
              /\ d.steamUpdating = (req.steam # ctl.steam) /\ d.nextSteam = req.steam
              /\ DOMAIN d = ControllerFields
          BY WholeParts DEF Prepared, Sound, IsController, ControllerFields
        <4>2. ctl' = [d EXCEPT !.heat = FALSE]
          BY <2>1, <3>2 DEF PrepareSettings, ForceOff
        <4> HIDE DEF d
        <4>3. QED
          BY <2>1, <4>1, <4>2 DEF CanPrepareSettings, Calibrating, ControllerFields
      <3>3. QED
        BY <3>1, <3>2
    <2>3. StoredInv'
      BY <1>1, <2>1 DEF AnswerInv, StoredInv, Stores, SameSettings, AtRest
    <2>4. PendingInv'
      BY <1>1, <2>1, <2>2 DEF PendingInv, Saving, TargetsChange, SteamChanges, SameSettings
    <2>5. QED
      BY <2>3, <2>4 DEF AnswerInv
  <1>4. QED
    BY <1>2, <1>3

LEMMA SaveAnswers ==
  ASSUME Whole, AnswerInv, SaveTargets \/ SaveSteam \/ RestoreTargets
  PROVE  AnswerInv'
  <1>1. ctl' = ctl /\ req' = req /\ (lost' = lost \/ lost' = TRUE)
    BY DEF SaveTargets, SaveSteam, RestoreTargets, OutsideTheMutex
  <1>2. IsStored(nvs)
    BY DEF Whole, TypeOK
  <1>3. PendingInv'
    <2>1. /\ api' \in Saving /\ api \in Saving
          /\ api' \in {"save_targets", "save_steam", "adopt"} => api \in {"save_targets", "save_steam", "adopt"}
      BY DEF SaveTargets, SaveSteam, RestoreTargets, Saving
    <2>2. QED
      BY <1>1, <2>1 DEF AnswerInv, PendingInv, TargetsChange, SteamChanges, Saving
  <1>4. StoredInv'
    <2>1. CASE SaveTargets
      BY <1>1, <1>2, <2>1
         DEF SaveTargets, AnswerInv, StoredInv, Stores, IsStored, TargetsChange, AtRest, Free, InStop
    <2>2. CASE SaveSteam
      BY <1>1, <1>2, <2>2
         DEF SaveSteam, AnswerInv, StoredInv, Stores, IsStored, TargetsChange, SteamChanges, AtRest, Free,
             InStop
    <2>3. CASE RestoreTargets
      BY <1>1, <1>2, <2>3
         DEF RestoreTargets, AnswerInv, StoredInv, Stores, IsStored, AtRest, Free, InStop
    <2>4. QED
      BY <2>1, <2>2, <2>3
  <1>5. QED
    BY <1>3, <1>4 DEF AnswerInv

LEMMA RollbackIdles ==
  ASSUME NEW c, Sound(c)
  PROVE  Idle(RollbackSettings(c, TRUE))
  <1> DEFINE d == RollbackTargets(c, TRUE)
             r == RollbackSettings(c, TRUE)
  <1>1. d.updating = FALSE /\ d.steamUpdating = c.steamUpdating /\ DOMAIN d = ControllerFields
    BY DEF RollbackTargets, Sound, IsController, ControllerFields
  <1>2. r = IF d.steamUpdating
            THEN [d EXCEPT !.heat = FALSE, !.nextSteam = d.steam, !.steamUpdating = FALSE] ELSE d
    BY DEF RollbackSettings, RollbackSteam
  <1> HIDE DEF d
  <1>3. r.updating = FALSE /\ ~r.steamUpdating
    BY <1>1, <1>2 DEF ControllerFields
  <1>4. QED
    BY <1>3 DEF Idle

LEMMA RollbackAnswers ==
  ASSUME Whole, AnswerInv, RollbackRequest, SameSettings(ctl, ctl'), Releases(ctl, ctl')
  PROVE  AnswerInv'
  <1>1. /\ nvs' = nvs /\ lost' = lost /\ api \in {"rollback", "torn"} /\ api' \in {"idle", "unsaved"}
        /\ api' = "unsaved" => api = "rollback" /\ ctl' = RollbackSettings(ctl, TRUE)
    BY DEF RollbackRequest
  <1>2. StoredInv'
    BY <1>1 DEF AnswerInv, StoredInv, Stores, SameSettings, AtRest, Free
  <1>3. PendingInv'
    <2>1. ~Calibrating(ctl')
      BY <1>1 DEF AnswerInv, PendingInv, Saving, Releases
    <2>2. api' = "unsaved" => Idle(ctl')
      BY <1>1, WholeParts, RollbackIdles
    <2>3. QED
      BY <1>1, <2>1, <2>2 DEF PendingInv, Saving, Calibrating
  <1>4. QED
    BY <1>2, <1>3 DEF AnswerInv

(* Adopting: everything prepared is adopted, or the machine says nothing.        *)
LEMMA AdoptsAll ==
  ASSUME NEW c, Sound(c), ~Calibrating(c), NEW targets \in TargetPairs, NEW steam \in SteamSettings,
         AdoptsTargets(c, targets), steam = c.steam \/ c.steamUpdating,
         c.updating => targets # c.targets, c.steamUpdating => steam # c.steam /\ c.nextSteam = steam
  PROVE  LET r == AdoptSettings(c, targets, steam) IN
           r.targets = targets /\ r.steam = steam /\ r.offset = c.offset /\ Idle(r)
  <1> DEFINE first == IF targets = c.targets THEN c ELSE AdoptTargets(c, targets)
             r == AdoptSettings(c, targets, steam)
             new == [first EXCEPT !.steam = steam, !.steamUpdating = FALSE]
  <1>1. /\ first.targets = targets /\ first.steam = c.steam /\ first.offset = c.offset
        /\ ~first.updating /\ first.steamUpdating = c.steamUpdating /\ first.nextSteam = c.nextSteam
        /\ DOMAIN first = ControllerFields
    <2>1. CASE targets = c.targets
      BY <2>1 DEF Sound, IsController
    <2>2. CASE targets # c.targets
      <3> DEFINE adopted == [c EXCEPT !.targets = targets, !.activeChange = FALSE, !.updating = FALSE]
                 again == [adopted EXCEPT
                             !.band = Off, !.achieved = @ /\ (Running(c.warmup) \/ Running(c.recovery)),
                             !.status = IF Faulted(c) THEN @ ELSE "heating"]
      <3>1. first \in {adopted, again}
        BY <2>2 DEF AdoptsTargets, AdoptTargets
      <3>2. /\ adopted.targets = targets /\ adopted.steam = c.steam /\ adopted.offset = c.offset
            /\ ~adopted.updating /\ adopted.steamUpdating = c.steamUpdating
            /\ adopted.nextSteam = c.nextSteam /\ DOMAIN adopted = ControllerFields
        BY DEF Sound, IsController, ControllerFields
      <3> HIDE DEF adopted
      <3>3. /\ again.targets = targets /\ again.steam = c.steam /\ again.offset = c.offset
            /\ ~again.updating /\ again.steamUpdating = c.steamUpdating
            /\ again.nextSteam = c.nextSteam /\ DOMAIN again = ControllerFields
        BY <3>2 DEF ControllerFields
      <3> HIDE DEF again, first
      <3>4. QED
        BY <3>1, <3>2, <3>3
    <2>3. QED
      BY <2>1, <2>2
  <1>2. r = IF steam # c.steam THEN AdoptSteam(first, steam) ELSE first
    BY DEF AdoptSettings
  <1> HIDE DEF first
  <1>3. steam # c.steam => AdoptSteam(first, steam) = new
    BY <1>1 DEF AdoptSteam
  <1>4. /\ new.targets = targets /\ new.steam = steam /\ new.offset = c.offset
        /\ ~new.updating /\ ~new.steamUpdating
    BY <1>1 DEF ControllerFields
  <1>5. steam = c.steam => ~first.steamUpdating
    BY <1>1
  <1> HIDE DEF new
  <1>6. r.targets = targets /\ r.steam = steam /\ r.offset = c.offset /\ ~r.updating /\ ~r.steamUpdating
    BY <1>1, <1>2, <1>3, <1>4, <1>5
  <1>7. QED
    BY <1>6 DEF Idle, r

LEMMA AdoptAnswers ==
  ASSUME Whole, AnswerInv, AdoptRequest, Releases(ctl, ctl')
  PROVE  AnswerInv'
  <1> DEFINE adopted == AdoptsTargets(ctl, req.targets) /\ (~SteamChanges \/ ctl.steamUpdating)
  <1>1. /\ api = "adopt" /\ api' = (IF adopted THEN "saved" ELSE "idle")
        /\ lost' = (lost \/ ~adopted) /\ nvs' = nvs /\ req' = req
        /\ ctl' = AdoptSettings(ctl, req.targets, req.steam)
    BY DEF AdoptRequest
  <1>2. CASE ~adopted
    <2>1. api' = "idle" /\ lost' = TRUE
      BY <1>1, <1>2
    <2>2. QED
      BY <2>1 DEF AnswerInv, StoredInv, PendingInv, Saving
  <1>3. CASE adopted
    <2>1. req.targets \in TargetPairs /\ req.steam \in SteamSettings /\ Sound(ctl)
      BY WholeParts DEF Whole, TypeOK, IsStored
    <2>2. /\ ~Calibrating(ctl) /\ (ctl.updating => req.targets # ctl.targets)
          /\ ctl.steamUpdating => req.steam # ctl.steam /\ ctl.nextSteam = req.steam
      BY <1>1 DEF AnswerInv, PendingInv, Saving, TargetsChange, SteamChanges
    <2>3. /\ ctl'.targets = req.targets /\ ctl'.steam = req.steam /\ ctl'.offset = ctl.offset /\ Idle(ctl')
      BY <1>1, <1>3, <2>1, <2>2, AdoptsAll DEF SteamChanges
    <2>4. api' = "saved" /\ lost' = lost
      BY <1>1, <1>3 DEF Whole, TypeOK
    <2>5. ctl'.calibration # "saving"
      BY <2>2 DEF Releases, Calibrating
    <2>6. StoredInv'
      BY <1>1, <2>3, <2>4 DEF AnswerInv, StoredInv, Stores, AtRest, Free
    <2>7. PendingInv'
      BY <2>3, <2>4, <2>5 DEF PendingInv, Saving
    <2>8. QED
      BY <2>6, <2>7 DEF AnswerInv
  <1>4. QED
    BY <1>2, <1>3

(* save_temperature_calibration.                                                 *)
LEMMA CalibrationAnswers ==
  ASSUME Whole, AnswerInv, SaveCalibration \/ RollbackCalibrationRequest,
         SameSettings(ctl, ctl'), Releases(ctl, ctl')
  PROVE  AnswerInv'
  <1>1. CASE SaveCalibration
    BY <1>1 DEF SaveCalibration, OutsideTheMutex, AnswerInv, StoredInv, PendingInv, Stores, Saving, AtRest,
                Free, InStop, Whole, TypeOK, IsStored
  <1>2. CASE RollbackCalibrationRequest
    <2>1. /\ nvs' = nvs /\ lost' = lost /\ api = "rollback_calibration" /\ api' \in {"idle", "unsaved"}
          /\ api' = "unsaved" => ctl.calibration = "saving"
          /\ ctl' = RollbackCalibration(ctl)
      BY <1>2 DEF RollbackCalibrationRequest, InsideTheMutex
    <2>2. api' = "unsaved" => Idle(ctl')
      BY <2>1, WholeParts DEF Sound, Alone, Calibrating, Idle, Releases
    <2>3. ctl'.calibration # "saving"
      BY <2>1, WholeParts, RollbackCalibrationSettles
    <2>4. StoredInv'
      BY <2>1 DEF AnswerInv, StoredInv, Stores, SameSettings, AtRest, Free
    <2>5. PendingInv'
      BY <2>1, <2>2, <2>3 DEF PendingInv, Saving
    <2>6. QED
      BY <2>4, <2>5 DEF AnswerInv
  <1>3. QED
    BY <1>1, <1>2

LEMMA AdoptCalibrationAnswers ==
  ASSUME Whole, AnswerInv, AdoptCalibrationRequest, Releases(ctl, ctl')
  PROVE  AnswerInv'
  <1> DEFINE adopted == CanAdoptCalibration(ctl, req.offset)
  <1>1. /\ api = "adopt_calibration" /\ api' = (IF adopted THEN "saved" ELSE "idle")
        /\ lost' = (lost \/ ~adopted) /\ nvs' = nvs
    BY DEF AdoptCalibrationRequest, InsideTheMutex
  <1>2. CASE ~adopted
    <2>1. api' = "idle" /\ lost' = TRUE
      BY <1>1, <1>2
    <2>2. QED
      BY <2>1 DEF AnswerInv, StoredInv, PendingInv, Saving
  <1>3. CASE adopted
    <2>1. PICK ok \in BOOLEAN : ctl' = RestoreOrdinaryBrew([ctl EXCEPT !.offset = req.offset], ok)
      BY <1>3 DEF AdoptCalibrationRequest, AdoptCalibration
    <2> DEFINE d == [ctl EXCEPT !.offset = req.offset]
    <2>2. /\ Sound(d) /\ d.targets = ctl.targets /\ d.steam = ctl.steam /\ d.offset = req.offset
      <3>1. req.offset \in Offsets /\ Sound(ctl)
        BY WholeParts DEF Whole, TypeOK, IsStored
      <3>2. QED
        BY <3>1 DEF Sound, Alone, Calibrating, Faulted, Idle, IsController, ControllerFields
    <2>3. ctl' = RestoreOrdinaryBrew(d, ok)
      BY <2>1
    <2> HIDE DEF d
    <2>4. Keeps(d, ctl') /\ ~Calibrating(ctl')
      BY <2>2, <2>3, RestoreKeeps, RestoreCarries DEF Sound, IsController, IsShaped
    <2>5. ctl'.targets = ctl.targets /\ ctl'.steam = ctl.steam /\ ctl'.offset = req.offset
      BY <2>2, <2>4 DEF Keeps, SameSettings
    <2>6. Idle(ctl')
      BY <1>3, WholeParts DEF CanAdoptCalibration, Sound, Alone, Calibrating, Idle, Releases
    <2>7. api' = "saved" /\ lost' = lost
      BY <1>1, <1>3 DEF Whole, TypeOK
    <2>8. StoredInv'
      BY <1>1, <2>5, <2>7 DEF AnswerInv, StoredInv, Stores, AtRest, Free
    <2>9. PendingInv'
      BY <2>4, <2>6, <2>7 DEF PendingInv, Saving, Calibrating
    <2>10. QED
      BY <2>8, <2>9 DEF AnswerInv
  <1>4. QED
    BY <1>2, <1>3

(* Boot: the controller uses what it has loaded, unless it cannot be reached.    *)
LEMMA BootedStores ==
  ASSUME NEW stored, IsStored(stored), NEW reading, NEW pulse, Reachable(stored.targets, stored.offset)
  PROVE  SameSettings(stored, Booted(stored, reading, pulse))
  <1> DEFINE c == Construct(stored.targets, stored.steam, stored.offset)
  <1>1. SameSettings(stored, c) /\ IsShaped(c)
    BY DEF Construct, SameSettings, IsShaped, ControllerFields
  <1> HIDE DEF c
  <1>2. Keeps(c, Update(c, reading, FALSE, TRUE, TRUE, pulse))
    BY <1>1, UpdateKeeps
  <1>3. QED
    BY <1>1, <1>2 DEF Booted, c, Keeps, SameSettings

LEMMA InitAnswers == Init => AnswerInv
  <1> SUFFICES ASSUME Init PROVE AnswerInv
    OBVIOUS
  <1>1. PICK offset \in Offsets, reading \in Readings, pulse \in BOOLEAN :
          /\ Reachable(DefaultTargets, offset)
          /\ nvs = [targets |-> DefaultTargets, steam |-> DefaultSteam, offset |-> offset]
          /\ ctl = Booted(nvs, reading, pulse) /\ Boot(nvs)
    BY DEF Init
  <1>2. IsStored(nvs) /\ Reachable(nvs.targets, nvs.offset)
    BY <1>1, InitIsWhole DEF Whole, TypeOK
  <1>3. SameSettings(nvs, ctl) /\ api = "idle"
    BY <1>1, <1>2, BootedStores DEF Boot
  <1>4. QED
    BY <1>3 DEF AnswerInv, StoredInv, PendingInv, Stores, Saving, SameSettings

LEMMA RestartAnswers ==
  ASSUME Whole, Restart
  PROVE  AnswerInv'
  <1>1. PICK reading \in Readings, pulse \in BOOLEAN : ctl' = Booted(nvs, reading, pulse)
    BY DEF Restart
  <1>2. nvs' = nvs /\ api' = "idle" /\ lost' = ~Reachable(nvs.targets, nvs.offset)
    BY DEF Restart
  <1>3. ~lost' => SameSettings(nvs, ctl')
    BY <1>1, <1>2, BootedStores DEF Whole, TypeOK
  <1>4. QED
    BY <1>2, <1>3 DEF AnswerInv, StoredInv, PendingInv, Stores, Saving, SameSettings

(* All together.                                                                 *)
LEMMA NextAnswers ==
  ASSUME Whole, TimeInv, Consistent, AnswerInv, Next
  PROVE  AnswerInv'
  <1>1. ~AdoptRequest /\ ~AdoptCalibrationRequest /\ ~Restart => SameSettings(ctl, ctl')
    BY SettingsStay
  <1>2. CASE Restart
    BY <1>2, RestartAnswers
  <1>3. CASE AdoptRequest \/ AdoptCalibrationRequest
    BY <1>3, TransactionTimes, AdoptAnswers, AdoptCalibrationAnswers
  <1>4. CASE ~AdoptRequest /\ ~AdoptCalibrationRequest /\ ~Restart
    <2>1. CASE Serve
      BY <1>1, <1>4, <2>1, ServeAnswers
    <2>2. CASE StopCooldown
      <3>1. nvs' = nvs /\ lost' = lost /\ api \in AtRest /\ api' = "idle"
        BY <2>2 DEF StopCooldown, AtRest
      <3>2. QED
        BY <1>1, <1>4, <3>1, SilentSteps
    <2>3. CASE PrepareRequest
      BY <1>1, <1>4, <2>3, PrepareAnswers
    <2>4. CASE SaveTargets \/ SaveSteam \/ RestoreTargets
      BY <2>4, SaveAnswers
    <2>5. CASE RollbackRequest \/ SaveCalibration \/ RollbackCalibrationRequest
      BY <1>1, <1>4, <2>5, TransactionTimes, RollbackAnswers, CalibrationAnswers
    <2>6. CASE MissInRequest
      <3>1. /\ nvs' = nvs /\ api' = "idle" /\ lost' = (lost \/ api \in {"adopt", "adopt_calibration"})
            /\ api \in AtRest \cup {"torn", "adopt", "adopt_calibration"}
        BY <2>6 DEF MissInRequest, AtRest
      <3>2. api = "torn" => lost
        BY DEF AnswerInv, StoredInv
      <3>3. QED
        BY <1>1, <1>4, <3>1, <3>2, SilentSteps
    <2>7. CASE TemperatureUpdate \/ WorkflowUpdate \/ MissLock \/ Trip \/ Tick
      <3>1. Releases(ctl, ctl')
        BY <2>7, TemperatureTimes, WorkflowTimes, EmergencyTimes, TransactionTimes, TickTimes DEF MissLock
      <3>2. /\ nvs' = nvs /\ req' = req /\ lost' = lost
            /\ api' = api \/ (api \in InStop /\ api' \in InStop)
        BY <2>7 DEF TemperatureUpdate, WorkflowUpdate, WorkflowTurn, Overtake, MissLock, Trip, Tick, InStop
      <3>3. QED
        BY <1>1, <1>4, <3>1, <3>2, OutsideSteps
    <2>8. QED
      BY <1>4, <2>1, <2>2, <2>3, <2>4, <2>5, <2>6, <2>7 DEF Next, Continue
  <1>5. QED
    BY <1>2, <1>3, <1>4

LEMMA AlwaysAnswers == Spec => []AnswerInv
  <1>1. Whole /\ TimeInv /\ Consistent /\ AnswerInv /\ [Next]_vars => AnswerInv'
    <2>1. ASSUME UNCHANGED vars, AnswerInv PROVE AnswerInv'
      BY <2>1 DEF vars, state, AnswerInv, StoredInv, PendingInv, Stores, TargetsChange, SteamChanges
    <2>2. QED
      BY <2>1, NextAnswers
  <1>2. QED
    BY <1>1, InitAnswers, AlwaysWhole, AlwaysTimed, AlwaysConsistent, PTL DEF Spec

(* Only the four saves and the restore write what is stored.                 *)
LEMMA StoredStays ==
  ASSUME Next, ~SaveTargets, ~SaveSteam, ~RestoreTargets, ~SaveCalibration
  PROVE  nvs' = nvs
  <1>1. CASE Serve
    BY <1>1 DEF Serve, Request, RequestMode, RequestHeater, RequestDismiss, Poll, RequestStartCalibration,
                RequestRenew, RequestCancel, RequestCandidate, RequestStartShot, RequestStopShot,
                RequestStartCooldown, RequestStop, RequestSettings, RequestSaveCalibration, InsideTheMutex,
                OutsideTheMutex
  <1>2. CASE StopCooldown \/ PrepareRequest \/ RollbackRequest \/ RollbackCalibrationRequest
              \/ AdoptRequest \/ AdoptCalibrationRequest
    BY <1>2 DEF StopCooldown, PrepareRequest, RollbackRequest, RollbackCalibrationRequest, AdoptRequest,
                AdoptCalibrationRequest, InsideTheMutex
  <1>3. CASE TemperatureUpdate \/ WorkflowUpdate \/ MissLock \/ MissInRequest \/ Trip \/ Tick \/ Restart
    BY <1>3 DEF TemperatureUpdate, WorkflowUpdate, WorkflowTurn, Overtake, MissLock, MissInRequest,
                Trip, Tick, Restart
  <1>4. QED
    BY <1>1, <1>2, <1>3 DEF Next, Continue

(* What is stored is a record: every save replaces one of its fields.         *)
Recorded == nvs = [targets |-> nvs.targets, steam |-> nvs.steam, offset |-> nvs.offset]

LEMMA AlwaysRecorded == Spec => []Recorded
  <1>1. Init => Recorded
    BY DEF Init, Recorded
  <1>2. Whole /\ Recorded /\ [Next]_vars => Recorded'
    <2> SUFFICES ASSUME Whole, Recorded, [Next]_vars PROVE Recorded'
      OBVIOUS
    <2>1. nvs' \in {nvs, [nvs EXCEPT !.targets = req.targets], [nvs EXCEPT !.targets = ctl.targets],
                   [nvs EXCEPT !.steam = req.steam], [nvs EXCEPT !.offset = req.offset]}
      <3>1. CASE SaveTargets \/ SaveSteam \/ RestoreTargets \/ SaveCalibration
        BY <3>1 DEF SaveTargets, SaveSteam, RestoreTargets, SaveCalibration
      <3>2. CASE ~(SaveTargets \/ SaveSteam \/ RestoreTargets \/ SaveCalibration)
        BY <3>2, StoredStays DEF vars, state
      <3>3. QED
        BY <3>1, <3>2
    <2>2. QED
      BY <2>1 DEF Recorded
  <1>3. QED
    BY <1>1, <1>2, AlwaysWhole, PTL DEF Spec

(* update_settings and save_temperature_calibration: whoever missed the mutex,   *)
(* failed to write or came in between, a request that has ended leaves RAM and   *)
(* NVS equal, and an answered one nothing half-adopted; the exceptions (lost)    *)
(* are a save that was neither adopted nor put back.                             *)
THEOREM AnswersHold == Spec => []AnswersAreTrue
  <1>1. Whole /\ Recorded /\ AnswerInv => AnswersAreTrue
    <2> SUFFICES ASSUME Whole, Recorded, AnswerInv, ~lost, api \in Free
                 PROVE  /\ nvs = [targets |-> ctl.targets, steam |-> ctl.steam, offset |-> ctl.offset]
                        /\ api # "idle" => Idle(ctl) /\ ctl.calibration # "saving"
      BY DEF AnswersAreTrue
    <2>1. Stores(ctl.targets, ctl.steam, ctl.offset)
      BY DEF AnswerInv, StoredInv, AtRest
    <2>3. nvs = [targets |-> ctl.targets, steam |-> ctl.steam, offset |-> ctl.offset]
      BY <2>1 DEF Stores, Recorded
    <2>4. QED
      BY <2>3 DEF AnswerInv, PendingInv, Free
  <1>2. QED
    BY <1>1, AlwaysWhole, AlwaysRecorded, AlwaysAnswers, PTL

=============================================================================
