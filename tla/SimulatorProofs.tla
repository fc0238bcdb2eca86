--------------------------- MODULE SimulatorProofs ---------------------------
(* What is proved of Simulator, for every set of routes its clients may use, at  *)
(* once or one by one, and for every setting, limit and profile the protocol     *)
(* admits; and of Pairing, whose routes on a machine are the simulator's too.    *)
(*                                                                               *)
(* Simulator.  The invariant (IInv) says what shape each part of the machine     *)
(* has (Sound), that a cooldown runs alone, in Brew and without a fault (Good),  *)
(* and that a steam timer that is shown is the time that is left (TimerOK).      *)
(* Every operator keeps it, which is a lemma of its own, and an action is a      *)
(* composition of operators.  Within a step of time TimerOK does not hold, for   *)
(* the clock and the mode change before the timer is computed again; Good does.  *)
(* That Good holds between the stages is why no stage can fail a cooldown and    *)
(* leave the fault out, or add a fault and leave the cooldown in.                *)
(*                                                                               *)
(* What a step may do (Moves) is proved along: an operator keeps the shot and    *)
(* the fault (Keeps), and only the shot's own ones let it pour on by one step or *)
(* end (Goes).  A dismissal, which clears the fault, and a loss of power, which  *)
(* clears both, are the only steps that are not such moves (NextSteps).          *)
EXTENDS Pairing, Simulator, SequenceTheorems, TLAPS

-----------------------------------------------------------------------------
(* The shapes of the machine's parts.                                            *)
Fields ==
  {"mode", "raw", "targets", "offset", "recorded", "steam", "steamCorrupt", "calCorrupt", "failSteam",
   "failCal", "armed", "soak", "readyAt", "left", "heater", "fault", "ready", "cal", "expired", "cals",
   "cool", "shot", "end", "score", "warning", "runs", "scaleBusy", "hashing", "calibrated", "available",
   "stable", "weight"}
TargetRecords == [brew : BrewRange, steam : SteamRange]
SteamRecords == [compensation : 0..MaxCompensation, decay : Nat \ {0}, timeout : 1..MaxTimeout]
Ages == {None} \cup Nat
SettingsOK(s) ==
  /\ s.mode \in {"brew", "steam"} /\ s.targets \in TargetRecords /\ s.steam \in SteamRecords
  /\ s.offset \in OffsetRange /\ (~s.recorded => s.offset = 0)
  /\ s.soak \in Ages /\ s.readyAt \in Ages /\ s.runs \in Nat
  /\ s.fault \in {"none"} \cup Schema!FaultCodes
CalOK(c) ==
  \/ c = NoCal
  \/ /\ DOMAIN c = {"id", "candidate", "idle"}
     /\ c.candidate \in CandidateRange /\ c.idle \in 0..Lease
CoolRecords(statuses, outcomes) ==
  [status : statuses, key : Keys, target : BrewRange, pumped : 0..PumpLimit,
   settled : 0..Stabilization, outcome : outcomes]
Answered == {"target-reached", "cutoff", "stopped"}
CoolOK(c) ==
  \/ c = NoCooldown
  \/ c \in CoolRecords({"pumping"}, {"none"})
  \/ c \in CoolRecords({"stabilizing"}, Answered)
  \/ c \in CoolRecords({"terminal"}, Answered \cup {"failed"})
(* How long a shot may pour, and a shot that has not come to that.               *)
Total(x) ==
  IF x.selection = Manual \/ (x.cutoff # NoWeight /\ ~x.fallback) THEN ShotLimit
  ELSE x.selection.pre + x.selection.soak + x.selection.main
ShotFields == {"id", "key", "selection", "elapsed", "tare", "cutoff", "fallback"}
Pouring(x) ==
  /\ DOMAIN x = ShotFields /\ x.id \in Nat \ {0} /\ x.selection \in Profiles \cup {Manual}
  /\ x.elapsed \in Nat
ShotOK(x) == x = NoShot \/ (Pouring(x) /\ x.elapsed < Total(x))
EndOK(e) ==
  \/ e = NoEnd
  \/ /\ e.id \in Nat \ {0} /\ e.selection \in Profiles \cup {Manual}
     /\ e.outcome \in {"completed", "stopped"}
ScoreOK(c) == c = NoScore \/ ("reason" \in DOMAIN c /\ c.reason \in Schema!Completions)
(* A calibration and a shot need Brew.                                           *)
Sound(s) ==
  /\ DOMAIN s = Fields /\ SettingsOK(s) /\ CalOK(s.cal) /\ CoolOK(s.cool) /\ ShotOK(s.shot)
  /\ EndOK(s.end) /\ ScoreOK(s.score)
  /\ s.cal # NoCal \/ Running(s) => s.mode = "brew"
(* A cooldown is alone, and a fault would have ended it.                         *)
Good(s) == Sound(s) /\ (Cooling(s) => ~Running(s) /\ s.mode = "brew" /\ s.fault = "none")
TimerOK(s) ==
  s.left # None => /\ s.mode = "steam" /\ s.readyAt # None
                   /\ s.left = s.steam.timeout - s.readyAt /\ s.left > 0
(* The state t is s but for some fields.                                         *)
Same(s, t, changed) == DOMAIN t = Fields /\ \A f \in Fields \ changed : t[f] = s[f]

(* What a step may do to the fault and to the shot.  A fault that is there stays *)
(* as it is, a failed cooldown has one beside it if it had one, and a shot stays, *)
(* ends or pours for n steps more.                                               *)
FailedFaults(s) == s.cool.outcome = "failed" => s.fault # "none"
Hardens(s, t) ==
  /\ s.fault # "none" => t.fault = s.fault
  /\ FailedFaults(s) => FailedFaults(t)
Keeps(s, t) == t.shot = s.shot /\ Hardens(s, t)
Goes(x, y, n) ==
  \/ y \in {x, NoShot}
  \/ Pouring(x) /\ Pouring(y) /\ y.selection = x.selection /\ y.elapsed = x.elapsed + n
Pours(x, y) ==
  \/ Goes(x, y, 0) \/ Goes(x, y, 1)
  \/ x = NoShot /\ Pouring(y) /\ y.elapsed = 0
Moves(s, t) == Pours(s.shot, t.shot) /\ Hardens(s, t)

LEMMA SameKeeps ==
  ASSUME NEW s, NEW t, Same(s, t, Fields \ {"shot", "fault", "cool"})
  PROVE  Keeps(s, t)
  BY DEF Same, Fields, Keeps, Hardens, FailedFaults

LEMMA KeepsKeeps ==
  ASSUME NEW s, NEW t, NEW u, Keeps(s, t), Keeps(t, u)
  PROVE  Keeps(s, u)
  BY DEF Keeps, Hardens

LEMMA KeepsMoves ==
  ASSUME NEW s, NEW t, NEW u, NEW v, Keeps(s, t), Moves(t, u), Keeps(u, v)
  PROVE  Moves(s, v)
  BY DEF Keeps, Hardens, Moves

-----------------------------------------------------------------------------
(* Faults, the calibration session and the cooldown.                             *)
LEMMA CalEmpty == CalOK(NoCal)
  BY DEF CalOK

LEMMA SoundRestored ==
  ASSUME NEW s, Sound(s)
  PROVE  /\ Sound(RestoreBrew(s)) /\ TimerOK(RestoreBrew(s)) /\ RestoreBrew(s).mode = "brew"
         /\ Same(s, RestoreBrew(s), {"cal", "mode", "ready", "left", "readyAt"})
         /\ RestoreBrew(s).cal = NoCal /\ Keeps(s, RestoreBrew(s))
  BY CalEmpty
     DEF Sound, Keeps, Hardens, FailedFaults, RestoreBrew, SettingsOK, Running, Fields, Ages, Same, TimerOK

LEMMA GoodRestored ==
  ASSUME NEW s, Good(s)
  PROVE  Good(RestoreBrew(s))
  BY SoundRestored DEF Good, Cooling, Running, Same, Fields

LEMMA CoolSet ==
  ASSUME NEW statuses, NEW outcomes, NEW c \in CoolRecords(statuses, outcomes), NEW status, NEW outcome
  PROVE  [c EXCEPT !.status = status, !.outcome = outcome] \in CoolRecords({status}, {outcome})
  BY DEF CoolRecords

LEMMA CooldownFailed ==
  ASSUME NEW s, Sound(s)
  PROVE  /\ Good(FailCooldown(s)) /\ ~Cooling(FailCooldown(s)) /\ Same(s, FailCooldown(s), {"cool"})
         /\ TimerOK(s) => TimerOK(FailCooldown(s))
         /\ s.fault # "none" => Keeps(s, FailCooldown(s))
  <1>1. CASE ~Cooling(s)
    BY <1>1 DEF Good, FailCooldown, Sound, Same, Keeps, Hardens
  <1>2. CASE Cooling(s)
    <2> DEFINE t == FailCooldown(s)
    <2>1. t.cool = [s.cool EXCEPT !.status = "terminal", !.outcome = "failed"] /\ Same(s, t, {"cool"})
      BY <1>2 DEF FailCooldown, Fields, Same, Sound
    <2>2. CoolOK(t.cool) /\ ~Cooling(t)
      <3>1. PICK statuses, outcomes : s.cool \in CoolRecords(statuses, outcomes)
        BY <1>2 DEF CoolOK, Cooling, NoCooldown, Sound
      <3>2. [s.cool EXCEPT !.status = "terminal", !.outcome = "failed"]
              \in CoolRecords({"terminal"}, {"failed"})
        BY <3>1, CoolSet
      <3>3. QED
        BY <2>1, <3>2 DEF CoolOK, CoolRecords, Cooling
    <2>3. Sound(t)
      BY <2>1, <2>2 DEF Same, Fields, SettingsOK, Sound, Running
    <2>4. QED
      BY <2>1, <2>2, <2>3 DEF Good, TimerOK, Same, Fields, Keeps, Hardens, FailedFaults
  <1>3. QED
    BY <1>1, <1>2

LEMMA FaultInjected ==
  ASSUME NEW s, Good(s), NEW fault \in Schema!FaultCodes
  PROVE  /\ Good(InjectFault(s, fault)) /\ InjectFault(s, fault).fault # "none"
         /\ TimerOK(s) => TimerOK(InjectFault(s, fault))
         /\ Keeps(s, InjectFault(s, fault))
  <1>1. CASE s.fault # "none"
    BY <1>1 DEF InjectFault, Keeps, Hardens
  <1>2. CASE s.fault = "none"
    <2> DEFINE r == [s EXCEPT !.fault = fault]
    <2>1. Sound(r) /\ r.fault = fault /\ r.shot = s.shot
      BY DEF Good, Sound, SettingsOK, Running, Fields
    <2> HIDE DEF r
    <2>2. Sound(RestoreBrew(r)) /\ TimerOK(RestoreBrew(r)) /\ RestoreBrew(r).fault = fault
          /\ RestoreBrew(r).shot = s.shot
      BY <2>1, SoundRestored DEF Same, Fields
    <2>3. FailCooldown(RestoreBrew(r)).fault = fault /\ FailCooldown(RestoreBrew(r)).shot = s.shot
      BY <2>2, CooldownFailed DEF Same, Fields
    <2>4. fault # "none"
      BY DEF Schema!FaultCodes
    <2>5. QED
      BY <1>2, <2>2, <2>3, <2>4, CooldownFailed DEF InjectFault, r, Keeps, Hardens, FailedFaults
  <1>3. QED
    BY <1>1, <1>2

LEMMA SafetyEvaluated ==
  ASSUME NEW s, Good(s)
  PROVE  /\ Good(EvaluateSafety(s)) /\ (TimerOK(s) => TimerOK(EvaluateSafety(s)))
         /\ Keeps(s, EvaluateSafety(s))
  BY FaultInjected DEF EvaluateSafety, Schema!FaultCodes, Keeps, Hardens

LEMMA CooldownAborted ==
  ASSUME NEW s, Sound(s), s.fault = "none"
  PROVE  /\ Good(AbortCooldown(s)) /\ (TimerOK(s) => TimerOK(AbortCooldown(s)))
         /\ Keeps(s, AbortCooldown(s))
  <1> DEFINE r == [s EXCEPT !.armed = @ \ {"pump-off", "heater-off"}, !.fault = "internal_error", !.ready = 0]
  <1>1. Sound(r) /\ (TimerOK(s) => TimerOK(r)) /\ r.fault # "none" /\ r.shot = s.shot
    BY DEF Sound, SettingsOK, Running, Fields, TimerOK, Schema!FaultCodes
  <1>2. AbortCooldown(s) = FailCooldown(r)
    BY DEF AbortCooldown
  <1> HIDE DEF r
  <1>3. /\ Good(FailCooldown(r)) /\ (TimerOK(s) => TimerOK(FailCooldown(r)))
        /\ FailCooldown(r).fault # "none" /\ FailCooldown(r).shot = s.shot
    BY <1>1, CooldownFailed DEF Same, Fields
  <1>4. QED
    BY <1>2, <1>3 DEF Keeps, Hardens, FailedFaults

LEMMA CoolSettles ==
  ASSUME NEW c \in CoolRecords({"pumping"}, {"none"}), NEW outcome \in Answered
  PROVE  [c EXCEPT !.status = "stabilizing", !.settled = 0, !.outcome = outcome]
           \in CoolRecords({"stabilizing"}, Answered)
  <1>1. 0 \in 0..Stabilization
    BY LimitsAssumption
  <1>2. QED
    BY <1>1 DEF CoolRecords

LEMMA StabilizationEntered ==
  ASSUME NEW s, Good(s), NEW outcome \in Answered
  PROVE  /\ Good(EnterStabilization(s, outcome))
         /\ TimerOK(s) => TimerOK(EnterStabilization(s, outcome))
         /\ Keeps(s, EnterStabilization(s, outcome))
  <1> DEFINE t == [s EXCEPT !.cool.status = "stabilizing", !.cool.settled = 0, !.cool.outcome = outcome]
  <1>1. CASE s.cool.status = "pumping" /\ "pump-off" \notin s.armed
    <2>1. /\ t.cool = [s.cool EXCEPT !.status = "stabilizing", !.settled = 0, !.outcome = outcome]
          /\ Same(s, t, {"cool"})
      BY DEF Fields, Same, Sound, Good
    <2>2. s.cool \in CoolRecords({"pumping"}, {"none"})
      BY <1>1 DEF Good, Sound, CoolOK, CoolRecords, NoCooldown
    <2>3. [s.cool EXCEPT !.status = "stabilizing", !.settled = 0, !.outcome = outcome]
            \in CoolRecords({"stabilizing"}, Answered)
      BY <2>2, CoolSettles
    <2>4. CoolOK(t.cool)
      BY <2>1, <2>3 DEF CoolOK
    <2>5. Sound(t)
      BY <2>1, <2>4 DEF Same, Fields, SettingsOK, Sound, Running, Good
    <2>6. Cooling(s)
      BY <1>1 DEF Cooling
    <2>7. Good(t) /\ (TimerOK(s) => TimerOK(t))
      BY <2>1, <2>5, <2>6 DEF Good, Same, Fields, Running, TimerOK
    <2>8. t.cool.outcome # "failed"
      BY <2>1, <2>3 DEF CoolRecords, Answered
    <2>9. Keeps(s, t)
      BY <2>1, <2>8 DEF Same, Fields, Keeps, Hardens, FailedFaults
    <2>10. QED
      BY <1>1, <2>7, <2>9 DEF EnterStabilization
  <1>2. CASE s.cool.status = "pumping" /\ "pump-off" \in s.armed
    BY <1>2, CooldownAborted DEF EnterStabilization, Good, Cooling
  <1>3. CASE s.cool.status # "pumping"
    BY <1>3 DEF EnterStabilization, Keeps, Hardens
  <1>4. QED
    BY <1>1, <1>2, <1>3

LEMMA CalibrationExpired ==
  ASSUME NEW s, Good(s)
  PROVE  /\ Good(ExpireCalibration(s)) /\ (TimerOK(s) => TimerOK(ExpireCalibration(s)))
         /\ Keeps(s, ExpireCalibration(s))
  <1> DEFINE r == RestoreBrew(s)
             t == [r EXCEPT !.expired = s.cal.id]
  <1>1. Good(r) /\ TimerOK(r)
    BY GoodRestored, SoundRestored DEF Good
  <1>2. Good(t) /\ TimerOK(t) /\ t.shot = r.shot /\ t.cool = r.cool /\ t.fault = r.fault
    BY <1>1 DEF Good, Sound, SettingsOK, Running, Cooling, Fields, TimerOK
  <1>3. Keeps(s, r)
    BY SoundRestored DEF Good
  <1>4. QED
    BY <1>2, <1>3 DEF ExpireCalibration, Keeps, Hardens, FailedFaults

LEMMA SteamRefreshed ==
  ASSUME NEW s, Good(s)
  PROVE  Good(RefreshSteam(s)) /\ TimerOK(RefreshSteam(s)) /\ Keeps(s, RefreshSteam(s))
  <1>1. CASE s.mode # "steam" \/ s.readyAt = None
    BY <1>1
       DEF RefreshSteam, Keeps, Hardens, FailedFaults, Good, Sound, SettingsOK, Running, Cooling,
           Fields, TimerOK
  <1>2. CASE s.mode = "steam" /\ s.readyAt # None /\ s.steam.timeout <= s.readyAt
    BY <1>2
       DEF RefreshSteam, Keeps, Hardens, FailedFaults, Good, Sound, SettingsOK, Running, Cooling,
           Fields, TimerOK, Ages
  <1>3. CASE s.mode = "steam" /\ s.readyAt # None /\ ~(s.steam.timeout <= s.readyAt)
    <2>1. s.readyAt \in Nat /\ s.steam.timeout \in Int
      BY <1>3, LimitsAssumption DEF Good, Sound, SettingsOK, Ages, SteamRecords
    <2>2. QED
      BY <1>3, <2>1
         DEF RefreshSteam, Keeps, Hardens, FailedFaults, Good, Sound, SettingsOK, Running, Cooling,
             Fields, TimerOK
  <1>4. QED
    BY <1>1, <1>2, <1>3

-----------------------------------------------------------------------------
(* Shots, and the weight they end on.                                            *)
LEMMA TotalIsNat ==
  ASSUME NEW x, Pouring(x)
  PROVE  Total(x) \in 1..ShotLimit
  BY LimitsAssumption, RequestsAssumption DEF Pouring, Total, Schema!Profile

LEMMA EmptyShot == ShotOK(NoShot)
  BY DEF ShotOK

LEMMA PourWeighed ==
  ASSUME NEW u, Good(u), Running(u), NEW s, Same(u, s, {"shot", "warning"}), Pouring(s.shot),
         NEW reason \in Schema!Completions
  PROVE  /\ Good(FinishWeighted(s, reason)) /\ FinishWeighted(s, reason).shot = NoShot
         /\ TimerOK(u) => TimerOK(FinishWeighted(s, reason))
         /\ Hardens(u, FinishWeighted(s, reason))
  <1> DEFINE t == FinishWeighted(s, reason)
  <1>1. Same(u, t, {"shot", "warning", "end", "score"})
    BY DEF Same, Fields, FinishWeighted
  <1>2. EndOK(t.end)
    BY DEF Same, Fields, FinishWeighted, EndOK, Pouring
  <1>3. ScoreOK(t.score)
    BY DEF Same, Fields, FinishWeighted, ScoreOK
  <1>4. t.shot = NoShot
    BY DEF Same, Fields, FinishWeighted
  <1> HIDE DEF t
  <1>5. Sound(t)
    BY <1>1, <1>2, <1>3, <1>4, EmptyShot DEF Same, Fields, SettingsOK, Sound, Running, Good
  <1>6. Good(t) /\ (TimerOK(u) => TimerOK(t)) /\ Hardens(u, t)
    BY <1>1, <1>4, <1>5 DEF Same, Fields, Good, Running, Cooling, TimerOK, Hardens, FailedFaults
  <1>7. QED
    BY <1>4, <1>6 DEF t

LEMMA PourEnded ==
  ASSUME NEW s, Good(s), Running(s), NEW outcome \in {"completed", "stopped"}
  PROVE  /\ Good(FinishPlain(s, outcome)) /\ FinishPlain(s, outcome).shot = NoShot
         /\ TimerOK(s) => TimerOK(FinishPlain(s, outcome))
         /\ Hardens(s, FinishPlain(s, outcome))
  <1> DEFINE t == FinishPlain(s, outcome)
  <1>1. Same(s, t, {"shot", "end"}) /\ t.shot = NoShot
    BY DEF Same, Fields, FinishPlain, Good, Sound
  <1>2. EndOK(t.end)
    BY DEF Sound, Fields, FinishPlain, EndOK, Pouring, Good, ShotOK, Running
  <1> HIDE DEF t
  <1>3. Sound(t)
    BY <1>1, <1>2, EmptyShot DEF Same, Fields, SettingsOK, Sound, Running, Good
  <1>4. Good(t) /\ (TimerOK(s) => TimerOK(t)) /\ Hardens(s, t)
    BY <1>1, <1>3 DEF Same, Fields, Good, Running, Cooling, TimerOK, Hardens, FailedFaults
  <1>5. QED
    BY <1>1, <1>4 DEF t

(* A running shot that is changed, and still runs.                             *)
LEMMA PourChanged ==
  ASSUME NEW s, Good(s), Running(s), NEW t, Same(s, t, {"shot", "warning"}), ShotOK(t.shot)
  PROVE  Good(t) /\ (TimerOK(s) => TimerOK(t)) /\ Hardens(s, t)
  <1>1. Sound(t)
    BY DEF Same, Fields, SettingsOK, Sound, Running, Good
  <1>2. QED
    BY <1>1 DEF Same, Fields, Good, Running, Cooling, TimerOK, Hardens, FailedFaults

LEMMA RunningPours ==
  ASSUME NEW s, Good(s), Running(s)
  PROVE  DOMAIN s = Fields /\ Pouring(s.shot) /\ s.shot.elapsed < Total(s.shot)
  BY DEF Good, Sound, ShotOK, Running

LEMMA WeightEvaluated ==
  ASSUME NEW s, Good(s)
  PROVE  /\ Good(EvaluateWeight(s)) /\ (TimerOK(s) => TimerOK(EvaluateWeight(s)))
         /\ Goes(s.shot, EvaluateWeight(s).shot, 0) /\ Hardens(s, EvaluateWeight(s))
  <1>1. CASE ~Running(s) \/ s.shot.cutoff = NoWeight
    BY <1>1 DEF EvaluateWeight, Goes, Hardens
  <1>2. CASE Running(s) /\ s.shot.cutoff # NoWeight /\ ~s.available
    <2> DEFINE f == [s EXCEPT !.shot.fallback = TRUE, !.warning = s.shot.id]
    <2>1. Same(s, f, {"shot", "warning"}) /\ f.shot = [s.shot EXCEPT !.fallback = TRUE]
      BY <1>2, RunningPours DEF Same, Fields
    <2>2. Pouring(f.shot) /\ Goes(s.shot, f.shot, 0)
      BY <1>2, <2>1, RunningPours DEF Pouring, ShotFields, Goes
    <2> HIDE DEF f
    <2>3. /\ Good(FinishWeighted(f, "timer-fallback")) /\ FinishWeighted(f, "timer-fallback").shot = NoShot
          /\ TimerOK(s) => TimerOK(FinishWeighted(f, "timer-fallback"))
          /\ Hardens(s, FinishWeighted(f, "timer-fallback"))
      BY <1>2, <2>1, <2>2, PourWeighed DEF Schema!Completions
    <2>4. ASSUME ~(f.shot.elapsed >= Duration(f))
          PROVE  Good(f) /\ (TimerOK(s) => TimerOK(f)) /\ Hardens(s, f)
      <3>1. Duration(f) = Total(f.shot)
        BY DEF Duration, Total
      <3>2. ShotOK(f.shot)
        BY <2>2, <2>4, <3>1, TotalIsNat DEF ShotOK, Pouring
      <3>3. QED
        BY <1>2, <2>1, <3>2, PourChanged
    <2>5. EvaluateWeight(s) = IF f.shot.elapsed >= Duration(f) THEN FinishWeighted(f, "timer-fallback") ELSE f
      BY <1>2 DEF EvaluateWeight, f
    <2>6. QED
      BY <2>2, <2>3, <2>4, <2>5 DEF Goes
  <1>3. CASE Running(s) /\ s.shot.cutoff # NoWeight /\ s.available
    <2>1. /\ Good(FinishWeighted(s, "weight-reached")) /\ FinishWeighted(s, "weight-reached").shot = NoShot
          /\ TimerOK(s) => TimerOK(FinishWeighted(s, "weight-reached"))
          /\ Hardens(s, FinishWeighted(s, "weight-reached"))
      BY <1>3, PourWeighed, RunningPours DEF Same, Schema!Completions
    <2>2. Goes(s.shot, s.shot, 0) /\ Hardens(s, s)
      BY DEF Goes, Hardens
    <2>3. QED
      BY <1>3, <2>1, <2>2 DEF EvaluateWeight, Goes
  <1>4. QED
    BY <1>1, <1>2, <1>3

(* Weighed, one step on and weighed again is one step on.                        *)
LEMMA GoesFurther ==
  ASSUME NEW x, NEW y, NEW z, NEW i \in {0, 1}, NEW j \in {0, 1}, i + j <= 1, Goes(x, y, i), Goes(y, z, j)
  PROVE  \E n \in {i, j, i + j} : Goes(x, z, n)
  <1>1. ~Pouring(NoShot)
    BY DEF Pouring, NoShot
  <1>2. CASE z \in {y, NoShot}
    BY <1>2 DEF Goes
  <1>3. CASE Pouring(y) /\ Pouring(z) /\ z.selection = y.selection /\ z.elapsed = y.elapsed + j
    <2>1. y = x \/ (Pouring(x) /\ y.selection = x.selection /\ y.elapsed = x.elapsed + i)
      BY <1>1, <1>3 DEF Goes
    <2>2. CASE y = x
      BY <1>3, <2>2 DEF Goes
    <2>3. CASE Pouring(x) /\ y.selection = x.selection /\ y.elapsed = x.elapsed + i
      <3>1. x.elapsed \in Nat
        BY <2>3 DEF Pouring
      <3>2. z.elapsed = x.elapsed + (i + j)
        BY <1>3, <2>3, <3>1
      <3>3. Goes(x, z, i + j)
        BY <1>3, <2>3, <3>2 DEF Goes
      <3>4. QED
        BY <3>3
    <2>4. QED
      BY <2>1, <2>2, <2>3
  <1>4. QED
    BY <1>2, <1>3 DEF Goes

LEMMA GoesOn ==
  ASSUME NEW x, NEW y, NEW z, NEW u, Goes(x, y, 0), Goes(y, z, 1), Goes(z, u, 0)
  PROVE  Pours(x, u)
  <1>1. PICK n \in {0, 1} : Goes(x, z, n)
    BY GoesFurther
  <1>2. \E k \in {0, 1} : Goes(x, u, k)
    BY <1>1, GoesFurther
  <1>3. QED
    BY <1>2 DEF Pours

LEMMA ShotAdvanced ==
  ASSUME NEW s, Good(s)
  PROVE  Good(AdvanceShot(s)) /\ Moves(s, AdvanceShot(s))
  <1> DEFINE e == EvaluateWeight(s)
  <1>1. Good(e) /\ Goes(s.shot, e.shot, 0) /\ Hardens(s, e)
    BY WeightEvaluated
  <1>2. AdvanceShot(s) =
          IF ~Running(e) THEN e
          ELSE IF e.shot.elapsed + 1 < Duration(e)
          THEN EvaluateWeight([e EXCEPT !.shot.elapsed = @ + 1])
          ELSE IF e.shot.cutoff = NoWeight THEN FinishPlain(e, "completed")
          ELSE FinishWeighted(e, IF e.shot.fallback THEN "timer-fallback" ELSE "safety-cutoff")
    BY DEF AdvanceShot
  <1> HIDE DEF e
  <1>3. Moves(s, e)
    BY <1>1 DEF Moves, Pours, Goes
  <1>4. ASSUME NEW t, Good(t), t.shot = NoShot, Hardens(e, t) PROVE Good(t) /\ Moves(s, t)
    BY <1>1, <1>4 DEF Moves, Pours, Goes, Hardens
  <1>5. ASSUME Running(e) PROVE Good(FinishPlain(e, "completed")) /\ Moves(s, FinishPlain(e, "completed"))
    BY <1>1, <1>4, <1>5, PourEnded
  <1>6. ASSUME Running(e), NEW reason \in Schema!Completions
        PROVE  Good(FinishWeighted(e, reason)) /\ Moves(s, FinishWeighted(e, reason))
    BY <1>1, <1>4, <1>6, RunningPours, PourWeighed DEF Same
  <1>7. ASSUME Running(e), e.shot.elapsed + 1 < Duration(e)
        PROVE  LET t == EvaluateWeight([e EXCEPT !.shot.elapsed = @ + 1]) IN Good(t) /\ Moves(s, t)
    <2> DEFINE t == [e EXCEPT !.shot.elapsed = @ + 1]
    <2>1. Same(e, t, {"shot", "warning"}) /\ t.shot = [e.shot EXCEPT !.elapsed = @ + 1]
      BY <1>1, <1>7, RunningPours DEF Same, Fields
    <2>2. /\ Pouring(e.shot) /\ Pouring(t.shot) /\ t.shot.selection = e.shot.selection
          /\ t.shot.elapsed = e.shot.elapsed + 1 /\ Total(t.shot) = Total(e.shot)
      BY <1>1, <1>7, <2>1, RunningPours DEF Pouring, ShotFields, Total
    <2>3. Duration(e) = Total(e.shot)
      BY DEF Duration, Total
    <2>4. ShotOK(t.shot) /\ Goes(e.shot, t.shot, 1)
      BY <1>7, <2>2, <2>3 DEF ShotOK, Goes
    <2>5. Good(t) /\ Hardens(e, t)
      BY <1>1, <1>7, <2>1, <2>4, PourChanged
    <2> HIDE DEF t
    <2>6. Good(EvaluateWeight(t)) /\ Goes(t.shot, EvaluateWeight(t).shot, 0) /\ Hardens(t, EvaluateWeight(t))
      BY <2>5, WeightEvaluated
    <2>7. Pours(s.shot, EvaluateWeight(t).shot)
      BY <1>1, <2>4, <2>6, GoesOn
    <2>8. Hardens(s, EvaluateWeight(t))
      BY <1>1, <2>5, <2>6 DEF Hardens
    <2>9. QED
      BY <2>6, <2>7, <2>8 DEF Moves, t
  <1>8. QED
    BY <1>1, <1>2, <1>3, <1>5, <1>6, <1>7 DEF Schema!Completions

LEMMA SettlingAdvanced ==
  ASSUME NEW s, Good(s)
  PROVE  Good(AdvanceSettling(s)) /\ Keeps(s, AdvanceSettling(s))
  <1>1. CASE s.score.settled
    BY <1>1 DEF AdvanceSettling, Keeps, Hardens
  <1>2. CASE ~s.score.settled
    <2> DEFINE t == AdvanceSettling(s)
    <2>1. Same(s, t, {"score"})
      BY <1>2 DEF AdvanceSettling, Same, Fields, Good, Sound
    <2>2. "reason" \in DOMAIN s.score /\ s.score.reason \in Schema!Completions
      BY <1>2 DEF Good, Sound, ScoreOK, NoScore
    <2>3. DOMAIN t.score = DOMAIN s.score /\ t.score.reason = s.score.reason
      BY <1>2, <2>2 DEF AdvanceSettling, Fields, Good, Sound
    <2> HIDE DEF t
    <2>4. ScoreOK(t.score)
      BY <2>2, <2>3 DEF ScoreOK
    <2>5. Sound(t)
      BY <2>1, <2>4 DEF Same, Fields, SettingsOK, Sound, Running, Good
    <2>6. Good(t) /\ Keeps(s, t)
      BY <2>1, <2>5 DEF Same, Fields, Good, Running, Cooling, Keeps, Hardens, FailedFaults
    <2>7. QED
      BY <2>6 DEF t
  <1>3. QED
    BY <1>1, <1>2

(* A state with the workflows and the settings of another.                      *)
LEMMA GoodKept ==
  ASSUME NEW s, Good(s), NEW t,
         Same(s, t, {"raw", "steamCorrupt", "calCorrupt", "failSteam", "failCal", "armed", "heater", "ready",
                     "expired", "cals", "warning", "scaleBusy", "hashing", "calibrated", "available",
                     "stable", "weight"})
  PROVE  Good(t) /\ (TimerOK(s) => TimerOK(t)) /\ Keeps(s, t)
  <1>1. Sound(t)
    BY DEF Same, Fields, SettingsOK, Sound, Running, Good
  <1>2. QED
    BY <1>1 DEF Same, Fields, Good, Running, Cooling, TimerOK, Keeps, Hardens, FailedFaults

-----------------------------------------------------------------------------
(* One step of time, stage by stage.                                             *)
LEMMA FieldsKnown ==
  ASSUME NEW s, Good(s) PROVE DOMAIN s = Fields
  BY DEF Good, Sound

LEMMA TemperatureAdvanced ==
  ASSUME NEW s, Good(s) PROVE Good(AdvanceTemperature(s)) /\ Keeps(s, AdvanceTemperature(s))
  <1>1. Same(s, AdvanceTemperature(s), {"raw"})
    BY FieldsKnown DEF AdvanceTemperature, Same
  <1>2. QED
    BY <1>1, GoodKept DEF Same

LEMMA AgesGrow ==
  ASSUME NEW age \in Ages PROVE Older(age) \in Ages
  BY LimitsAssumption DEF Ages, Older, Least, None

LEMMA CalAges ==
  ASSUME NEW c, CalOK(c)
  PROVE  LET d == [c EXCEPT !.idle = IF c = NoCal THEN 0 ELSE Least(Lease, @ + 1)]
         IN CalOK(d) /\ (d # NoCal => c # NoCal)
  <1>1. CASE c = NoCal
    <2>1. [NoCal EXCEPT !.idle = 0] = NoCal
      BY DEF NoCal
    <2>2. QED
      BY <1>1, <2>1 DEF CalOK
  <1>2. CASE c # NoCal
    BY <1>2, LimitsAssumption DEF CalOK, Least
  <1>3. QED
    BY <1>1, <1>2 DEF CalOK

LEMMA ClockAdvanced ==
  ASSUME NEW s, Good(s) PROVE Good(AdvanceClock(s)) /\ Keeps(s, AdvanceClock(s))
  <1> DEFINE t == AdvanceClock(s)
             d == [s.cal EXCEPT !.idle = IF s.cal = NoCal THEN 0 ELSE Least(Lease, @ + 1)]
  <1>1. Same(s, t, {"soak", "readyAt", "cal"}) /\ t.soak = Older(s.soak) /\ t.readyAt = Older(s.readyAt)
        /\ t.cal = d
    BY FieldsKnown DEF AdvanceClock, Same, Fields
  <1>2. CalOK(d) /\ (d # NoCal => s.cal # NoCal)
    BY CalAges DEF Good, Sound
  <1>3. t.soak \in Ages /\ t.readyAt \in Ages
    BY <1>1, AgesGrow DEF Good, Sound, SettingsOK
  <1> HIDE DEF t, d
  <1>4. Sound(t)
    BY <1>1, <1>2, <1>3 DEF Same, Fields, SettingsOK, Sound, Running, Good
  <1>5. Good(t) /\ Keeps(s, t)
    BY <1>1, <1>4 DEF Same, Fields, Good, Running, Cooling, Keeps, Hardens, FailedFaults
  <1>6. QED
    BY <1>5 DEF t

(* A cooldown that is replaced, and goes on or is over.                          *)
LEMMA CoolChanged ==
  ASSUME NEW s, Good(s), Cooling(s), NEW t, Same(s, t, {"cool"}), CoolOK(t.cool),
         t.cool.outcome # "failed"
  PROVE  Good(t) /\ Keeps(s, t)
  <1>1. Sound(t)
    BY DEF Same, Fields, SettingsOK, Sound, Running, Good
  <1>2. QED
    BY <1>1 DEF Same, Fields, Good, Running, Cooling, Keeps, Hardens, FailedFaults

LEMMA CooldownAdvanced ==
  ASSUME NEW s, Good(s) PROVE Good(AdvanceCooldown(s)) /\ Keeps(s, AdvanceCooldown(s))
  <1>1. CASE s.cool.status = "pumping"
    <2> DEFINE c == [s EXCEPT !.cool.pumped = Least(PumpLimit, @ + 1)]
    <2>1. Same(s, c, {"cool"}) /\ c.cool = [s.cool EXCEPT !.pumped = Least(PumpLimit, @ + 1)]
      BY FieldsKnown DEF Same, Fields
    <2>2. s.cool \in CoolRecords({"pumping"}, {"none"})
      BY <1>1 DEF Good, Sound, CoolOK, CoolRecords, NoCooldown
    <2>3. ASSUME NEW d \in CoolRecords({"pumping"}, {"none"})
          PROVE  [d EXCEPT !.pumped = Least(PumpLimit, @ + 1)] \in CoolRecords({"pumping"}, {"none"})
      BY LimitsAssumption DEF CoolRecords, Least
    <2>4. CoolOK(c.cool) /\ c.cool.outcome # "failed"
      BY <2>1, <2>2, <2>3 DEF CoolOK, CoolRecords
    <2>5. Cooling(s)
      BY <1>1 DEF Cooling
    <2> HIDE DEF c
    <2>6. Good(c) /\ Keeps(s, c)
      BY <2>1, <2>4, <2>5, CoolChanged
    <2>7. \A outcome \in {"target-reached", "cutoff"} :
            Good(EnterStabilization(c, outcome)) /\ Keeps(s, EnterStabilization(c, outcome))
      BY <2>6, StabilizationEntered, KeepsKeeps DEF Answered
    <2>8. QED
      BY <1>1, <2>6, <2>7 DEF AdvanceCooldown, c
  <1>2. CASE s.cool.status = "stabilizing"
    <2> DEFINE u == Least(Stabilization, s.cool.settled + 1)
               t == [s EXCEPT !.cool.settled = u,
                              !.cool.status = IF u >= Stabilization THEN "terminal" ELSE @]
    <2>1. /\ Same(s, t, {"cool"})
          /\ t.cool = [s.cool EXCEPT !.settled = u,
                                     !.status = IF u >= Stabilization THEN "terminal" ELSE @]
      BY FieldsKnown DEF Same, Fields
    <2>2. s.cool \in CoolRecords({"stabilizing"}, Answered)
      BY <1>2 DEF Good, Sound, CoolOK, CoolRecords, NoCooldown
    <2>3. u \in 0..Stabilization
      BY <2>2, LimitsAssumption DEF CoolRecords, Least
    <2> HIDE DEF u
    <2>4. ASSUME NEW d \in CoolRecords({"stabilizing"}, Answered)
          PROVE  LET e == [d EXCEPT !.settled = u, !.status = IF u >= Stabilization THEN "terminal" ELSE @]
                 IN CoolOK(e) /\ e.outcome # "failed"
      BY <2>3 DEF CoolRecords, CoolOK, Answered
    <2>5. CoolOK(t.cool) /\ t.cool.outcome # "failed"
      BY <2>1, <2>2, <2>4
    <2>6. Cooling(s)
      BY <1>2 DEF Cooling
    <2>7. Good(t) /\ Keeps(s, t)
      BY <2>1, <2>5, <2>6, CoolChanged
    <2>8. QED
      BY <1>2, <2>7 DEF AdvanceCooldown, u
  <1>3. CASE s.cool.status \notin {"pumping", "stabilizing"}
    BY <1>3 DEF AdvanceCooldown, Keeps, Hardens
  <1>4. QED
    BY <1>1, <1>2, <1>3

LEMMA SoakEnded ==
  ASSUME NEW s, Good(s) PROVE Good(EndSoak(s)) /\ Keeps(s, EndSoak(s))
  <1>1. CASE s.mode # "steam" /\ Effective(s) <= s.targets.brew
    <2>1. Sound(EndSoak(s)) /\ Same(s, EndSoak(s), {"soak"})
      BY <1>1 DEF EndSoak, Same, Fields, SettingsOK, Sound, Running, Good, Ages
    <2>2. QED
      BY <2>1 DEF Same, Fields, Good, Running, Cooling, Keeps, Hardens, FailedFaults
  <1>2. QED
    BY <1>1 DEF EndSoak, Keeps, Hardens

LEMMA ReadyTracked ==
  ASSUME NEW s, Good(s) PROVE Good(TrackReady(s)) /\ Keeps(s, TrackReady(s))
  <1>1. Same(s, TrackReady(s), {"ready"})
    BY FieldsKnown DEF TrackReady, Same
  <1>2. QED
    BY <1>1, GoodKept DEF Same

LEMMA SteamReadyTracked ==
  ASSUME NEW s, Good(s) PROVE Good(TrackSteamReady(s)) /\ Keeps(s, TrackSteamReady(s))
  <1>1. Sound(TrackSteamReady(s)) /\ Same(s, TrackSteamReady(s), {"readyAt"})
    BY DEF TrackSteamReady, Same, Fields, SettingsOK, Sound, Running, Good, Ages
  <1>2. QED
    BY <1>1 DEF Same, Fields, Good, Running, Cooling, Keeps, Hardens, FailedFaults

(* A loss of power.                                                              *)
Blank(s) == s.shot = NoShot /\ FailedFaults(s)

LEMMA VolatileReset ==
  ASSUME NEW s, DOMAIN s = Fields, SettingsOK(s)
  PROVE  /\ Good(ResetVolatile(s)) /\ TimerOK(ResetVolatile(s)) /\ SettingsOK(ResetVolatile(s))
         /\ Blank(ResetVolatile(s))
  <1> DEFINE t == ResetVolatile(s)
  <1>1. /\ DOMAIN t = Fields /\ t.mode = "brew" /\ t.fault = "none" /\ t.left = None /\ t.soak = None
        /\ t.readyAt = None /\ t.shot = NoShot /\ t.end = NoEnd /\ t.score = NoScore /\ t.runs = 0
        /\ t.cool = NoCooldown /\ t.cal = NoCal
    BY DEF ResetVolatile, Fields
  <1>2. t.targets = s.targets /\ t.steam = s.steam /\ t.offset = s.offset /\ t.recorded = s.recorded
    BY DEF ResetVolatile, Fields
  <1> HIDE DEF t
  <1>3. SettingsOK(t)
    BY <1>1, <1>2 DEF SettingsOK, Ages
  <1>4. Sound(t)
    BY <1>1, <1>3, EmptyShot, CalEmpty DEF Sound, CoolOK, EndOK, ScoreOK
  <1>5. ~Cooling(t) /\ TimerOK(t) /\ Blank(t)
    BY <1>1 DEF Cooling, NoCooldown, TimerOK, Blank, FailedFaults
  <1>6. QED
    BY <1>3, <1>4, <1>5 DEF Good, t

LEMMA Restarted ==
  ASSUME NEW s, Good(s)
  PROVE  Good(PowerCycled(s)) /\ TimerOK(PowerCycled(s)) /\ Blank(PowerCycled(s))
  <1> DEFINE v == ResetVolatile(s)
             w == [v EXCEPT !.offset = 0, !.recorded = FALSE]
             c == IF s.calCorrupt THEN InjectFault(w, "internal_error") ELSE v
  <1>1. Good(v) /\ TimerOK(v) /\ Blank(v)
    BY VolatileReset DEF Good, Sound
  <1>2. PowerCycled(s) = IF s.steamCorrupt THEN InjectFault(c, "internal_error") ELSE c
    BY DEF PowerCycled
  <1> HIDE DEF v
  <1>3. Same(v, w, {"offset", "recorded"}) /\ w.offset = 0 /\ w.recorded = FALSE
    BY <1>1, FieldsKnown DEF Same, Fields
  <1> HIDE DEF w
  <1>4. Sound(w)
    BY <1>1, <1>3, RangesAssumption DEF Same, Fields, SettingsOK, Sound, Running, Good
  <1>5. Good(w) /\ TimerOK(w) /\ Blank(w)
    BY <1>1, <1>3, <1>4 DEF Same, Fields, Good, Running, Cooling, TimerOK, Blank, FailedFaults
  <1>6. Good(c) /\ TimerOK(c) /\ Blank(c)
    BY <1>1, <1>5, FaultInjected DEF Schema!FaultCodes, Keeps, Hardens, Blank
  <1> HIDE DEF c
  <1>7. QED
    BY <1>2, <1>6, FaultInjected DEF Schema!FaultCodes, Keeps, Hardens, Blank

-----------------------------------------------------------------------------
(* The invariant, from action to action.                                         *)
Fine(s) == Good(s) /\ TimerOK(s)
IInv == Fine(m)

LEMMA InitFine == Init => IInv
  <1> SUFFICES ASSUME Init PROVE Fine(m)
    BY DEF IInv
  <1>1. /\ DOMAIN m = Fields /\ m.mode = "brew" /\ m.fault = "none" /\ m.left = None /\ m.soak = None
        /\ m.readyAt = None /\ m.shot = NoShot /\ m.end = NoEnd /\ m.score = NoScore /\ m.runs = 0
        /\ m.cool = NoCooldown /\ m.cal = NoCal
    BY DEF Init, Fields
  <1>2. m.targets = FactoryTargets /\ m.steam = FactorySteam /\ m.offset = 0 /\ m.recorded = FALSE
    BY DEF Init
  <1>3. SettingsOK(m)
    BY <1>1, <1>2, RangesAssumption, RequestsAssumption DEF SettingsOK, Ages, TargetRecords, SteamRecords
  <1>4. Sound(m)
    BY <1>1, <1>3, EmptyShot, CalEmpty DEF Sound, CoolOK, EndOK, ScoreOK
  <1>5. ~Cooling(m) /\ TimerOK(m)
    BY <1>1 DEF Cooling, NoCooldown, TimerOK
  <1>6. QED
    BY <1>4, <1>5 DEF Good, Fine

(* What every action but a dismissal and a loss of power does.                  *)
Step == IInv' /\ Moves(m, m')

LEMMA KeptMoves ==
  ASSUME NEW s, NEW t, Keeps(s, t) PROVE Moves(s, t)
  BY DEF Keeps, Moves, Pours, Goes

LEMMA Unmoved ==
  ASSUME NEW s PROVE Keeps(s, s)
  BY DEF Keeps, Hardens

LEMMA AnswerIsFine ==
  ASSUME NEW s, Fine(s), Answer(s) PROVE IInv' /\ Keeps(s, m')
  BY CalibrationExpired DEF IInv, Fine, Answer

LEMMA AnswerKeeps ==
  ASSUME NEW s, Fine(s), Keeps(m, s), Answer(s) PROVE Step
  BY AnswerIsFine, KeepsKeeps, KeptMoves DEF Step

LEMMA AnswerMoves ==
  ASSUME NEW s, Fine(s), Moves(m, s), Answer(s) PROVE Step
  BY AnswerIsFine, KeepsMoves, Unmoved DEF Step

LEMMA FineKept ==
  ASSUME NEW s, Fine(s), NEW t,
         Same(s, t, {"raw", "steamCorrupt", "calCorrupt", "failSteam", "failCal", "armed", "heater", "ready",
                     "expired", "cals", "warning", "scaleBusy", "hashing", "calibrated", "available",
                     "stable", "weight"})
  PROVE  Fine(t) /\ Keeps(s, t)
  BY GoodKept DEF Fine

LEMMA FineFields ==
  ASSUME NEW s, Fine(s) PROVE DOMAIN s = Fields
  BY FieldsKnown DEF Fine

LEMMA ConflictKeeps == IInv /\ Conflict => Step
  BY SoundRestored, GoodRestored, KeptMoves DEF IInv, Fine, Conflict, Good, Step

(* Settings. *)
LEMMA TargetsAdopted ==
  ASSUME NEW s, Fine(s), NEW t \in TargetRecords
  PROVE  Fine(AdoptTargets(s, t)) /\ Keeps(s, AdoptTargets(s, t))
  <1> DEFINE r == AdoptTargets(s, t)
  <1>1. Same(s, r, {"targets", "ready"}) /\ r.targets = t
    BY FineFields DEF AdoptTargets, Same, Fields
  <1> HIDE DEF r
  <1>2. Sound(r)
    BY <1>1 DEF Same, Fields, SettingsOK, Sound, Running, Good, Fine
  <1>3. Fine(r) /\ Keeps(s, r)
    BY <1>1, <1>2 DEF Same, Fields, Good, Running, Cooling, TimerOK, Fine, Keeps, Hardens, FailedFaults
  <1>4. QED
    BY <1>3 DEF r

LEMMA SteamSaved ==
  ASSUME NEW s, Fine(s), NEW settings \in SteamRecords
  PROVE  Fine(SaveSteam(s, settings)) /\ Keeps(s, SaveSteam(s, settings))
  <1> DEFINE off == [s EXCEPT !.armed = @ \ {"heater-off"}]
             bad == [off EXCEPT !.failSteam = FALSE]
             new == [off EXCEPT !.steam = settings, !.steamCorrupt = FALSE]
  <1>1. SaveSteam(s, settings) =
          IF "heater-off" \in s.armed THEN InjectFault(off, "internal_error")
          ELSE IF s.failSteam THEN InjectFault(bad, "internal_error") ELSE RefreshSteam(new)
    BY DEF SaveSteam
  <1>2. Fine(off) /\ Keeps(s, off)
    <2>1. Same(s, off, {"armed"})
      BY FineFields DEF Same
    <2>2. QED
      BY <2>1, FineKept DEF Same
  <1> HIDE DEF off
  <1>3. Fine(bad) /\ Keeps(s, bad)
    <2>1. Same(off, bad, {"failSteam"})
      BY <1>2, FineFields DEF Same
    <2>2. QED
      BY <1>2, <2>1, FineKept, KeepsKeeps DEF Same
  <1>4. Good(new) /\ Keeps(s, new)
    <2>1. Same(off, new, {"steam", "steamCorrupt"}) /\ new.steam = settings
      BY <1>2, FineFields DEF Same, Fields
    <2> HIDE DEF new
    <2>2. Sound(new)
      BY <1>2, <2>1 DEF Same, Fields, SettingsOK, Sound, Running, Good, Fine
    <2>3. Good(new) /\ Keeps(off, new)
      BY <1>2, <2>1, <2>2 DEF Same, Fields, Good, Running, Cooling, Fine, Keeps, Hardens, FailedFaults
    <2>4. QED
      BY <1>2, <2>3, KeepsKeeps
  <1> HIDE DEF bad, new
  <1>5. QED
    BY <1>1, <1>2, <1>3, <1>4, SteamRefreshed, FaultInjected, KeepsKeeps DEF Fine, Schema!FaultCodes

LEMMA SettingsKeep == IInv /\ PatchSettings => Step
  <1> SUFFICES ASSUME IInv, PatchSettings PROVE Step
    OBVIOUS
  <1>1. CASE Conflict
    BY <1>1, ConflictKeeps
  <1>2. ASSUME NEW t \in TargetPairs, Answer(AdoptTargets(m, t)) PROVE Step
    BY <1>2, TargetsAdopted, AnswerKeeps, RequestsAssumption DEF IInv, TargetRecords
  <1>3. ASSUME NEW t \in TargetPairs \cup {m.targets}, NEW settings \in SteamSettings,
               LET saved == SaveSteam(m, settings)
               IN Answer(IF saved.fault = "none" THEN AdoptTargets(saved, t) ELSE saved)
        PROVE  Step
    <2>1. t \in TargetRecords /\ settings \in SteamRecords
      BY RequestsAssumption DEF TargetRecords, SteamRecords, IInv, Fine, Good, Sound, SettingsOK
    <2> DEFINE saved == SaveSteam(m, settings)
    <2>2. Fine(saved) /\ Keeps(m, saved)
      BY <2>1, SteamSaved DEF IInv
    <2>3. Fine(AdoptTargets(saved, t)) /\ Keeps(m, AdoptTargets(saved, t))
      BY <2>1, <2>2, TargetsAdopted, KeepsKeeps
    <2>4. QED
      BY <1>3, <2>2, <2>3, AnswerKeeps
  <1>4. QED
    BY <1>1, <1>2, <1>3 DEF PatchSettings

LEMMA ModeKeeps == IInv /\ PutMode => Step
  <1> SUFFICES ASSUME IInv, PutMode PROVE Step
    OBVIOUS
  <1>1. CASE Conflict
    BY <1>1, ConflictKeeps
  <1>2. ASSUME NEW mode \in {"brew", "steam"}, m.cal = NoCal,
               mode = "steam" => ~Running(m) /\ ~Cooling(m), Answer(SetMode(m, mode))
        PROVE  Step
    <2>1. CASE m.mode = mode
      BY <1>2, <2>1, Unmoved, AnswerKeeps DEF SetMode, IInv
    <2>2. CASE m.mode # mode
      <3> DEFINE t == SetMode(m, mode)
      <3>1. /\ Same(m, t, {"mode", "ready", "left", "readyAt", "soak"})
            /\ t.mode = mode /\ t.left = None /\ t.readyAt = None /\ t.soak \in {0, m.soak}
        BY <2>2, FineFields DEF SetMode, Same, Fields, IInv
      <3> HIDE DEF t
      <3>2. Sound(t)
        BY <1>2, <3>1 DEF Same, Fields, SettingsOK, Sound, Running, Good, Fine, IInv, Ages
      <3>3. Fine(t) /\ Keeps(m, t)
        BY <1>2, <3>1, <3>2 DEF Same, Fields, Good, Running, Cooling, TimerOK, Fine, IInv, Keeps, Hardens,
                                FailedFaults
      <3>4. QED
        BY <1>2, <3>3, AnswerKeeps DEF t
    <2>3. QED
      BY <2>1, <2>2
  <1>3. QED
    BY <1>1, <1>2 DEF PutMode

LEMMA HeaterSet ==
  ASSUME NEW s, Fine(s), NEW on PROVE Fine(SetHeater(s, on)) /\ Keeps(s, SetHeater(s, on))
  <1>1. Same(s, SetHeater(s, on), {"heater", "ready"})
    BY FineFields DEF Same, SetHeater
  <1>2. QED
    BY <1>1, FineKept DEF Same

LEMMA HeaterKeeps == IInv /\ PutHeater => Step
  BY ConflictKeeps, HeaterSet, AnswerKeeps DEF PutHeater, IInv

LEMMA DismissKeeps ==
  IInv /\ Dismiss => IInv' /\ m'.fault = "none" /\ m'.shot = m.shot
  <1> SUFFICES ASSUME IInv, Dismiss PROVE IInv' /\ m'.fault = "none" /\ m'.shot = m.shot
    OBVIOUS
  <1> DEFINE t == [m EXCEPT !.fault = "none", !.ready = 0]
  <1>1. Same(m, t, {"fault", "ready"}) /\ t.fault = "none"
    BY FineFields DEF Same, Fields, IInv
  <1>2. Answer(t)
    BY DEF Dismiss
  <1> HIDE DEF t
  <1>3. Sound(t)
    BY <1>1 DEF Same, Fields, SettingsOK, Sound, Running, Good, Fine, IInv
  <1>4. Fine(t)
    BY <1>1, <1>3 DEF Same, Fields, Good, Running, Cooling, TimerOK, Fine, IInv
  <1>5. m'.fault = t.fault
    <2>1. \/ m' = t
          \/ m' = [RestoreBrew(t) EXCEPT !.expired = t.cal.id]
      BY <1>2 DEF Answer, ExpireCalibration
    <2>2. RestoreBrew(t).fault = t.fault /\ DOMAIN RestoreBrew(t) = Fields
      BY <1>3, SoundRestored DEF Same, Fields
    <2>3. QED
      BY <2>1, <2>2 DEF Fields
  <1>6. QED
    BY <1>1, <1>2, <1>4, <1>5, AnswerIsFine DEF Keeps, Same, Fields

(* The temperature calibration. *)
LEMMA CalChanged ==
  ASSUME NEW s, Fine(s), s.cal # NoCal, NEW t, Same(s, t, {"cal", "ready"}), CalOK(t.cal)
  PROVE  Fine(t) /\ Keeps(s, t)
  <1>1. Sound(t)
    BY DEF Same, Fields, SettingsOK, Sound, Running, Good, Fine
  <1>2. QED
    BY <1>1, SameKeeps DEF Same, Fields, Good, Running, Cooling, TimerOK, Fine

LEMMA CalTyped ==
  ASSUME NEW s, Fine(s), s.cal # NoCal
  PROVE  /\ DOMAIN s.cal = {"id", "candidate", "idle"}
         /\ s.cal.candidate \in CandidateRange /\ s.cal.idle \in 0..Lease
  BY DEF Fine, Good, Sound, CalOK

LEMMA ExpiredIsFine ==
  ASSUME IInv PROVE Fine(ExpireCalibration(m)) /\ Keeps(m, ExpireCalibration(m))
  BY CalibrationExpired DEF IInv, Fine

LEMMA StartCalibrationKeeps == IInv /\ StartCalibration => Step
  <1> SUFFICES ASSUME IInv, StartCalibration PROVE Step
    OBVIOUS
  <1> DEFINE s == ExpireCalibration(m)
             c == [id |-> s.cals + 1, candidate |-> Reference - s.offset, idle |-> 0]
             t == [s EXCEPT !.cals = @ + 1, !.expired = 0, !.ready = 0, !.left = None, !.cal = c]
  <1>1. Fine(s) /\ Keeps(m, s)
    BY ExpiredIsFine
  <1>2. IF ~CanCalibrate(s) THEN Answer(s) ELSE Answer(t)
    BY DEF StartCalibration
  <1> HIDE DEF s
  <1>3. ASSUME CanCalibrate(s) PROVE Fine(t) /\ Keeps(m, t)
    <2>1. Same(s, t, {"cals", "expired", "ready", "left", "cal"}) /\ t.left = None /\ t.cal = c
      BY <1>1, FineFields DEF Same, Fields
    <2>2. CalOK(c)
      BY <1>1, RangesAssumption, LimitsAssumption DEF CalOK, Fine, Good, Sound, SettingsOK
    <2>3. s.mode = "brew" /\ ~Cooling(s) /\ ~Running(s)
      BY <1>1, <1>3 DEF CanCalibrate, Fine, Good, Sound, SettingsOK
    <2> HIDE DEF t, c
    <2>4. Sound(t)
      BY <1>1, <2>1, <2>2, <2>3 DEF Same, Fields, SettingsOK, Sound, Running, Good, Fine
    <2>5. Keeps(s, t)
      BY <2>1 DEF Same, Fields, Keeps, Hardens, FailedFaults
    <2>6. QED
      BY <1>1, <2>1, <2>3, <2>4, <2>5, KeepsKeeps DEF Same, Fields, Good, Running, Cooling, TimerOK, Fine
  <1>4. QED
    BY <1>1, <1>2, <1>3, AnswerKeeps

LEMMA RenewedIsFine ==
  ASSUME IInv, NEW id PROVE Fine(Renewed(id)) /\ Keeps(m, Renewed(id))
  <1> DEFINE s == ExpireCalibration(m)
             t == [s EXCEPT !.cal.idle = 0]
  <1>1. Fine(s) /\ Keeps(m, s)
    BY ExpiredIsFine
  <1>2. Renewed(id) = IF s.cal # NoCal /\ s.cal.id = id THEN t ELSE s
    BY DEF Renewed
  <1> HIDE DEF s
  <1>3. ASSUME s.cal # NoCal PROVE Fine(t) /\ Keeps(m, t)
    <2>1. Same(s, t, {"cal", "ready"}) /\ t.cal = [s.cal EXCEPT !.idle = 0]
      BY <1>1, FineFields DEF Same, Fields
    <2>2. CalOK(t.cal)
      BY <1>1, <1>3, <2>1, CalTyped, LimitsAssumption DEF CalOK
    <2>3. QED
      BY <1>1, <1>3, <2>1, <2>2, CalChanged, KeepsKeeps
  <1>4. QED
    BY <1>1, <1>2, <1>3

LEMMA RenewKeeps == IInv /\ RenewLease => Step
  BY RenewedIsFine, AnswerKeeps DEF RenewLease

LEMMA CandidateKeeps == IInv /\ PatchCandidate => Step
  <1> SUFFICES ASSUME IInv, NEW id, NEW candidate \in Candidates,
                      IF ~Owns(id) THEN Answer(Renewed(id))
                      ELSE Answer([Renewed(id) EXCEPT !.cal.candidate = candidate, !.ready = 0])
               PROVE  Step
    BY DEF PatchCandidate
  <1> DEFINE s == Renewed(id)
             t == [s EXCEPT !.cal.candidate = candidate, !.ready = 0]
  <1>1. Fine(s) /\ Keeps(m, s)
    BY RenewedIsFine
  <1>2. (~Owns(id) /\ Answer(s)) \/ (s.cal # NoCal /\ Answer(t))
    BY DEF Owns
  <1> HIDE DEF s
  <1>3. ASSUME s.cal # NoCal PROVE Fine(t) /\ Keeps(m, t)
    <2>1. Same(s, t, {"cal", "ready"}) /\ t.cal = [s.cal EXCEPT !.candidate = candidate]
      BY <1>1, FineFields DEF Same, Fields
    <2>2. CalOK(t.cal)
      BY <1>1, <1>3, <2>1, CalTyped, RangesAssumption DEF CalOK
    <2>3. QED
      BY <1>1, <1>3, <2>1, <2>2, CalChanged, KeepsKeeps
  <1>4. QED
    BY <1>1, <1>2, <1>3, AnswerKeeps

LEMMA SaveKeeps == IInv /\ SaveCalibration => Step
  <1> SUFFICES ASSUME IInv, NEW id,
                      LET s == Renewed(id)
                          offset == Reference - s.cal.candidate IN
                      IF ~Owns(id) \/ ~Reachable(offset, s.targets) THEN Answer(s)
                      ELSE IF s.failCal THEN Answer([s EXCEPT !.failCal = FALSE])
                      ELSE Answer([s EXCEPT !.offset = offset, !.recorded = TRUE, !.cal = NoCal,
                                            !.mode = "brew", !.ready = 0])
               PROVE  Step
    BY DEF SaveCalibration
  <1> DEFINE s == Renewed(id)
             offset == Reference - s.cal.candidate
             bad == [s EXCEPT !.failCal = FALSE]
             t == [s EXCEPT !.offset = offset, !.recorded = TRUE, !.cal = NoCal, !.mode = "brew", !.ready = 0]
  <1>1. Fine(s) /\ Keeps(m, s)
    BY RenewedIsFine
  <1>2. Answer(s) \/ Answer(bad) \/ (s.cal # NoCal /\ Answer(t))
    BY DEF Owns
  <1> HIDE DEF s
  <1>3. Fine(bad) /\ Keeps(m, bad)
    <2>1. Same(s, bad, {"failCal"})
      BY <1>1, FineFields DEF Same
    <2>2. QED
      BY <1>1, <2>1, FineKept, KeepsKeeps DEF Same
  <1>4. ASSUME s.cal # NoCal PROVE Fine(t) /\ Keeps(m, t)
    <2>1. /\ Same(s, t, {"offset", "recorded", "cal", "mode", "ready"})
          /\ t.offset = offset /\ t.recorded = TRUE /\ t.cal = NoCal /\ t.mode = "brew"
      BY <1>1, FineFields DEF Same, Fields
    <2>2. offset \in OffsetRange
      BY <1>1, <1>4, CalTyped, RangesAssumption
    <2> HIDE DEF t, offset
    <2>3. Sound(t)
      BY <1>1, <2>1, <2>2, CalEmpty DEF Same, Fields, SettingsOK, Sound, Running, Good, Fine
    <2>4. s.mode = "brew"
      BY <1>1, <1>4 DEF Fine, Good, Sound
    <2>5. Keeps(s, t)
      BY <2>1 DEF Same, Fields, Keeps, Hardens, FailedFaults
    <2>6. QED
      BY <1>1, <2>1, <2>3, <2>4, <2>5, KeepsKeeps DEF Same, Fields, Good, Running, Cooling, TimerOK, Fine
  <1> HIDE DEF bad, t
  <1>5. QED
    BY <1>1, <1>2, <1>3, <1>4, AnswerKeeps

LEMMA CancelKeeps == IInv /\ CancelCalibration => Step
  <1> SUFFICES ASSUME IInv, NEW id, Answer(IF Owns(id) THEN RestoreBrew(Renewed(id)) ELSE Renewed(id))
               PROVE  Step
    BY DEF CancelCalibration
  <1>1. Fine(Renewed(id)) /\ Keeps(m, Renewed(id))
    BY RenewedIsFine
  <1>2. Fine(RestoreBrew(Renewed(id))) /\ Keeps(m, RestoreBrew(Renewed(id)))
    BY <1>1, SoundRestored, GoodRestored, KeepsKeeps DEF Fine, Good
  <1>3. QED
    BY <1>1, <1>2, AnswerKeeps

(* The scale, and shots. *)
LEMMA ScaleKeeps == IInv /\ (StartScale \/ CompleteScale \/ CancelScale \/ AcknowledgeWarning) => Step
  <1> SUFFICES ASSUME IInv PROVE StartScale \/ CompleteScale \/ CancelScale \/ AcknowledgeWarning => Step
    OBVIOUS
  <1>1. ASSUME NEW t \in {[m EXCEPT !.scaleBusy = TRUE], [m EXCEPT !.calibrated = TRUE, !.scaleBusy = FALSE],
                          [m EXCEPT !.scaleBusy = FALSE], [m EXCEPT !.warning = 0]}
        PROVE  Fine(t) /\ Keeps(m, t)
    <2>1. DOMAIN m = Fields
      BY FineFields DEF IInv
    <2>2. Same(m, t, {"scaleBusy", "calibrated", "warning"})
      BY <2>1 DEF Same
    <2>3. QED
      BY <2>2, FineKept DEF Same, IInv
  <1>2. QED
    BY <1>1, ConflictKeeps, AnswerKeeps DEF StartScale, CompleteScale, CancelScale, AcknowledgeWarning

LEMMA StartShotKeeps == IInv /\ StartExtraction => Step
  <1> SUFFICES ASSUME IInv, StartExtraction PROVE Step
    OBVIOUS
  <1>1. CASE Conflict
    BY <1>1, ConflictKeeps
  <1>2. ASSUME NEW key \in Keys, NEW selection \in Profiles \cup {Manual},
               NEW cutoff \in Cutoffs \cup {NoWeight}, CanStart(m, cutoff),
               Answer([m EXCEPT
                 !.runs = @ + 1, !.end = NoEnd,
                 !.score = IF cutoff = NoWeight THEN @ ELSE NoScore,
                 !.shot = [id |-> m.runs + 1, key |-> key, selection |-> selection, elapsed |-> 0,
                           tare |-> IF cutoff = NoWeight THEN 0 ELSE m.weight,
                           cutoff |-> cutoff, fallback |-> FALSE]])
        PROVE  Step
    <2> DEFINE x == [id |-> m.runs + 1, key |-> key, selection |-> selection, elapsed |-> 0,
                     tare |-> IF cutoff = NoWeight THEN 0 ELSE m.weight,
                     cutoff |-> cutoff, fallback |-> FALSE]
               t == [m EXCEPT !.runs = @ + 1, !.end = NoEnd,
                              !.score = IF cutoff = NoWeight THEN @ ELSE NoScore, !.shot = x]
    <2>1. Answer(t)
      BY <1>2
    <2>2. /\ Same(m, t, {"runs", "end", "score", "shot"}) /\ t.runs = m.runs + 1 /\ t.end = NoEnd
          /\ t.score \in {m.score, NoScore} /\ t.shot = x
      BY FineFields DEF Same, Fields, IInv
    <2>3. Pouring(x) /\ x.elapsed = 0
      BY DEF Pouring, ShotFields, IInv, Fine, Good, Sound, SettingsOK
    <2>4. ShotOK(x) /\ t.runs \in Nat
      BY <2>2, <2>3, TotalIsNat DEF ShotOK, IInv, Fine, Good, Sound, SettingsOK
    <2>5. EndOK(t.end) /\ ScoreOK(t.score)
      BY <2>2 DEF EndOK, ScoreOK, IInv, Fine, Good, Sound
    <2>6. m.mode = "brew" /\ ~Cooling(m)
      BY <1>2 DEF CanStart
    <2> HIDE DEF x, t
    <2>7. Sound(t)
      BY <2>2, <2>4, <2>5, <2>6 DEF Same, Fields, SettingsOK, Sound, Running, Good, Fine, IInv
    <2>8. Fine(t)
      BY <2>2, <2>6, <2>7 DEF Same, Fields, Good, Running, Cooling, TimerOK, Fine, IInv
    <2>9. Moves(m, t)
      BY <1>2, <2>2, <2>3 DEF CanStart, Running, Same, Fields, Moves, Pours, Hardens, FailedFaults
    <2>10. QED
      BY <2>1, <2>8, <2>9, AnswerMoves
  <1>3. QED
    BY <1>1, <1>2 DEF StartExtraction

LEMMA StopShotKeeps == IInv /\ StopExtraction => Step
  <1> SUFFICES ASSUME IInv, StopExtraction PROVE Step
    OBVIOUS
  <1>1. Running(m) /\ Good(m) /\ TimerOK(m)
    BY DEF StopExtraction, IInv, Fine
  <1>2. Fine(FinishPlain(m, "stopped")) /\ Moves(m, FinishPlain(m, "stopped"))
    BY <1>1, PourEnded DEF Fine, Moves, Pours, Goes
  <1>3. Fine(FinishWeighted(m, "stopped")) /\ Moves(m, FinishWeighted(m, "stopped"))
    BY <1>1, RunningPours, PourWeighed DEF Fine, Same, Schema!Completions, Moves, Pours, Goes
  <1>4. QED
    BY <1>2, <1>3, AnswerMoves DEF StopExtraction

(* The cooldown and the update. *)
LEMMA StartCooldownKeeps == IInv /\ StartCooldown => Step
  <1> SUFFICES ASSUME IInv, StartCooldown PROVE Step
    OBVIOUS
  <1>1. CASE Conflict
    BY <1>1, ConflictKeeps
  <1>2. ASSUME NEW key \in Keys, m.cal = NoCal, CanCool(m), Answer(CooldownStarted(m, key))
        PROVE  Step
    <2> DEFINE c == [NoCooldown EXCEPT !.status = "pumping", !.key = key, !.target = m.targets.brew]
               t == [m EXCEPT !.cool = c, !.mode = "brew", !.ready = 0, !.left = None]
               bad == [t EXCEPT !.armed = @ \ (IF "heater-off" \in m.armed THEN {} ELSE {"pump-running"})]
    <2>1. CooldownStarted(m, key) = IF "heater-off" \in m.armed \/ "pump-running" \in m.armed
                                    THEN AbortCooldown(bad) ELSE t
      BY DEF CooldownStarted
    <2>2. m.targets.brew \in BrewRange
      BY DEF IInv, Fine, Good, Sound, SettingsOK, TargetRecords
    <2>3. c \in CoolRecords({"pumping"}, {"none"})
      <3>1. 0 \in 0..PumpLimit /\ 0 \in 0..Stabilization
        BY LimitsAssumption
      <3>2. QED
        BY <2>2, <3>1 DEF CoolRecords, NoCooldown
    <2>4. CoolOK(c)
      BY <2>3 DEF CoolOK
    <2>5. /\ Same(m, t, {"cool", "mode", "ready", "left"}) /\ t.cool = c /\ t.mode = "brew" /\ t.left = None
      BY FineFields DEF Same, Fields, IInv
    <2> HIDE DEF c, t
    <2>6. Sound(t)
      BY <1>2, <2>4, <2>5 DEF Same, Fields, SettingsOK, Sound, Running, Good, Fine, IInv
    <2>7. ~Running(m) /\ m.fault = "none"
      BY <1>2 DEF CanCool, Workflow
    <2>8. Fine(t) /\ Keeps(m, t)
      <3>1. Fine(t)
        BY <2>5, <2>6, <2>7 DEF Same, Fields, Good, Running, TimerOK, Fine
      <3>2. t.cool.outcome # "failed"
        BY <2>3, <2>5 DEF CoolRecords
      <3>3. QED
        BY <2>5, <3>1, <3>2 DEF Same, Fields, Keeps, Hardens, FailedFaults
    <2>9. Fine(bad) /\ Keeps(m, bad) /\ bad.fault = "none"
      <3>1. Same(t, bad, {"armed"})
        BY <2>8, FineFields DEF Same
      <3>2. bad.fault = "none"
        BY <2>5, <2>7, <3>1 DEF Same, Fields
      <3>3. QED
        BY <2>8, <3>1, <3>2, FineKept, KeepsKeeps DEF Same
    <2> HIDE DEF bad
    <2>10. Fine(AbortCooldown(bad)) /\ Keeps(m, AbortCooldown(bad))
      BY <2>9, CooldownAborted, KeepsKeeps DEF Fine, Good
    <2>11. QED
      BY <1>2, <2>1, <2>8, <2>10, AnswerKeeps
  <1>3. QED
    BY <1>1, <1>2 DEF StartCooldown

LEMMA StopCooldownKeeps == IInv /\ StopCooldown => Step
  BY StabilizationEntered, AnswerKeeps DEF IInv, Fine, StopCooldown, Answered

LEMMA UpdateKeeps == IInv /\ (UpdateFirmware \/ Hashed) => Step
  <1> SUFFICES ASSUME IInv, UpdateFirmware \/ Hashed PROVE Step
    OBVIOUS
  <1>1. ASSUME NEW s, Fine(s), Keeps(m, s), NEW b, m' = [s EXCEPT !.hashing = b] PROVE Step
    <2>1. Same(s, m', {"hashing"})
      BY <1>1, FineFields DEF Same
    <2>2. QED
      BY <1>1, <2>1, FineKept, KeepsKeeps, KeptMoves DEF Same, IInv, Step
  <1>2. CASE UpdateFirmware
    BY <1>1, <1>2, ExpiredIsFine DEF UpdateFirmware
  <1>3. CASE Hashed
    <2>1. PICK matches \in BOOLEAN :
            m' = [(IF matches THEN SetHeater(m, FALSE) ELSE m) EXCEPT !.hashing = FALSE]
      BY <1>3 DEF Hashed
    <2> DEFINE s == IF matches THEN SetHeater(m, FALSE) ELSE m
    <2>2. Fine(s) /\ Keeps(m, s)
      BY HeaterSet, Unmoved DEF IInv
    <2>3. QED
      BY <1>1, <2>1, <2>2
  <1>4. QED
    BY <1>2, <1>3

(* Time, and the control routes. *)
LEMMA AdvanceKeeps == IInv /\ Advance => Step
  <1> SUFFICES ASSUME IInv, Advance PROVE Step
    OBVIOUS
  <1> DEFINE heated == AdvanceClock(AdvanceTemperature(m))
             safe == EvaluateSafety(ExpireCalibration(heated))
             poured == AdvanceSettling(AdvanceShot(safe))
             cooled == EndSoak(AdvanceCooldown(poured))
  <1>1. m' = RefreshSteam(TrackSteamReady(TrackReady(cooled)))
    BY DEF Advance
  <1>2. Good(heated) /\ Keeps(m, heated)
    BY TemperatureAdvanced, ClockAdvanced, KeepsKeeps DEF IInv, Fine
  <1> HIDE DEF heated
  <1>3. Good(safe) /\ Keeps(m, safe)
    BY <1>2, CalibrationExpired, SafetyEvaluated, KeepsKeeps
  <1> HIDE DEF safe
  <1>4. Good(poured) /\ Moves(m, poured)
    BY <1>3, ShotAdvanced, SettlingAdvanced, KeepsMoves
  <1> HIDE DEF poured
  <1>5. Good(cooled) /\ Moves(m, cooled)
    BY <1>4, CooldownAdvanced, SoakEnded, Unmoved, KeepsMoves
  <1> HIDE DEF cooled
  <1>6. IInv' /\ Keeps(cooled, m')
    BY <1>1, <1>5, ReadyTracked, SteamReadyTracked, SteamRefreshed, KeepsKeeps DEF IInv, Fine
  <1>7. QED
    BY <1>5, <1>6, Unmoved, KeepsMoves DEF Step

LEMMA TemperatureKeeps == IInv /\ SetTemperature => Step
  <1> SUFFICES ASSUME IInv, NEW raw,
                      LET s == [m EXCEPT !.raw = raw]
                          c == IF Effective(s) <= s.cool.target
                               THEN EnterStabilization(s, "target-reached") ELSE s
                          e == EvaluateSafety(c)
                      IN m' = (IF AtTarget(e) THEN e ELSE [e EXCEPT !.ready = 0])
               PROVE  Step
    BY DEF SetTemperature
  <1> DEFINE s == [m EXCEPT !.raw = raw]
             c == IF Effective(s) <= s.cool.target THEN EnterStabilization(s, "target-reached") ELSE s
             e == EvaluateSafety(c)
  <1>1. m' = IF AtTarget(e) THEN e ELSE [e EXCEPT !.ready = 0]
    OBVIOUS
  <1>2. Fine(s) /\ Keeps(m, s)
    <2>1. Same(m, s, {"raw"})
      BY FineFields DEF Same, IInv
    <2>2. QED
      BY <2>1, FineKept DEF Same, IInv
  <1> HIDE DEF s
  <1>3. Fine(c) /\ Keeps(m, c)
    BY <1>2, StabilizationEntered, KeepsKeeps DEF Fine, Answered
  <1> HIDE DEF c
  <1>4. Fine(e) /\ Keeps(m, e)
    BY <1>3, SafetyEvaluated, KeepsKeeps DEF Fine
  <1> HIDE DEF e
  <1>5. Fine([e EXCEPT !.ready = 0]) /\ Keeps(m, [e EXCEPT !.ready = 0])
    <2>1. Same(e, [e EXCEPT !.ready = 0], {"ready"})
      BY <1>4, FineFields DEF Same
    <2>2. QED
      BY <1>4, <2>1, FineKept, KeepsKeeps DEF Same
  <1>6. QED
    BY <1>1, <1>4, <1>5, KeptMoves DEF IInv, Step

LEMMA WeightKeeps == IInv /\ SetScale => Step
  <1> SUFFICES ASSUME IInv, NEW available, NEW stable, NEW weight,
                      m' = EvaluateWeight([m EXCEPT !.available = available, !.stable = stable,
                                                    !.weight = weight])
               PROVE  Step
    BY DEF SetScale
  <1> DEFINE t == [m EXCEPT !.available = available, !.stable = stable, !.weight = weight]
  <1>1. Same(m, t, {"available", "stable", "weight"})
    BY FineFields DEF Same, IInv
  <1>2. Fine(t) /\ Keeps(m, t)
    BY <1>1, FineKept DEF Same, IInv
  <1>3. m' = EvaluateWeight(t)
    OBVIOUS
  <1> HIDE DEF t
  <1>4. IInv' /\ Moves(t, m')
    BY <1>2, <1>3, WeightEvaluated DEF Fine, IInv, Moves, Pours
  <1>5. QED
    BY <1>2, <1>4, Unmoved, KeepsMoves DEF Step

LEMMA FailuresKeep == IInv /\ (PutFault \/ FailNext \/ CorruptStorage) => Step
  <1> SUFFICES ASSUME IInv, PutFault \/ FailNext \/ CorruptStorage PROVE Step
    OBVIOUS
  <1>1. CASE PutFault
    BY <1>1, FaultInjected, KeptMoves DEF PutFault, IInv, Fine, Schema!FaultCodes, Step
  <1>2. CASE FailNext \/ CorruptStorage
    <2>1. DOMAIN m = Fields
      BY FineFields DEF IInv
    <2>2. Same(m, m', {"armed", "failCal", "failSteam", "calCorrupt", "steamCorrupt"})
      BY <1>2, <2>1 DEF Same, FailNext, CorruptStorage
    <2>3. QED
      BY <2>2, FineKept, KeptMoves DEF Same, IInv, Step
  <1>3. QED
    BY <1>1, <1>2

LEMMA PowerKeeps == IInv /\ (PowerCycle \/ Reset) => IInv' /\ Blank(m')
  <1> SUFFICES ASSUME IInv, PowerCycle \/ Reset PROVE IInv' /\ Blank(m')
    OBVIOUS
  <1>1. CASE PowerCycle
    BY <1>1, Restarted DEF PowerCycle, IInv, Fine
  <1>2. CASE Reset
    <2> DEFINE v == ResetVolatile(m)
    <2>1. Fine(v) /\ Blank(v)
      BY VolatileReset DEF IInv, Fine, Good, Sound
    <2>2. m' = [v EXCEPT !.targets = FactoryTargets, !.calibrated = FALSE, !.offset = 0,
                         !.recorded = FALSE, !.calCorrupt = FALSE, !.steam = FactorySteam,
                         !.steamCorrupt = FALSE]
      BY <1>2 DEF Reset
    <2>3. v.left = None
      BY FineFields DEF ResetVolatile, Fields, IInv
    <2> HIDE DEF v
    <2>4. /\ Same(v, m', {"targets", "calibrated", "offset", "recorded", "calCorrupt", "steam",
                            "steamCorrupt"})
          /\ m'.targets = FactoryTargets /\ m'.offset = 0 /\ m'.recorded = FALSE /\ m'.steam = FactorySteam
      BY <2>1, <2>2, FineFields DEF Same, Fields
    <2>5. FactoryTargets \in TargetRecords /\ FactorySteam \in SteamRecords /\ 0 \in OffsetRange
      BY RequestsAssumption, RangesAssumption DEF TargetRecords, SteamRecords
    <2>6. Sound(m')
      BY <2>1, <2>4, <2>5 DEF Same, Fields, SettingsOK, Sound, Running, Good, Fine
    <2>7. Fine(m') /\ Blank(m')
      BY <2>1, <2>3, <2>4, <2>6 DEF Same, Fields, Good, Running, Cooling, TimerOK, Fine, Blank, FailedFaults
    <2>8. QED
      BY <2>7 DEF IInv
  <1>3. QED
    BY <1>1, <1>2

LEMMA StateKeeps == IInv /\ GetState => Step
  BY AnswerKeeps, Unmoved DEF GetState, IInv

LEMMA NextSteps ==
  IInv /\ Next => \/ Step
                  \/ IInv' /\ Dismiss /\ m'.fault = "none" /\ m'.shot = m.shot
                  \/ IInv' /\ (PowerCycle \/ Reset) /\ Blank(m')
  BY StateKeeps, SettingsKeep, ModeKeeps, HeaterKeeps, DismissKeeps, StartCalibrationKeeps, RenewKeeps,
     CandidateKeeps, SaveKeeps, CancelKeeps, ScaleKeeps, StartShotKeeps, StopShotKeeps, StartCooldownKeeps,
     StopCooldownKeeps, UpdateKeeps, AdvanceKeeps, TemperatureKeeps, WeightKeeps, FailuresKeep, PowerKeeps
     DEF Next

LEMMA NextFine == IInv /\ [Next]_vars => IInv'
  BY NextSteps DEF Step, IInv, vars

-----------------------------------------------------------------------------
(* The machine of SimulatorMachine is well-formed after every request and every  *)
(* step of time: its targets, steam settings and offset are within the ranges of *)
(* the protocol, a calibration and a shot are in Brew, and a cooldown is alone   *)
(* and without a fault.                                                          *)
THEOREM TypeCorrect == Spec => []IInv
  BY InitFine, NextFine, PTL DEF Spec

(* The steam timer of a state answer is the timeout now in force less the time   *)
(* since steam was ready, and is shown in Steam only, whatever settings are      *)
(* saved, modes changed and activities started while it runs.                    *)
THEOREM SteamTimerHolds == Spec => []SteamTimerIsTrue
  <1>1. IInv => SteamTimerIsTrue
    BY DEF IInv, Fine, TimerOK, SteamTimerIsTrue
  <1>2. QED
    BY <1>1, TypeCorrect, PTL

(* injectFault puts no fault in place of another, aborted cooldowns and failed   *)
(* saves included; only a dismissal that is allowed and a loss of power end one. *)
THEOREM FaultsAreKept == Spec => FaultIsKept
  <1> DEFINE Stays == m.fault # "none" /\ m'.fault # m.fault =>
                       \/ Dismissable(m) /\ m'.fault = "none"
                       \/ PowerCycle \/ Reset
  <1>1. IInv /\ [Next]_vars => [Stays]_vars
    BY NextSteps DEF Step, Moves, Hardens, Dismiss, vars
  <1>2. QED
    BY <1>1, TypeCorrect, PTL DEF Spec, FaultIsKept

(* A step of the machine is at most one step of a shot, which is at most one     *)
(* step of the promise.                                                          *)
LEMMA NextPours == IInv /\ [Next]_vars => Pours(m.shot, m'.shot)
  BY NextSteps DEF Step, Moves, Pours, Goes, Blank, vars

LEMMA PhasesFollow ==
  ASSUME NEW s, NEW t, Pouring(s.shot), Pouring(t.shot), t.shot.selection = s.shot.selection,
         t.shot.elapsed \in {s.shot.elapsed, s.shot.elapsed + 1}
  PROVE  \/ Phase(t) = Phase(s)
         \/ Phase(s) = "pre-infusion" /\ Phase(t) \in {"soak", "main-extraction"}
         \/ Phase(s) = "soak" /\ Phase(t) = "main-extraction"
  <1>1. CASE s.shot.selection = Manual
    BY <1>1 DEF Phase
  <1>2. CASE s.shot.selection \in Profiles
    <2>1. /\ s.shot.selection.pre \in Nat /\ s.shot.selection.soak \in Nat
          /\ s.shot.selection # Manual /\ s.shot.elapsed \in Nat
      BY <1>2, RequestsAssumption, LimitsAssumption DEF Schema!Profile, Pouring
    <2>2. QED
      BY <2>1 DEF Phase
  <1>3. QED
    BY <1>1, <1>2 DEF Pouring

LEMMA PhaseBegins ==
  ASSUME NEW s, Pouring(s.shot), s.shot.elapsed = 0
  PROVE  Phase(s) \in {"manual", "pre-infusion", "main-extraction"}
  <1>1. CASE s.shot.selection \in Profiles \ {Manual}
    <2>1. /\ s.shot.selection.pre \in Nat /\ s.shot.selection.soak \in Nat
          /\ s.shot.selection.pre = 0 => s.shot.selection.soak = 0
      BY <1>1, RequestsAssumption, LimitsAssumption DEF Schema!Profile
    <2>2. QED
      BY <2>1 DEF Phase
  <1>2. QED
    BY <1>1 DEF Phase, Pouring

(* The simulator's shots implement Shot, the promise the firmware's extraction   *)
(* controller implements too: the phases of a profile come in their order, each  *)
(* with its pump command, and a shot that has ended commands the pump off.       *)
THEOREM PumpImplemented == Spec => PumpPromise
  <1> DEFINE phase == IF Running(m) THEN Underscored(Phase(m)) ELSE "idle"
             pump == IF Running(m) THEN PumpCommand(m) ELSE "off"
  <1>1. Init => Promise!Init
    BY DEF Init, Promise!Init, Running
  <1>2. ASSUME IInv, [Next]_vars PROVE [Promise!Next]_<<phase, pump>>
    <2>1. Pours(m.shot, m'.shot)
      BY <1>2, NextPours
    <2>2. CASE m'.shot = m.shot
      BY <2>2 DEF Running, Phase, PumpCommand
    <2>3. CASE m'.shot = NoShot /\ m.shot # NoShot
      <3>1. phase' = "idle" /\ pump' = "off" /\ phase # "idle"
        BY <2>3 DEF Running, Phase, Underscored
      <3>2. QED
        BY <3>1 DEF Promise!Next, Promise!End
    <2>4. CASE m.shot = NoShot /\ Pouring(m'.shot) /\ m'.shot.elapsed = 0
      <3>1. Phase(m)' \in {"manual", "pre-infusion", "main-extraction"} /\ Running(m)'
        BY <2>4, PhaseBegins DEF Running, Pouring, NoShot, Phase
      <3>2. phase = "idle" /\ pump = "off" /\ phase' \in Promise!First /\ pump' = Promise!Command(phase')
        BY <2>4, <3>1 DEF Running, Underscored, PumpCommand, Promise!First, Promise!Command
      <3>3. QED
        BY <3>2 DEF Promise!Next, Promise!Begin
    <2>5. CASE /\ Pouring(m.shot) /\ Pouring(m'.shot) /\ m'.shot.selection = m.shot.selection
               /\ m'.shot.elapsed \in {m.shot.elapsed, m.shot.elapsed + 1}
      <3>1. Running(m) /\ Running(m')
        BY <2>5 DEF Running, Pouring, NoShot
      <3>2. \/ Phase(m') = Phase(m)
            \/ Phase(m) = "pre-infusion" /\ Phase(m') \in {"soak", "main-extraction"}
            \/ Phase(m) = "soak" /\ Phase(m') = "main-extraction"
        BY <2>5, PhasesFollow
      <3>3. /\ phase = Underscored(Phase(m)) /\ phase' = Underscored(Phase(m'))
            /\ pump = PumpCommand(m) /\ pump' = PumpCommand(m')
        BY <3>1
      <3> HIDE DEF phase, pump
      <3>4. CASE Phase(m') = Phase(m)
        BY <3>3, <3>4 DEF PumpCommand
      <3>5. CASE Phase(m') # Phase(m)
        <4>1. /\ pump = Promise!Command(phase) /\ phase' \in Promise!After(phase)
              /\ pump' = Promise!Command(phase')
          BY <3>2, <3>3, <3>5 DEF Underscored, PumpCommand, Promise!Command, Promise!After
        <4>2. QED
          BY <4>1 DEF Promise!Next, Promise!Advance, phase, pump
      <3>6. QED
        BY <3>4, <3>5 DEF phase, pump
    <2>6. QED
      BY <2>1, <2>2, <2>3, <2>4, <2>5 DEF Pours, Goes, Pouring
  <1>3. QED
    BY <1>1, <1>2, TypeCorrect, PTL DEF Spec, PumpPromise, Promise!SafeSpec

-----------------------------------------------------------------------------
(* The answers: each part of a state answer fits its schema.                     *)
LEMMA QuotientBound ==
  ASSUME NEW c \in Nat, NEW d \in Nat \ {0}, NEW p \in Nat, p <= c * d
  PROVE  p \div d \in 0..c
  <1> DEFINE q == p \div d
  <1>1. q \in Int /\ q * d <= p /\ p < q * d + d
    OBVIOUS
  <1> HIDE DEF q
  <1>2. q >= 0
    <2>1. ASSUME q < 0 PROVE FALSE
      <3>1. q + 1 <= 0 /\ (q + 1) * d = q * d + d
        BY <1>1, <2>1
      <3>2. (q + 1) * d <= 0
        BY <1>1, <3>1
      <3>3. QED
        BY <1>1, <3>1, <3>2
    <2>2. QED
      BY <1>1, <2>1
  <1>3. q <= c
    <2>1. ASSUME q > c PROVE FALSE
      <3>1. (c + 1) * d = c * d + d
        OBVIOUS
      <3>2. (c + 1) * d <= q * d
        BY <1>1, <2>1
      <3>3. QED
        BY <1>1, <3>1, <3>2
    <2>2. QED
      BY <1>1, <2>1
  <1>4. q \in 0..c
    BY <1>1, <1>2, <1>3
  <1>5. QED
    BY <1>4 DEF q

LEMMA LiftBound ==
  ASSUME NEW s, Good(s) PROVE SteamLift(s) \in 0..MaxCompensation
  <1>1. /\ s.steam.compensation \in 0..MaxCompensation /\ s.steam.decay \in Nat \ {0} /\ s.soak \in Ages
        /\ MaxCompensation \in Nat
    BY LimitsAssumption DEF Good, Sound, SettingsOK, SteamRecords
  <1>2. CASE s.soak = None \/ s.soak >= s.steam.decay
    BY <1>1, <1>2 DEF SteamLift
  <1>3. CASE s.soak # None /\ ~(s.soak >= s.steam.decay)
    <2> DEFINE c == s.steam.compensation
               d == s.steam.decay
               p == c * (d - s.soak)
    <2>1. c \in Nat /\ c <= MaxCompensation /\ d \in Nat \ {0} /\ s.soak \in Nat /\ s.soak < d
      BY <1>1, <1>3 DEF Ages
    <2> HIDE DEF c, d
    <2>2. ASSUME NEW e \in Nat, e <= d PROVE c * e \in Nat /\ c * e <= c * d
      BY <2>1, <2>2
    <2>3. p \in Nat /\ p <= c * d
      BY <2>1, <2>2
    <2> HIDE DEF p
    <2>4. p \div d \in 0..c
      BY <2>1, <2>3, QuotientBound
    <2>5. SteamLift(s) = p \div d
      BY <1>3 DEF SteamLift, p, c, d
    <2>6. QED
      BY <1>1, <2>1, <2>4, <2>5
  <1>4. QED
    BY <1>2, <1>3

LEMMA MaxOfInterval ==
  ASSUME NEW S, S \subseteq Nat, Interval(S)
  PROVE  Max(S) \in S /\ \A x \in S : x <= Max(S)
  <1>1. PICK low \in S, high \in S : S = low..high
    BY DEF Interval
  <1>2. high \in S /\ \A y \in S : high >= y
    BY <1>1
  <1>3. Max(S) \in S /\ \A y \in S : Max(S) >= y
    BY <1>2 DEF Max
  <1>4. QED
    BY <1>3

LEMMA LeastInInterval ==
  ASSUME NEW S, S \subseteq Nat, Interval(S), NEW x \in Int, \E y \in S : y <= x
  PROVE  Least(Max(S), x) \in S
  <1>1. PICK low \in S, high \in S : S = low..high
    BY DEF Interval
  <1>2. Max(S) \in S
    BY MaxOfInterval
  <1>3. QED
    BY <1>1, <1>2 DEF Least

LEMMA BoundsFit ==
  ASSUME NEW offset \in OffsetRange PROVE Schema!Bounds(SafeBounds(offset))
  <1>1. RawOver + offset \in Int
    BY RangesAssumption
  <1>2. Least(Max(BrewRange), RawOver + offset) \in BrewRange
    BY <1>1, RangesAssumption, LeastInInterval
  <1>3. Least(Max(SteamRange), RawOver + offset) \in SteamRange
    BY <1>1, RangesAssumption, LeastInInterval
  <1>4. QED
    BY <1>2, <1>3 DEF Schema!Bounds, SafeBounds

LEMMA MachineFits ==
  ASSUME NEW s, Fine(s) PROVE Schema!Machine(State(s))
  <1> DEFINE r == State(s)
  <1>1. r.mode \in Schema!Modes /\ r.brew \in BrewRange /\ r.steam \in SteamRange
    BY DEF State, Schema!Modes, Fine, Good, Sound, SettingsOK, TargetRecords
  <1>2. r.remaining \in Schema!Nullable(0..MaxTimeout)
    <2>1. CASE s.left = None
      BY <2>1 DEF State, OrNull, Schema!Nullable
    <2>2. CASE s.left # None
      <3>1. s.readyAt \in Nat /\ s.steam.timeout \in 1..MaxTimeout
        BY <2>2 DEF Fine, TimerOK, Good, Sound, SettingsOK, Ages, SteamRecords
      <3>2. s.left \in 0..MaxTimeout
        BY <2>2, <3>1, LimitsAssumption DEF Fine, TimerOK
      <3>3. QED
        BY <2>2, <3>2 DEF State, OrNull, Schema!Nullable
    <2>3. QED
      BY <2>1, <2>2
  <1>3. Schema!SteamControl(r.control)
    <2> DEFINE lift == IF s.mode = "steam" THEN SteamLift(s) ELSE 0
    <2>1. lift \in 0..MaxCompensation
      BY LiftBound, LimitsAssumption DEF Fine
    <2>2. r.control = [applied |-> lift, compensating |-> lift > 0, soak |-> OrNull(s.soak)]
      BY DEF State
    <2>3. OrNull(s.soak) \in Schema!Nullable(Nat)
      BY DEF OrNull, Schema!Nullable, Fine, Good, Sound, SettingsOK, Ages
    <2> HIDE DEF lift, r
    <2>4. QED
      BY <2>1, <2>2, <2>3 DEF Schema!SteamControl
  <1>4. \/ r.status \in {"heating", "ready"} /\ r.fault = Null
        \/ r.status = "fault" /\ r.fault \in Schema!FaultCodes /\ ~r.heaterActive
    <2>1. CASE s.fault = "none"
      BY <2>1 DEF State
    <2>2. CASE s.fault # "none"
      BY <2>2 DEF State, HeaterActive, Fine, Good, Sound, SettingsOK
    <2>3. QED
      BY <2>1, <2>2
  <1> HIDE DEF r
  <1>5. Schema!Machine(r)
    BY <1>1, <1>2, <1>3, <1>4 DEF Schema!Machine
  <1>6. QED
    BY <1>5 DEF r

LEMMA CalibrationFits ==
  ASSUME NEW s, Fine(s) PROVE Schema!CalibrationState(CalibrationState(s))
  <1> DEFINE c == CalibrationState(s)
  <1>1. c.offset \in OffsetRange /\ Schema!Bounds(c.bounds) /\ c.offset = s.offset
    BY BoundsFit DEF CalibrationState, Fine, Good, Sound, SettingsOK
  <1>2. CASE s.cal = NoCal
    <2>1. c.status = IF s.recorded THEN "calibrated" ELSE "uncalibrated"
      BY <1>2 DEF CalibrationState
    <2>2. (~s.recorded) => s.offset = 0
      BY DEF Fine, Good, Sound, SettingsOK
    <2> HIDE DEF c
    <2>3. QED
      <3>1. Schema!CalibrationState(c)
        BY <1>1, <2>1, <2>2 DEF Schema!CalibrationState
      <3>2. QED
        BY <3>1 DEF c
  <1>3. CASE s.cal # NoCal
    <2>1. s.cal.candidate \in CandidateRange /\ s.cal.idle \in 0..Lease
      BY <1>3, CalTyped
    <2>2. Reference - s.cal.candidate \in OffsetRange
      BY <2>1, RangesAssumption
    <2>3. /\ c.status = "calibrating" /\ c.candidate = s.cal.candidate
          /\ c.preview = Reference - s.cal.candidate /\ c.leased = Lease - s.cal.idle
          /\ c.previewBounds = SafeBounds(Reference - s.cal.candidate)
      BY <1>3 DEF CalibrationState
    <2>4. c.leased \in 0..Lease
      BY <2>1, <2>3, LimitsAssumption
    <2> HIDE DEF c
    <2>5. Schema!CalibrationState(c)
      BY <1>1, <2>1, <2>2, <2>3, <2>4, BoundsFit DEF Schema!CalibrationState
    <2>6. QED
      BY <2>5 DEF c
  <1>4. QED
    BY <1>2, <1>3

LEMMA ExtractionFits ==
  ASSUME NEW s, Fine(s) PROVE Schema!Extraction(ExtractionState(s))
  <1> DEFINE x == ExtractionState(s)
  <1>1. CASE ~Running(s)
    <2>1. CASE s.end = NoEnd
      BY <1>1, <2>1 DEF ExtractionState, Schema!Extraction, Schema!IdleExtraction
    <2>2. CASE s.end # NoEnd
      <3>1. /\ s.end.id \in Nat \ {0} /\ s.end.selection \in Profiles \cup {Manual}
            /\ s.end.outcome \in {"completed", "stopped"}
        BY <2>2 DEF Fine, Good, Sound, EndOK
      <3>2. s.end.id # Null /\ Schema!Selection(s.end.selection)
        BY <3>1, RequestsAssumption DEF Schema!Selection
      <3>3. /\ x.status = "idle" /\ x.phase = "idle" /\ x.remaining = Null /\ x.pump = "off"
            /\ x.id = s.end.id /\ x.selection = s.end.selection /\ x.outcome = s.end.outcome
        BY <1>1, <2>2 DEF ExtractionState
      <3> HIDE DEF x
      <3>4. Schema!Extraction(x)
        BY <3>1, <3>2, <3>3 DEF Schema!Extraction, Schema!IdleExtraction
      <3>5. QED
        BY <3>4 DEF x
    <2>3. QED
      BY <2>1, <2>2
  <1>2. CASE Running(s)
    <2>1. Pouring(s.shot) /\ s.shot.elapsed < Total(s.shot) /\ Total(s.shot) \in 1..ShotLimit
      BY <1>2, RunningPours, TotalIsNat DEF Fine
    <2>2. Duration(s) = Total(s.shot) /\ ShotLimit \in Nat
      BY LimitsAssumption DEF Duration, Total
    <2>3. /\ x.status = "running" /\ x.elapsed = s.shot.elapsed /\ x.phase = Phase(s)
          /\ x.selection = s.shot.selection /\ x.pump = IF Phase(s) = "soak" THEN "off" ELSE "running"
          /\ x.remaining = IF Duration(s) = ShotLimit THEN ShotLimit - s.shot.elapsed
                           ELSE Least(Duration(s), Duration(s) - s.shot.elapsed)
      BY <1>2 DEF ExtractionState, PumpCommand
    <2> HIDE DEF x
    <2>4. x.elapsed \in 0..ShotLimit /\ x.remaining \in 0..ShotLimit
      <3>1. s.shot.elapsed \in Nat
        BY <2>1 DEF Pouring
      <3>2. QED
        BY <2>1, <2>2, <2>3, <3>1 DEF Least
    <2>5. \/ x.selection = Manual /\ x.phase = "manual" /\ x.pump = "running"
          \/ /\ x.selection # Manual /\ Schema!Selection(x.selection)
             /\ \/ x.phase \in {"pre-infusion", "main-extraction"} /\ x.pump = "running"
                \/ x.phase = "soak" /\ x.pump = "off"
      BY <2>1, <2>3, RequestsAssumption DEF Phase, Pouring, Schema!Selection
    <2>6. Schema!Extraction(x)
      BY <2>3, <2>4, <2>5 DEF Schema!Extraction, Schema!RunningExtraction
    <2>7. QED
      BY <2>6 DEF x
  <1>3. QED
    BY <1>1, <1>2

LEMMA CompensationFits ==
  ASSUME NEW s PROVE Schema!Compensation(CompensationState(s))
  BY DEF Schema!Compensation, CompensationState, Compensating

(* A cooldown's answer, field by field.                                         *)
LEMMA CooldownFields ==
  ASSUME NEW s
  PROVE  LET c == CooldownState(s) IN
         /\ c.status = IF Cooling(s) THEN s.cool.status ELSE "idle"
         /\ (Cooling(s) => c.inhibited) /\ (~Cooling(s) => ~c.inhibited) /\ c.target = OrNull(s.cool.target)
         /\ c.elapsed = IF s.cool.status = "pumping" THEN s.cool.pumped ELSE s.cool.pumped + s.cool.settled
         /\ c.id = IF s.cool = NoCooldown THEN Null ELSE s.cool.key
         /\ c.outcome = IF s.cool.outcome = "none" THEN Null ELSE s.cool.outcome
         /\ s.cool.status = "pumping" => c.remaining = PumpLimit - s.cool.pumped
         /\ s.cool.status = "stabilizing" => c.remaining = Stabilization - s.cool.settled
         /\ s.cool.status \notin {"pumping", "stabilizing"} => c.remaining = Null
  <1> DEFINE r == CASE s.cool.status = "pumping" -> PumpLimit - s.cool.pumped
                    [] s.cool.status = "stabilizing" -> Stabilization - s.cool.settled [] OTHER -> Null
             c == CooldownState(s)
  <1>1. /\ s.cool.status = "pumping" => r = PumpLimit - s.cool.pumped
        /\ s.cool.status = "stabilizing" => r = Stabilization - s.cool.settled
        /\ s.cool.status \notin {"pumping", "stabilizing"} => r = Null
    OBVIOUS
  <1>2. c.remaining = r
    BY DEF CooldownState
  <1>3. /\ c.status = IF Cooling(s) THEN s.cool.status ELSE "idle"
        /\ (Cooling(s) => c.inhibited) /\ (~Cooling(s) => ~c.inhibited) /\ c.target = OrNull(s.cool.target)
        /\ c.elapsed = IF s.cool.status = "pumping" THEN s.cool.pumped ELSE s.cool.pumped + s.cool.settled
        /\ c.id = IF s.cool = NoCooldown THEN Null ELSE s.cool.key
        /\ c.outcome = IF s.cool.outcome = "none" THEN Null ELSE s.cool.outcome
    BY DEF CooldownState
  <1> HIDE DEF c, r
  <1>4. QED
    BY <1>1, <1>2, <1>3 DEF c

LEMMA CooldownFits ==
  ASSUME NEW s, Fine(s) PROVE Schema!Cooldown(CooldownState(s))
  <1> DEFINE c == CooldownState(s)
  <1>0. /\ PumpLimit \in Nat /\ Stabilization \in Nat /\ BrewRange \subseteq Nat /\ Null \notin Keys
        /\ CoolOK(s.cool)
    BY LimitsAssumption, RangesAssumption, RequestsAssumption DEF Fine, Good, Sound
  <1>1. CASE s.cool = NoCooldown
    <2>1. /\ c.status = "idle" /\ c.remaining = Null /\ ~c.inhibited /\ c.id = Null /\ c.target = Null
          /\ c.elapsed = 0 /\ c.outcome = Null
      BY <1>1, CooldownFields DEF Cooling, NoCooldown, OrNull
    <2> HIDE DEF c
    <2>2. Schema!Cooldown(c)
      BY <2>1 DEF Schema!Cooldown
    <2>3. QED
      BY <2>2 DEF c
  <1>2. CASE s.cool \in CoolRecords({"pumping"}, {"none"})
    <2>1. /\ s.cool.status = "pumping" /\ s.cool.outcome = "none" /\ s.cool.target \in BrewRange
          /\ s.cool.pumped \in 0..PumpLimit
      BY <1>2 DEF CoolRecords
    <2>2. /\ c.status = "pumping" /\ c.inhibited /\ c.target = s.cool.target /\ c.outcome = Null
          /\ c.elapsed = s.cool.pumped /\ c.remaining = PumpLimit - s.cool.pumped
      BY <1>0, <2>1, CooldownFields DEF None, Cooling, OrNull
    <2> HIDE DEF c
    <2>3. c.remaining \in 0..PumpLimit /\ c.elapsed + c.remaining = PumpLimit
      BY <1>0, <2>1, <2>2
    <2>4. Schema!Cooldown(c)
      BY <2>1, <2>2, <2>3 DEF Schema!Cooldown
    <2>5. QED
      BY <2>4 DEF c
  <1>3. CASE s.cool \in CoolRecords({"stabilizing"}, Answered)
    <2>1. /\ s.cool.status = "stabilizing" /\ s.cool.outcome \in Answered /\ s.cool.target \in BrewRange
          /\ s.cool.pumped \in 0..PumpLimit /\ s.cool.settled \in 0..Stabilization
      BY <1>3 DEF CoolRecords
    <2>2. /\ c.status = "stabilizing" /\ c.inhibited /\ c.target = s.cool.target /\ c.outcome = s.cool.outcome
          /\ c.elapsed = s.cool.pumped + s.cool.settled /\ c.remaining = Stabilization - s.cool.settled
      BY <1>0, <2>1, CooldownFields DEF None, Cooling, OrNull, Answered
    <2> HIDE DEF c
    <2>3. c.remaining \in 0..Stabilization /\ c.elapsed \in 0..PumpLimit + Stabilization
      BY <1>0, <2>1, <2>2
    <2>4. Schema!Cooldown(c)
      BY <2>1, <2>2, <2>3 DEF Schema!Cooldown, Answered
    <2>5. QED
      BY <2>4 DEF c
  <1>4. CASE s.cool \in CoolRecords({"terminal"}, Answered \cup {"failed"})
    <2>1. /\ s.cool.status = "terminal" /\ s.cool.outcome \in Answered \cup {"failed"}
          /\ s.cool.target \in BrewRange /\ s.cool.key \in Keys
          /\ s.cool.pumped \in 0..PumpLimit /\ s.cool.settled \in 0..Stabilization
      BY <1>4 DEF CoolRecords
    <2>2. /\ c.status = "idle" /\ ~c.inhibited /\ c.target = s.cool.target /\ c.outcome = s.cool.outcome
          /\ c.elapsed = s.cool.pumped + s.cool.settled /\ c.remaining = Null /\ c.id = s.cool.key
      BY <1>0, <2>1, CooldownFields DEF None, Cooling, OrNull, Answered, NoCooldown
    <2> HIDE DEF c
    <2>3. c.elapsed \in 0..PumpLimit + Stabilization
      BY <1>0, <2>1, <2>2
    <2>4. Schema!Cooldown(c)
      BY <1>0, <2>1, <2>2, <2>3 DEF Schema!Cooldown, Answered
    <2>5. QED
      BY <2>4 DEF c
  <1>5. QED
    BY <1>0, <1>1, <1>2, <1>3, <1>4 DEF CoolOK

LEMMA ScaleFits ==
  ASSUME NEW s, Fine(s) PROVE Schema!Scale(ScaleState(s))
  <1>1. ScoreOK(s.score)
    BY DEF Fine, Good, Sound
  <1>2. QED
    BY <1>1 DEF ScaleState, Schema!Scale, ScoreOK

LEMMA AnswerFits ==
  ASSUME NEW s, Fine(s), Schema!FailedCooldownIsFaulted(StateV3(s))
  PROVE  Schema!StateV3(StateV3(s))
  <1> DEFINE r == StateV3(s)
  <1>1. /\ r.machine = State(s) /\ r.scale = ScaleState(s) /\ r.calibration = CalibrationState(s)
        /\ r.extraction = ExtractionState(s) /\ r.compensation = CompensationState(s)
        /\ r.cooldown = CooldownState(s)
    BY DEF StateV3
  <1>2. Schema!FailedCooldownIsFaulted(r)
    OBVIOUS
  <1> HIDE DEF r
  <1>3. r.extraction.status = IF Running(s) THEN "running" ELSE "idle"
    BY <1>1 DEF ExtractionState
  <1>4. /\ r.machine.mode = s.mode /\ r.machine.heaterEnabled = s.heater
        /\ r.machine.heaterActive = HeaterActive(s) /\ (r.machine.status = "fault" <=> s.fault # "none")
    BY <1>1 DEF State
  <1>5. Schema!ExtractionInBrew(r)
    BY <1>3, <1>4 DEF Schema!ExtractionInBrew, Fine, Good, Sound
  <1>6. Schema!CompensationMatches(r)
    <2>1. ASSUME r.compensation.status = "active"
          PROVE  Compensating(s) /\ r.compensation.phase = Phase(s)
      BY <1>1, <2>1 DEF CompensationState
    <2>2. ASSUME Compensating(s) PROVE r.extraction.phase = Phase(s)
      BY <1>1, <2>2 DEF ExtractionState, Compensating
    <2>3. QED
      BY <1>3, <1>4, <2>1, <2>2 DEF Compensating, Schema!CompensationMatches
  <1>7. Schema!CooldownAlone(r)
    <2>1. ASSUME r.cooldown.status # "idle" PROVE Cooling(s)
      BY <1>1, <2>1 DEF CooldownState
    <2>2. ASSUME Cooling(s) PROVE r.compensation.status = "inactive" /\ ~HeaterActive(s)
      BY <1>1, <2>2 DEF CompensationState, Compensating, HeaterActive
    <2>3. QED
      BY <1>3, <1>4, <2>1, <2>2 DEF Schema!CooldownAlone, Fine, Good
  <1>8. Schema!FailedExtractionIsFaulted(r)
    <2>1. ASSUME ~Running(s), s.end # NoEnd PROVE s.end.outcome \in {"completed", "stopped"}
      BY <2>1 DEF Fine, Good, Sound, EndOK
    <2>2. r.extraction.status = "idle" => r.extraction.outcome \in {"completed", "stopped", Null}
      BY <1>1, <2>1 DEF ExtractionState
    <2>3. QED
      BY <2>2, RequestsAssumption DEF Schema!FailedExtractionIsFaulted
  <1>9. Schema!StateV3(r)
    BY <1>1, <1>2, <1>5, <1>6, <1>7, <1>8, MachineFits, ScaleFits, CalibrationFits, ExtractionFits,
       CompensationFits, CooldownFits DEF Schema!StateV3
  <1>10. QED
    BY <1>9 DEF r

(* Every state the simulator answers with passes the schemas of the protocol     *)
(* package that it parses it with before it is sent, but for the failed cooldown *)
(* without a fault.                                                              *)
THEOREM AnswersHold == Spec => []AnswersFit
  <1>1. IInv => AnswersFit
    BY ExpiredIsFine, AnswerFits DEF AnswersFit
  <1>2. QED
    BY <1>1, TypeCorrect, PTL

(* A failed cooldown keeps its fault from step to step unless it is dismissed.   *)
LEMMA ForgottenOnlyByDismissal ==
  (FailedFaults(m) \/ "dismiss" \in client) /\ IInv /\ [Next]_vars
    => (FailedFaults(m) \/ "dismiss" \in client)'
  <1> SUFFICES ASSUME FailedFaults(m) \/ "dismiss" \in client, IInv, [Next]_vars
               PROVE  FailedFaults(m') \/ "dismiss" \in client'
    OBVIOUS
  <1>1. client' = client
    BY DEF Next, vars, GetState, PatchSettings, PutMode, PutHeater, Dismiss, StartCalibration, RenewLease,
           PatchCandidate, SaveCalibration, CancelCalibration, StartScale, CompleteScale, CancelScale,
           AcknowledgeWarning, StartExtraction, StopExtraction, StartCooldown, StopCooldown, UpdateFirmware,
           Hashed, Advance, SetTemperature, SetScale, PutFault, FailNext, CorruptStorage, PowerCycle, Reset,
           Answer, Conflict
  <1>2. QED
    BY <1>1, NextSteps DEF Step, Moves, Hardens, Dismiss, Blank, vars

(* Among clients that do not use the dismiss route no answer shows a failed      *)
(* cooldown without a fault: dismissOverTemperature alone makes the answer that  *)
(* the schemas refuse, and with AnswersHold every other client's answers fit.    *)
THEOREM OnlyDismissalForgets == Spec => []("dismiss" \notin client => FailedCooldownFaults)
  <1>1. Init => FailedFaults(m) \/ "dismiss" \in client
    BY DEF Init, FailedFaults, NoCooldown
  <1>2. IInv /\ (FailedFaults(m) \/ "dismiss" \in client)
          => ("dismiss" \notin client => FailedCooldownFaults)
    <2> SUFFICES ASSUME IInv, FailedFaults(m) PROVE FailedCooldownFaults
      OBVIOUS
    <2> DEFINE s == ExpireCalibration(m)
    <2>1. Fine(s) /\ FailedFaults(s)
      BY ExpiredIsFine DEF Keeps, Hardens
    <2> HIDE DEF s
    <2>2. CooldownState(s).outcome = "failed" => s.cool.outcome = "failed"
      BY CooldownFields, RequestsAssumption
    <2>3. s.fault # "none" => State(s).status = "fault"
      BY DEF State
    <2>4. StateV3(s).machine = State(s) /\ StateV3(s).cooldown = CooldownState(s)
      BY DEF StateV3
    <2>5. QED
      BY <2>1, <2>2, <2>3, <2>4 DEF FailedCooldownFaults, Schema!FailedCooldownIsFaulted, FailedFaults, s
  <1>3. QED
    BY <1>1, <1>2, ForgottenOnlyByDismissal, TypeCorrect, PTL DEF Spec
-----------------------------------------------------------------------------
(* Pairing.                                                                      *)
(*                                                                               *)
(* For any phones, machines and codes, and however addresses change hands, codes *)
(* rotate and apps restart: a phone keeps credentials of the machine its user    *)
(* chose only, and a dashboard runs on the one the next launch will find.        *)
(*                                                                               *)
(* The argument: the identity a phone compares when a session starts is that of  *)
(* the session's machine, which no later step of the attempt changes (a Checked  *)
(* attempt is of the machine expected); only an attempt that went all the way is *)
(* saved, and it is over.  An attempt that is over does not change (Kept), so    *)
(* that the stored credential goes on naming it.  What a restoring screen saves  *)
(* is its stored credential at another address, which it has, whoever's scan     *)
(* found the machine (Undisturbed): while it restores it is busy, so that no     *)
(* attempt to pair and no dashboard, and so no deletion, comes in between.       *)
AttemptFields == {"phone", "expect", "at", "typed", "code", "device", "pc"}
PhoneFields == {"busy", "restore", "selected", "paired", "store", "scanning", "native", "found",
                "recovered", "op", "forget"}
CredentialFields == {"device", "client", "at"}

(* Where an attempt's identity has been compared, and the phone goes on.         *)
Checked == {"proof", "proving", "proved", "complete", "completing", "issued", "completed", "state",
            "stated"}
Expected(a) == a.expect \in {Unknown, a.device}
GoodAttempt(a) == DOMAIN a = AttemptFields /\ (a.pc \in Checked => Expected(a))
IsSeq(as) == \E S : as \in Seq(S)
AttemptsOK == IsSeq(attempt) /\ \A n \in Attempts : GoodAttempt(attempt[n])

(* A credential comes from an attempt that is over.                              *)
GoodCredential(c, as) ==
  /\ DOMAIN c = CredentialFields
  /\ c.client \in 1..Len(as)
  /\ as[c.client].pc = "over" /\ as[c.client].device = c.device /\ Expected(as[c.client])
Undisturbed(s) ==
  /\ s.native = "find" => s.restore = "find"
  /\ s.restore \in {"connect", "find", "reconnect"} => s.store # Absent
  /\ s.restore # "done" => s.busy /\ s.op = 0 /\ s.paired = Absent /\ s.forget = "none"
GoodPhone(s, as) ==
  /\ DOMAIN s = PhoneFields /\ Undisturbed(s)
  /\ s.store # Absent => GoodCredential(s.store, as)
  /\ s.paired # Absent => s.store = s.paired \/ s.forget = "cleared"
  /\ s.op # 0 => s.op \in 1..Len(as)
PhonesOK ==
  /\ DOMAIN phone = Phones
  /\ \A q \in Phones : GoodPhone(phone[q], attempt)

PairingInv == AttemptsOK /\ PhonesOK

(* What is over stays as it is.                                                  *)
Kept(as, bs) ==
  /\ 1..Len(as) \subseteq 1..Len(bs)
  /\ \A n \in 1..Len(as) : as[n].pc = "over" =>
       bs[n].pc = "over" /\ bs[n].device = as[n].device /\ bs[n].expect = as[n].expect

LEMMA PairingInitInv == PairingInit => PairingInv
  <1> SUFFICES ASSUME PairingInit PROVE PairingInv
    OBVIOUS
  <1>1. IsSeq(attempt) /\ Len(attempt) = 0
    <2>1. attempt \in Seq({}) /\ Len(attempt) = 0
      BY DEF PairingInit
    <2>2. QED
      BY <2>1 DEF IsSeq
  <1>2. AttemptsOK
    BY <1>1 DEF AttemptsOK, Attempts
  <1>3. PhonesOK
    BY DEF PairingInit, PhonesOK, GoodPhone, Undisturbed, Launched, PhoneFields
  <1>4. QED
    BY <1>2, <1>3 DEF PairingInv

-----------------------------------------------------------------------------
(* Phones that stay as they are when attempts are kept.                          *)
LEMMA PhoneKept ==
  ASSUME NEW s, NEW as, NEW bs, GoodPhone(s, as), Kept(as, bs)
  PROVE  GoodPhone(s, bs)
  BY DEF GoodPhone, GoodCredential, Kept, Expected

LEMMA PhonesKept ==
  ASSUME PairingInv, UNCHANGED phone, Kept(attempt, attempt')
  PROVE  PhonesOK'
  BY PhoneKept DEF PairingInv, PhonesOK

(* One phone's step.                                                             *)
LEMMA SetKeeps ==
  ASSUME PairingInv, NEW q \in Phones, NEW s, GoodPhone(s, attempt'), Set(q, s), Kept(attempt, attempt')
  PROVE  PhonesOK'
  <1>1. phone' = [phone EXCEPT ![q] = s] /\ DOMAIN phone = Phones
    BY DEF Set, PairingInv, PhonesOK
  <1>2. \A r \in Phones : GoodPhone(phone'[r], attempt')
    BY <1>1, PhoneKept DEF PairingInv, PhonesOK
  <1>3. QED
    BY <1>1, <1>2 DEF PhonesOK

LEMMA SameKept == Kept(attempt, attempt)
  BY DEF Kept

(* One attempt's step.                                                           *)
LEMMA ChangeKeeps ==
  ASSUME PairingInv, NEW n \in Attempts, NEW a, GoodAttempt(a),
         attempt[n].pc = "over" =>
           a.pc = "over" /\ a.device = attempt[n].device /\ a.expect = attempt[n].expect,
         attempt' = [attempt EXCEPT ![n] = a]
  PROVE  AttemptsOK' /\ Kept(attempt, attempt')
  <1>1. PICK S : attempt \in Seq(S)
    BY DEF PairingInv, AttemptsOK, IsSeq
  <1> DEFINE T == S \cup {a}
  <1>2. attempt \in Seq(T) /\ a \in T /\ n \in 1..Len(attempt)
    BY <1>1 DEF Attempts
  <1>3. /\ attempt' \in Seq(T) /\ Len(attempt') = Len(attempt)
        /\ \A k \in Attempts : attempt'[k] = IF k = n THEN a ELSE attempt[k]
    BY <1>2, ExceptSeq DEF Attempts
  <1>4. IsSeq(attempt')
    BY <1>3 DEF IsSeq
  <1>5. QED
    BY <1>3, <1>4 DEF PairingInv, AttemptsOK, Attempts, IsSeq, Kept

LEMMA ToKeeps ==
  ASSUME PairingInv, NEW n \in Attempts, NEW pc, attempt[n].pc # "over",
         pc \in Checked => Expected(attempt[n]), To(n, pc)
  PROVE  AttemptsOK' /\ Kept(attempt, attempt')
  <1> DEFINE a == [attempt[n] EXCEPT !.pc = pc]
  <1>1. GoodAttempt(attempt[n]) /\ attempt' = [attempt EXCEPT ![n] = a]
    BY DEF PairingInv, AttemptsOK, To
  <1>2. GoodAttempt(a)
    BY <1>1 DEF GoodAttempt, Expected, AttemptFields
  <1>3. QED
    BY <1>1, <1>2, ChangeKeeps

(* A step of the routes.                                                         *)
LEMMA RouteKeeps ==
  ASSUME PairingInv, NEW n \in Attempts, Route(n)
  PROVE  AttemptsOK' /\ Kept(attempt, attempt') /\ UNCHANGED phone
  <1>1. GoodAttempt(attempt[n])
    BY DEF PairingInv, AttemptsOK
  <1>2. UNCHANGED phone
    BY DEF Route, StartCheck, StartCreate, StartKeep, ProofCheck, ProofVerify, CompleteCheck,
           CompleteIssue, CompletePush, StateAnswer
  <1>3. CASE StartCheck(n)
    <2>1. PICK d, pc : /\ attempt' = [attempt EXCEPT ![n] = [attempt[n] EXCEPT !.device = d, !.pc = pc]]
                       /\ pc \in {"refused", "checked"} /\ attempt[n].pc = "start"
      BY <1>3 DEF StartCheck
    <2>2. GoodAttempt([attempt[n] EXCEPT !.device = d, !.pc = pc])
      BY <1>1, <2>1 DEF GoodAttempt, AttemptFields, Checked
    <2>3. QED
      BY <1>2, <2>1, <2>2, ChangeKeeps
  <1>4. CASE StartCreate(n)
    <2> DEFINE a == [attempt[n] EXCEPT !.pc = "created", !.code = code[attempt[n].device]]
    <2>1. attempt' = [attempt EXCEPT ![n] = a] /\ attempt[n].pc = "checked"
      BY <1>4 DEF StartCreate
    <2>2. GoodAttempt(a)
      BY <1>1 DEF GoodAttempt, AttemptFields, Checked
    <2>3. QED
      BY <1>2, <2>1, <2>2, ChangeKeeps
  <1>5. CASE ~StartCheck(n) /\ ~StartCreate(n)
    <2>1. PICK pc : /\ To(n, pc) /\ attempt[n].pc # "over"
                    /\ pc \in Checked => attempt[n].pc \in Checked
      BY <1>5 DEF Route, StartKeep, ProofCheck, ProofVerify, CompleteCheck, CompleteIssue,
                  CompletePush, StateAnswer, Checked
    <2>2. pc \in Checked => Expected(attempt[n])
      BY <1>1, <2>1 DEF GoodAttempt
    <2>3. QED
      BY <1>2, <2>1, <2>2, ToKeeps
  <1>6. QED
    BY <1>3, <1>4, <1>5

-----------------------------------------------------------------------------
(* Restoring the selected machine.                                               *)
LEMMA RestoringKeeps ==
  ASSUME PairingInv, NEW q \in Phones, Restoring(q)
  PROVE  PairingInv'
  <1> DEFINE s == phone[q]
  <1>1. GoodPhone(s, attempt) /\ UNCHANGED attempt
    BY DEF PairingInv, PhonesOK, Restoring
  <1>2. AttemptsOK'
    BY <1>1 DEF PairingInv, AttemptsOK, Attempts
  <1>3. SUFFICES \E r : GoodPhone(r, attempt) /\ Set(q, r)
    BY <1>1, <1>2, SetKeeps, SameKept DEF PairingInv
  <1>4. CASE Load(q)
    BY <1>1, <1>4 DEF Load, GoodPhone, Undisturbed, PhoneFields, Browse, Scan, Restored
  <1>5. CASE Connect(q)
    <2>1. s.restore = "connect" /\ s.store # Absent
      BY <1>1, <1>5 DEF Connect, GoodPhone, Undisturbed
    <2>2. CASE Set(q, [Restored(s) EXCEPT !.paired = s.store])
      BY <1>1, <2>1, <2>2 DEF GoodPhone, Undisturbed, PhoneFields, Restored
    <2>3. CASE Set(q, [Restored(s) EXCEPT !.selected = Candidate(s.store.device, s.store.at)])
      BY <1>1, <2>1, <2>3 DEF GoodPhone, Undisturbed, PhoneFields, Restored
    <2>4. CASE Set(q, Scan([s EXCEPT !.restore = "find"], "find"))
      BY <1>1, <2>1, <2>4 DEF GoodPhone, Undisturbed, PhoneFields, Scan
    <2>5. QED
      BY <1>5, <2>2, <2>3, <2>4 DEF Connect
  <1>6. CASE FindEnds(q)
    BY <1>1, <1>6 DEF FindEnds, GoodPhone, Undisturbed, PhoneFields, Browse, Scan, Restored
  <1>7. CASE Reconnect(q)
    <2> DEFINE updated == [s.store EXCEPT !.at = s.recovered]
    <2>1. s.restore = "reconnect" /\ GoodCredential(s.store, attempt)
      BY <1>1, <1>7 DEF Reconnect, GoodPhone, Undisturbed
    <2>2. GoodCredential(updated, attempt)
      BY <2>1 DEF GoodCredential, CredentialFields
    <2>3. CASE Set(q, [Restored(s) EXCEPT !.store = updated, !.paired = updated])
      <3>1. GoodPhone([Restored(s) EXCEPT !.store = updated, !.paired = updated], attempt)
        BY <1>1, <2>1, <2>2 DEF GoodPhone, Undisturbed, PhoneFields, Restored
      <3>2. QED
        BY <2>3, <3>1
    <2>4. CASE Set(q, Browse(Restored(s)))
      BY <1>1, <2>4 DEF GoodPhone, Undisturbed, PhoneFields, Browse, Scan, Restored
    <2>5. CASE Set(q, [Restored(s) EXCEPT !.selected = Candidate(s.store.device, s.recovered)])
      BY <1>1, <2>1, <2>5 DEF GoodPhone, Undisturbed, PhoneFields, Restored
    <2>6. QED
      BY <1>7, <2>3, <2>4, <2>5 DEF Reconnect
  <1>8. QED
    BY <1>4, <1>5, <1>6, <1>7 DEF Restoring

(* What is found and what is pressed.                                            *)
LEMMA PressKeeps ==
  ASSUME PairingInv, NEW q \in Phones, Press(q)
  PROVE  PairingInv'
  <1> DEFINE s == phone[q]
  <1>1. GoodPhone(s, attempt) /\ UNCHANGED attempt
    BY DEF PairingInv, PhonesOK, Press
  <1>2. AttemptsOK'
    BY <1>1 DEF PairingInv, AttemptsOK, Attempts
  <1>3. SUFFICES \E r : GoodPhone(r, attempt) /\ Set(q, r)
    BY <1>1, <1>2, SetKeeps, SameKept DEF PairingInv
  <1>4. CASE Search(q) \/ ScanEnds(q)
    BY <1>1, <1>4 DEF Search, ScanEnds, GoodPhone, Undisturbed, PhoneFields, Browse, StopBrowsing, Scan
  <1>5. CASE Select(q) \/ EnterAddress(q)
    <2>1. PICK c : Set(q, [StopBrowsing(s) EXCEPT !.selected = c])
      BY <1>5 DEF Select, EnterAddress
    <2>2. GoodPhone([StopBrowsing(s) EXCEPT !.selected = c], attempt)
      BY <1>1 DEF GoodPhone, Undisturbed, PhoneFields, StopBrowsing
    <2>3. QED
      BY <2>1, <2>2
  <1>6. CASE Discover(q)
    <2>1. PICK a \in Addresses : 
            LET seen == [s EXCEPT !.found = {c \in @ : c.device # holder[a]}
                                            \cup {Candidate(holder[a], a)}]
            IN /\ holder[a] # Nobody
               /\ Set(q, IF s.native = "find" /\ holder[a] = s.store.device
                         THEN [seen EXCEPT !.restore = "reconnect", !.native = "none",
                                           !.recovered = a]
                         ELSE seen)
      BY <1>6 DEF Discover
    <2> DEFINE found == {c \in s.found : c.device # holder[a]} \cup {Candidate(holder[a], a)}
               seen == [s EXCEPT !.found = found]
               back == [seen EXCEPT !.restore = "reconnect", !.native = "none", !.recovered = a]
    <2>2. GoodPhone(seen, attempt) /\ seen.store = s.store
      <3> HIDE DEF found
      <3>1. QED
        BY <1>1 DEF GoodPhone, Undisturbed, PhoneFields
    <2>3. s.native = "find" /\ holder[a] = s.store.device => GoodPhone(back, attempt)
      <3>1. holder[a] = s.store.device => s.store # Absent
        BY <2>1 DEF Absent
      <3>2. seen.native = s.native
        BY <1>1 DEF GoodPhone, PhoneFields
      <3> HIDE DEF seen
      <3>3. QED
        BY <2>2, <3>1, <3>2 DEF GoodPhone, Undisturbed, PhoneFields
    <2>4. (Set(q, back) /\ s.native = "find" /\ holder[a] = s.store.device) \/ Set(q, seen)
      BY <2>1
    <2>5. QED
      BY <2>2, <2>3, <2>4
  <1>7. CASE ChooseAnother(q)
    BY <1>1, <1>7 DEF ChooseAnother, GoodPhone, Undisturbed, PhoneFields, Browse, Scan
  <1>8. CASE Forget(q)
    BY <1>1, <1>8 DEF Forget, GoodPhone, Undisturbed, PhoneFields
  <1>9. QED
    BY <1>4, <1>5, <1>6, <1>7, <1>8 DEF Press

(* The deletion of the credential, and what follows it.                          *)
LEMMA ForgettingKeeps ==
  ASSUME PairingInv, NEW q \in Phones, Forgetting(q)
  PROVE  PairingInv'
  <1>1. GoodPhone(phone[q], attempt) /\ UNCHANGED attempt
    BY DEF PairingInv, PhonesOK, Forgetting
  <1>2. AttemptsOK'
    BY <1>1 DEF PairingInv, AttemptsOK, Attempts
  <1>3. SUFFICES \E r : GoodPhone(r, attempt) /\ Set(q, r)
    BY <1>1, <1>2, SetKeeps, SameKept DEF PairingInv
  <1>4. CASE Clear(q)
    BY <1>1, <1>4 DEF Clear, GoodPhone, Undisturbed, PhoneFields
  <1>5. CASE Forgotten(q)
    BY <1>1, <1>5 DEF Forgotten, GoodPhone, Undisturbed, PhoneFields, Browse, Scan
  <1>6. QED
    BY <1>4, <1>5 DEF Forgetting

(* Pairing: the attempt begins, goes on, is saved or given up.                   *)
LEMMA PairKeeps ==
  ASSUME PairingInv, NEW q \in Phones, Pair(q)
  PROVE  PairingInv'
  <1> DEFINE s == phone[q]
  <1>1. PICK typed \in Codes :
          attempt' = Append(attempt, [phone |-> q, expect |-> s.selected.device, at |-> s.selected.at,
                                      typed |-> typed, code |-> typed, device |-> Nobody,
                                      pc |-> "start"])
    BY DEF Pair
  <1> DEFINE a == [phone |-> q, expect |-> s.selected.device, at |-> s.selected.at, typed |-> typed,
                   code |-> typed, device |-> Nobody, pc |-> "start"]
  <1>2. GoodAttempt(a)
    BY DEF GoodAttempt, AttemptFields, Checked
  <1>3. PICK S : attempt \in Seq(S)
    BY DEF PairingInv, AttemptsOK, IsSeq
  <1> HIDE DEF a
  <1>4. attempt' = Append(attempt, a)
    BY <1>1 DEF a
  <1> DEFINE T == S \cup {a}
  <1>5. attempt \in Seq(T) /\ a \in T
    BY <1>3
  <1>6. /\ attempt' \in Seq(T) /\ Len(attempt) \in Nat /\ Len(attempt') = Len(attempt) + 1
        /\ \A n \in 1..Len(attempt) : attempt'[n] = attempt[n]
        /\ attempt'[Len(attempt) + 1] = a
    BY <1>4, <1>5, AppendProperties, LenProperties
  <1>7. Kept(attempt, attempt')
    BY <1>6 DEF Kept
  <1>8. AttemptsOK'
    <2>1. IsSeq(attempt')
      BY <1>6 DEF IsSeq
    <2>2. \A n \in 1..Len(attempt') : n \in 1..Len(attempt) \/ n = Len(attempt) + 1
      BY <1>6
    <2>3. \A n \in 1..Len(attempt') : GoodAttempt(attempt'[n])
      BY <1>2, <1>6, <2>2 DEF PairingInv, AttemptsOK, Attempts
    <2>4. QED
      BY <2>1, <2>3 DEF AttemptsOK, Attempts, IsSeq
  <1>9. GoodPhone([s EXCEPT !.busy = TRUE, !.op = Len(attempt) + 1], attempt')
    <2>1. GoodPhone(s, attempt')
      BY <1>7, PhoneKept DEF PairingInv, PhonesOK
    <2>2. Len(attempt) + 1 \in 1..Len(attempt')
      BY <1>6
    <2>3. QED
      BY <2>1, <2>2 DEF Pair, GoodPhone, Undisturbed, PhoneFields
  <1>10. QED
    BY <1>7, <1>8, <1>9, SetKeeps DEF Pair, PairingInv

LEMMA AbandonedKeeps ==
  ASSUME PairingInv, NEW n \in Attempts, Abandoned(n)
  PROVE  AttemptsOK' /\ Kept(attempt, attempt')
  <1>1. GoodAttempt(attempt[n])
    BY DEF PairingInv, AttemptsOK
  <1> DEFINE pc == IF attempt[n].pc \in {"started", "proved", "completed", "state", "stated", "refused"}
                   THEN "over" ELSE attempt[n].pc
             a == [attempt[n] EXCEPT !.pc = pc]
  <1>2. attempt' = [attempt EXCEPT ![n] = a]
    BY DEF Abandoned
  <1>3. GoodAttempt(a)
    BY <1>1 DEF GoodAttempt, AttemptFields, Checked, Expected
  <1>4. attempt[n].pc = "over" =>
          a.pc = "over" /\ a.device = attempt[n].device /\ a.expect = attempt[n].expect
    BY <1>1 DEF GoodAttempt, AttemptFields
  <1>5. QED
    BY <1>2, <1>3, <1>4, ChangeKeeps

LEMMA PairsKeeps ==
  ASSUME PairingInv, NEW q \in Phones, Pairs(q)
  PROVE  PairingInv'
  <1> DEFINE s == phone[q]
             n == s.op
  <1>1. GoodPhone(s, attempt) /\ Waits(q)
    BY DEF PairingInv, PhonesOK, Pairs, StartAnswered, ProofAnswered, TokenAnswered, Save, RequestFails
  <1>2. n \in Attempts /\ GoodAttempt(attempt[n])
    BY <1>1 DEF GoodPhone, Waits, PairingInv, AttemptsOK, Attempts
  <1>3. GoodPhone([s EXCEPT !.busy = FALSE, !.op = 0], attempt)
    BY <1>1 DEF Waits, GoodPhone, Undisturbed, PhoneFields
  <1>4. CASE UNCHANGED phone /\ \E pc \in {"proof", "complete", "state"} :
                 To(n, pc) /\ Expected(attempt[n]) /\ attempt[n].pc # "over"
    <2>1. AttemptsOK' /\ Kept(attempt, attempt')
      BY <1>2, <1>4, ToKeeps
    <2>2. QED
      BY <1>4, <2>1, PhonesKept DEF PairingInv
  <1>5. CASE Failed(q) /\ Abandoned(n)
    <2>1. AttemptsOK' /\ Kept(attempt, attempt')
      BY <1>2, <1>5, AbandonedKeeps
    <2>2. GoodPhone([s EXCEPT !.busy = FALSE, !.op = 0], attempt')
      BY <1>3, <2>1, PhoneKept
    <2>3. QED
      BY <1>5, <2>1, <2>2, SetKeeps DEF Failed, PairingInv
  <1>6. CASE Save(q)
    <2> DEFINE c == Credential(n)
               r == [s EXCEPT !.store = c, !.paired = c, !.busy = FALSE, !.op = 0]
    <2>1. Set(q, r) /\ To(n, "over") /\ attempt[n].pc = "stated"
      BY <1>6 DEF Save, Request
    <2>2. Expected(attempt[n])
      BY <1>2, <2>1 DEF GoodAttempt, Checked
    <2>3. AttemptsOK' /\ Kept(attempt, attempt')
      BY <1>2, <2>1, <2>2, ToKeeps
    <2>4. PICK S : attempt \in Seq(S)
      BY DEF PairingInv, AttemptsOK, IsSeq
    <2>5. DOMAIN attempt = Attempts
      BY <2>4 DEF Attempts
    <2>6. /\ attempt'[n].pc = "over" /\ attempt'[n].device = attempt[n].device
          /\ attempt'[n].expect = attempt[n].expect
      BY <1>2, <2>1, <2>5 DEF To, GoodAttempt, AttemptFields
    <2>7. /\ DOMAIN c = CredentialFields /\ c.client = n /\ c.device = attempt[n].device
          /\ c # Absent
      BY DEF Credential, CredentialFields, Absent
    <2>8. n \in 1..Len(attempt')
      BY <1>2, <2>3 DEF Kept, Attempts
    <2>9. GoodCredential(c, attempt')
      BY <2>2, <2>6, <2>7, <2>8 DEF GoodCredential, Expected
    <2> HIDE DEF c
    <2>10. GoodPhone(r, attempt')
      BY <1>1, <2>7, <2>9 DEF Waits, GoodPhone, Undisturbed, PhoneFields
    <2>11. QED
      BY <2>1, <2>3, <2>10, SetKeeps DEF PairingInv
  <1>7. CASE StartAnswered(q)
    BY <1>4, <1>5, <1>7 DEF StartAnswered, Expected, Request
  <1>8. CASE ProofAnswered(q) \/ TokenAnswered(q)
    BY <1>2, <1>4, <1>8 DEF ProofAnswered, TokenAnswered, Request, GoodAttempt, Checked
  <1>9. CASE RequestFails(q)
    BY <1>5, <1>9 DEF RequestFails
  <1>10. QED
    BY <1>6, <1>7, <1>8, <1>9 DEF Pairs

(* The app is killed.                                                            *)
LEMMA RestartKeeps ==
  ASSUME PairingInv, NEW q \in Phones, Restart(q)
  PROVE  PairingInv'
  <1> DEFINE s == phone[q]
  <1>1. GoodPhone(s, attempt) /\ Set(q, Launched(s.store))
    BY DEF PairingInv, PhonesOK, Restart
  <1>2. AttemptsOK' /\ Kept(attempt, attempt')
    <2>1. CASE Waits(q)
      <3>1. s.op \in Attempts /\ Abandoned(s.op)
        BY <1>1, <2>1 DEF Restart, Waits, GoodPhone, Attempts
      <3>2. QED
        BY <3>1, AbandonedKeeps
    <2>2. CASE ~Waits(q)
      <3>1. UNCHANGED attempt
        BY <2>2 DEF Restart
      <3>2. QED
        BY <3>1, SameKept DEF PairingInv, AttemptsOK, Attempts
    <2>3. QED
      BY <2>1, <2>2
  <1>3. GoodPhone(s, attempt')
    BY <1>1, <1>2, PhoneKept
  <1>4. GoodPhone(Launched(s.store), attempt')
    BY <1>3 DEF GoodPhone, Undisturbed, Launched, PhoneFields
  <1>5. QED
    BY <1>1, <1>2, <1>4, SetKeeps DEF PairingInv

-----------------------------------------------------------------------------
LEMMA PairingNextInv == PairingInv /\ [PairingNext]_pairingVars => PairingInv'
  <1> SUFFICES ASSUME PairingInv, [PairingNext]_pairingVars PROVE PairingInv'
    OBVIOUS
  <1>1. CASE \E n \in Attempts : Route(n)
    BY <1>1, RouteKeeps, PhonesKept DEF PairingInv
  <1>2. CASE \E q \in Phones : Restoring(q) \/ Press(q) \/ Forgetting(q) \/ Pair(q) \/ Pairs(q) \/ Restart(q)
    BY <1>2, RestoringKeeps, PressKeeps, ForgettingKeeps, PairKeeps, PairsKeeps, RestartKeeps
  <1>3. CASE UNCHANGED <<attempt, phone>>
    BY <1>3 DEF PairingInv, AttemptsOK, PhonesOK, Attempts
  <1>4. ASSUME (\E n \in Attempts : Expire(n)) \/ (\E d \in Devices : Rotate(d)) \/ Move
               \/ UNCHANGED pairingVars
        PROVE  UNCHANGED <<attempt, phone>>
    BY <1>4 DEF Expire, Rotate, Move, pairingVars
  <1>5. QED
    BY <1>1, <1>2, <1>3, <1>4 DEF PairingNext

LEMMA PairingSpecInv == PairingSpec => []PairingInv
  BY PairingInitInv, PairingNextInv, PTL DEF PairingSpec

(* A phone keeps only a credential of the machine its user chose.                *)
THEOREM ChosenIsPaired == PairingSpec => []PairsTheChosen
  <1>1. PairingInv => PairsTheChosen
    BY DEF PairingInv, PhonesOK, GoodPhone, GoodCredential, Expected, PairsTheChosen
  <1>2. QED
    BY <1>1, PairingSpecInv, PTL

(* The next launch finds the credential a dashboard runs on.                     *)
THEOREM DashboardIsStored == PairingSpec => []PairedIsStored
  <1>1. PairingInv => PairedIsStored
    BY DEF PairingInv, PhonesOK, GoodPhone, PairedIsStored
  <1>2. QED
    BY <1>1, PairingSpecInv, PTL
=============================================================================
