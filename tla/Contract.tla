------------------------------- MODULE Contract -------------------------------
(* What the protocol package says a machine state is: the schemas that the     *)
(* simulator parses every answer with before it sends it and the app parses    *)
(* every answer with before it believes it.  An answer outside them reaches    *)
(* nobody.  A part of the state is a predicate over a record; the unions of    *)
(* the schemas are disjunctions, their refinements conjuncts.                  *)
EXTENDS Integers, Sequences

CONSTANTS
  BrewRange, SteamRange,   \* the targets that may be set
  OffsetRange,             \* of a saved or a previewed calibration
  CandidateRange, Reference,
  MaxTimeout, MaxCompensation,
  Lease, PumpLimit, Stabilization, ShotLimit,
  PageLimit,               \* samples of a telemetry page
  Manual,                  \* the selection without a profile
  Null

Modes == {"brew", "steam"}
FaultCodes == {"sensor_failure", "over_temperature", "heating_timeout", "internal_error"}
Completions == {"weight-reached", "timer-fallback", "stopped", "safety-cutoff"}
Nullable(S) == S \cup {Null}

Profile(p) ==
  /\ p.pre \in 0..ShotLimit /\ p.soak \in 0..ShotLimit /\ p.main \in 1..ShotLimit
  /\ p.pre = 0 => p.soak = 0
  /\ p.pre + p.soak + p.main <= ShotLimit
Selection(selection) == selection = Manual \/ Profile(selection)

SteamControl(c) ==
  c.applied \in 0..MaxCompensation /\ c.compensating \in BOOLEAN /\ c.soak \in Nullable(Nat)
Machine(s) ==
  /\ s.mode \in Modes /\ s.brew \in BrewRange /\ s.steam \in SteamRange
  /\ s.remaining \in Nullable(0..MaxTimeout) /\ SteamControl(s.control)
  /\ \/ s.status \in {"heating", "ready"} /\ s.fault = Null
     \/ s.status = "fault" /\ s.fault \in FaultCodes /\ ~s.heaterActive

Bounds(b) == b.brew \in BrewRange /\ b.steam \in SteamRange
CalibrationState(c) ==
  /\ c.offset \in OffsetRange /\ Bounds(c.bounds)
  /\ \/ c.status = "uncalibrated" /\ c.offset = 0
     \/ c.status = "calibrated"
     \/ /\ c.status = "calibrating" /\ c.candidate \in CandidateRange
        /\ c.preview \in OffsetRange /\ c.preview = Reference - c.candidate
        /\ c.leased \in 0..Lease /\ Bounds(c.previewBounds)

(* A running shot's phase says what the pump is told; a failed shot's pump may *)
(* not have obeyed. *)
RunningExtraction(x) ==
  /\ x.status = "running" /\ x.elapsed \in 0..ShotLimit /\ x.remaining \in 0..ShotLimit
  /\ \/ x.selection = Manual /\ x.phase = "manual" /\ x.pump = "running"
     \/ /\ x.selection # Manual /\ Selection(x.selection)
        /\ \/ x.phase \in {"pre-infusion", "main-extraction"} /\ x.pump = "running"
           \/ x.phase = "soak" /\ x.pump = "off"
IdleExtraction(x) ==
  /\ x.status = "idle" /\ x.phase = "idle" /\ x.remaining = Null
  /\ \/ x.id = Null /\ x.selection = Null /\ x.pump = "off" /\ x.outcome = Null
     \/ /\ x.id # Null /\ Selection(x.selection)
        /\ x.outcome = "failed" \/ (x.outcome \in {"completed", "stopped"} /\ x.pump = "off")
Extraction(x) == RunningExtraction(x) \/ IdleExtraction(x)

Compensation(c) ==
  \/ c = [status |-> "inactive", phase |-> Null]
  \/ c.status = "active" /\ c.phase \in {"manual", "main-extraction"}

Cooldown(c) ==
  \/ /\ c.status = "idle" /\ c.remaining = Null /\ ~c.inhibited
     /\ \/ c.id = Null /\ c.target = Null /\ c.elapsed = 0 /\ c.outcome = Null
        \/ /\ c.id # Null /\ c.target \in BrewRange /\ c.elapsed \in 0..PumpLimit + Stabilization
           /\ c.outcome \in {"target-reached", "cutoff", "stopped", "failed"}
  \/ /\ c.status = "pumping" /\ c.target \in BrewRange /\ c.inhibited /\ c.outcome = Null
     /\ c.remaining \in 0..PumpLimit /\ c.elapsed + c.remaining = PumpLimit
  \/ /\ c.status = "stabilizing" /\ c.target \in BrewRange /\ c.inhibited
     /\ c.elapsed \in 0..PumpLimit + Stabilization /\ c.remaining \in 0..Stabilization
     /\ c.outcome \in {"target-reached", "cutoff", "stopped"}

Scale(s) ==
  /\ s.availability \in {"unavailable", "unstable", "ready"}
  /\ s.calibration \in {"uncalibrated", "calibrating", "calibrated"}
  /\ s.active # Null => s.active.mode \in {"weight", "timer-fallback"}
  /\ s.terminal # Null => s.terminal.reason \in Completions

(* refineWorkflowState: how the parts of one answer bind each other. *)
ExtractionInBrew(s) == s.extraction.status = "running" => s.machine.mode = "brew"
CompensationMatches(s) ==
  s.compensation.status = "active" =>
    /\ s.extraction.status = "running" /\ s.extraction.phase = s.compensation.phase
    /\ s.machine.mode = "brew" /\ s.machine.heaterEnabled /\ s.machine.status # "fault"
CooldownAlone(s) ==
  s.cooldown.status # "idle" =>
    /\ s.extraction.status = "idle" /\ s.compensation.status = "inactive"
    /\ s.machine.mode = "brew" /\ ~s.machine.heaterActive /\ s.machine.status # "fault"
FailedCooldownIsFaulted(s) ==
  s.cooldown.status = "idle" /\ s.cooldown.outcome = "failed" => s.machine.status = "fault"
FailedExtractionIsFaulted(s) ==
  s.extraction.status = "idle" /\ s.extraction.outcome = "failed" => s.machine.status = "fault"

StateV3(s) ==
  /\ Machine(s.machine) /\ Scale(s.scale) /\ CalibrationState(s.calibration)
  /\ Extraction(s.extraction) /\ Compensation(s.compensation) /\ Cooldown(s.cooldown)
  /\ ExtractionInBrew(s) /\ CompensationMatches(s) /\ CooldownAlone(s)
  /\ FailedCooldownIsFaulted(s) /\ FailedExtractionIsFaulted(s)

(* ExtractionTelemetryPage: a page is about one shot of one boot, its samples are *)
(* in order and within what is retained, and its cursor acknowledges the last.    *)
TelemetryStatuses == {"running", "settling", "terminal"}
Continuities == {"initial", "continuous", "truncated", "reset"}
TelemetryPage(p) ==
  /\ p.status \in TelemetryStatuses /\ p.continuity \in Continuities
  /\ p.samples # <<>> /\ Len(p.samples) <= PageLimit
  /\ p.cursor.boot = p.boot /\ p.cursor.id = p.id
  /\ p.oldest <= p.latest
  /\ \A i \in 2..Len(p.samples) : p.samples[i - 1] < p.samples[i]
  /\ p.samples[1] >= p.oldest /\ p.samples[Len(p.samples)] <= p.latest
  /\ p.cursor.after = p.samples[Len(p.samples)]
  /\ p.more <=> p.cursor.after < p.latest
  /\ p.outcome = Null <=> p.status = "running"
=============================================================================
