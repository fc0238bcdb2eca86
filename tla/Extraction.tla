------------------------------ MODULE Extraction ------------------------------
(***************************************************************************)
(* ExtractionController and ScaleController (control.cpp) with the tasks    *)
(* that drive them: the workflow task every 10 ms, the scale task, and the  *)
(* HTTP task, which saves a scale calibration to NVS between two turns of   *)
(* the workflow mutex.  Mode and temperature only refuse a start, a cooldown *)
(* also holds back the settling of a last weight: they are left to Machine, *)
(* whose extraction this module fills in.                                   *)
(*                                                                         *)
(* The clock ticks with the workflow task.  `*_started_ms_` fields are ages. *)
(* A weight control is its cutoff, target less compensation.  The scale's    *)
(* sample window is reduced to how steady it is and the weight it stands    *)
(* for.  What only answers read is left out: outcomes, completion reasons,  *)
(* and what an ended shot was, which decides a repeated key's answer.        *)
(*                                                                         *)
(* An API request's uptime is read before its wait for the mutex, up to Late *)
(* ticks: it may make a start older than it is, a stop younger, and a scale  *)
(* look unavailable, which only refuses.  The token of a calibration is left *)
(* out: one task handles all requests, so no other transaction can be        *)
(* pending.                                                                 *)
(***************************************************************************)
EXTENDS Integers

CONSTANTS
  Manual,        \* the selection without a profile
  Profiles,      \* profiles that extraction_profile_is_valid accepts
  Cutoffs,       \* cutoff weights clients ask for
  Weights,       \* gross weights the scale can show
  NoWeight,      \* no cutoff, or no weight
  Keys, NoKey,   \* idempotency keys, and the empty one
  Calibrations,  \* two-point calibrations
  None,          \* no calibration
  MaxDuration,   \* kMaximumExtractionDurationSeconds, in ticks
  SettleLimit,   \* kScaleSettlingTimeoutMs
  Late           \* how old an API request's clock can be

(* No selection is shorter than a second, and a request waits at most 50 ms.  *)
ASSUME ProfilesAssumption ==
  /\ Profiles \subseteq [pre : Nat, soak : Nat, main : Nat \ {0}]
  /\ \A p \in Profiles : /\ p.pre + p.soak + p.main \in (Late + 1)..MaxDuration
                         /\ p.soak # 0 => p.pre # 0
  /\ Manual \notin Profiles
ASSUME WeightsAssumption ==
  /\ Cutoffs \subseteq Int /\ Weights \subseteq Int
  /\ NoWeight \notin Int
ASSUME ValuesAssumption == NoKey \notin Keys /\ None \notin Calibrations
ASSUME DurationsAssumption ==
  /\ MaxDuration \in Nat /\ SettleLimit \in Nat \ {0}
  /\ Late \in Nat /\ Late < MaxDuration

VARIABLES
  shot,       \* ExtractionController's fields of the running shot
  record,     \* the weight record of the last weighted shot
  warning,    \* scale_warning_active_
  scale,      \* ScaleController
  nvs,        \* the persisted scale calibration
  api,        \* where the HTTP task stands in a completion
  pump,       \* what FailOffPump knows: command() and output_state_unknown()
  inhibited,  \* its emergency_inhibited_
  failSafe,   \* fail_safe_requested
  latched,    \* an internal error is latched
  due         \* the workflow task has this period's turn to take

vars == <<shot, record, warning, scale, nvs, api, pump, inhibited, failSafe,
          latched, due>>

Phases == {"idle", "manual", "pre_infusion", "soak", "main_extraction"}
Selections == Profiles \cup {Manual}
Nets == {g - t : g \in Weights, t \in Weights \cup {0}} \cup {NoWeight}

Off == -1
Running(age) == age # Off

Shots == [phase : Phases, selection : Selections,
          cutoff : Cutoffs \cup {NoWeight}, key : Keys \cup {NoKey},
          age : 0..MaxDuration, fallback : BOOLEAN]
Records == [weight : Nets, tare : Weights \cup {0},
            settling : Off..(SettleLimit + 1)]
Scales == [live : BOOLEAN, spread : {"still", "slow", "moving"},
           gross : Weights \cup {NoWeight}, cal : Calibrations \cup {None},
           calibrating : BOOLEAN, pending : Calibrations \cup {None}]
Pumps == [running : BOOLEAN, unknown : BOOLEAN]

FlagsOK ==
  /\ warning \in BOOLEAN /\ inhibited \in BOOLEAN /\ failSafe \in BOOLEAN
  /\ latched \in BOOLEAN /\ due \in BOOLEAN

TypeOK ==
  /\ shot \in Shots /\ record \in Records
  /\ scale \in Scales /\ nvs \in Calibrations \cup {None}
  /\ api \in {"idle", "save", "adopt", "drop"}
  /\ pump \in Pumps /\ FlagsOK

-----------------------------------------------------------------------------
(* What the controllers compute from their state.                          *)

Active(s)   == s.phase # "idle"
Weighted(s) == s.cutoff # NoWeight

Total(selection) ==
  IF selection = Manual THEN MaxDuration
  ELSE selection.pre + selection.soak + selection.main

(* A weighted shot may outlast its profile until it has to fall back on it.  *)
Deadline(s) ==
  IF Weighted(s) /\ ~s.fallback THEN MaxDuration ELSE Total(s.selection)

PhaseAt(selection, age) ==
  CASE selection = Manual -> "manual"
    [] selection # Manual /\ age < selection.pre -> "pre_infusion"
    [] selection # Manual /\ age >= selection.pre
         /\ age < selection.pre + selection.soak -> "soak"
    [] OTHER -> "main_extraction"
Pumping(phase) == phase \notin {"idle", "soak"}

(* Mutant of Calibrated: a calibration in the making does not matter.        *)
CalibratedOnce(c) == c.cal # None

(* ScaleController::snapshot.  A window is steady within a limit that a      *)
(* calibration widens, and that is not in force while calibrating.          *)
Calibrated(c) == c.cal # None /\ ~c.calibrating
HasWeight(c) == c.live /\ Calibrated(c) /\ c.gross # NoWeight
Stable(c) ==
  /\ c.live
  /\ c.spread = "still" \/ (c.spread = "slow" /\ Calibrated(c))
  /\ Calibrated(c) => c.gross # NoWeight

StoppedPump == [running |-> FALSE, unknown |-> FALSE]
RunningPump == [running |-> TRUE, unknown |-> FALSE]
PumpIsOff == ~pump.running /\ ~pump.unknown

(* Mutant of MayPump: only an emergency refuses.                            *)
MayPumpUnknown == ~inhibited

(* set_running(TRUE) is refused, and force_off tried, unless                *)
MayPump == ~inhibited /\ ~pump.unknown

PumpOff(off) ==
  pump' = IF off THEN StoppedPump ELSE [pump EXCEPT !.unknown = TRUE]

Elapsed(age, limit) == IF age < limit THEN age ELSE limit

Older(age, limit) == IF age \in {Off, limit} THEN age ELSE age + 1

-----------------------------------------------------------------------------
(* The end of a shot: finish, and finish_weighted for a weighted one.        *)

NoShot(key) ==
  [phase |-> "idle", selection |-> Manual, cutoff |-> NoWeight, key |-> key,
   age |-> 0, fallback |-> FALSE]
Ended(s) == NoShot(s.key)

(* `elapsed` is what the shot is held to have lasted, and `seen` whether it  *)
(* has a final weight: one that is not stable settles for a while.          *)
Recorded(s, elapsed, seen) ==
  [record EXCEPT
     !.weight = IF seen THEN scale.gross - record.tare ELSE @,
     !.settling = IF seen /\ Stable(scale) THEN Off
                  ELSE Elapsed(s.age - elapsed, SettleLimit + 1)]

Finish(s, elapsed, seen, off) ==
  /\ shot' = Ended(s)
  /\ record' = IF Weighted(s) THEN Recorded(s, elapsed, seen) ELSE record
  /\ PumpOff(off)

-----------------------------------------------------------------------------
(* The workflow task.                                                       *)

(* A weighted shot falls back for good when the scale shows no weight.       *)
FallsBack(s) == Weighted(s) /\ ~HasWeight(scale)
Watched(s) == [s EXCEPT !.fallback = @ \/ FallsBack(s)]

WeightReached(s) ==
  /\ Weighted(s) /\ ~s.fallback
  /\ HasWeight(scale) /\ scale.gross - record.tare >= s.cutoff

(* After a weighted shot its cup is watched until it is steady, or the first *)
(* weight after the time for that has run out.                              *)
Settle ==
  IF Running(record.settling) /\ HasWeight(scale)
  THEN record' = [record EXCEPT
         !.weight = scale.gross - record.tare,
         !.settling = IF Stable(scale) \/ @ >= SettleLimit THEN Off ELSE @]
  ELSE UNCHANGED record

StopShot(late) ==
  \E off \in BOOLEAN :
    /\ IF Active(shot)
       THEN LET heard == IF shot.age > late THEN shot.age - late ELSE 0
            IN Finish(shot, Elapsed(heard, Total(shot.selection)), FALSE, off)
       ELSE PumpOff(off) /\ UNCHANGED <<shot, record>>
    /\ latched' = (latched \/ ~off)

(* fail_safe_requested: latch, and stop.                                    *)
FailSafe ==
  \E off \in BOOLEAN :
    /\ IF Active(shot)
       THEN Finish(shot, Elapsed(shot.age, Total(shot.selection)), FALSE, off)
       ELSE PumpOff(off) /\ UNCHANGED <<shot, record>>
    /\ latched' = TRUE

Rest ==
  /\ Settle
  /\ IF PumpIsOff THEN UNCHANGED <<pump, latched>>
     ELSE \E off \in BOOLEAN : PumpOff(off) /\ latched' = (latched \/ ~off)
  /\ UNCHANGED shot

Complete(s) ==
  /\ WeightReached(s) \/ s.age >= Deadline(s)
  /\ \E off \in BOOLEAN :
       /\ Finish(s, IF WeightReached(s) THEN s.age ELSE Deadline(s),
                 HasWeight(scale), off)
       /\ latched' = (latched \/ ~off)

(* Entering a phase may fail; a weighted shot then gets no terminal weight.  *)
GoOn(s) ==
  /\ ~WeightReached(s) /\ s.age < Deadline(s)
  /\ LET next == PhaseAt(s.selection, s.age) IN
     \/ next = s.phase /\ shot' = s /\ UNCHANGED <<pump, latched>>
     \/ /\ next # s.phase /\ (Pumping(next) => MayPump)
        /\ shot' = [s EXCEPT !.phase = next]
        /\ pump' = IF Pumping(next) THEN RunningPump ELSE StoppedPump
        /\ UNCHANGED latched
     \/ /\ next # s.phase
        /\ shot' = Ended(s) /\ latched' = TRUE
        /\ \E off \in BOOLEAN : PumpOff(off)
  /\ UNCHANGED record

WorkflowUpdate ==
  /\ due /\ due' = FALSE
  /\ failSafe' = FALSE
  /\ CASE failSafe -> FailSafe
       [] ~failSafe /\ Active(shot) -> Complete(Watched(shot)) \/ GoOn(Watched(shot))
       [] OTHER -> Rest
  /\ warning' = (warning \/ (~failSafe /\ Active(shot) /\ FallsBack(shot)))
  /\ UNCHANGED <<scale, nvs, api, inhibited>>

-----------------------------------------------------------------------------
(* Extraction requests.                                                     *)

Request == api = "idle" /\ UNCHANGED <<api, inhibited, failSafe, due, nvs>>

(* Mutant of MayWeigh: a warning is not waited for.                         *)
MayWeighWarned(selection) ==
  selection # Manual /\ HasWeight(scale) /\ Stable(scale)

(* The gates of a weighted start, which tares with the weight it sees.       *)
MayWeigh(selection) ==
  selection # Manual /\ ~warning /\ HasWeight(scale) /\ Stable(scale)

(* A start with the key of the last shot is a replay or refused; one that    *)
(* fails keeps its key.                                                     *)
StartShot(key, selection, cutoff) ==
  /\ Request
  /\ key # shot.key /\ ~Active(shot)
  /\ cutoff # NoWeight => MayWeigh(selection)
  /\ LET begun == [phase |-> PhaseAt(selection, 0), selection |-> selection,
                   cutoff |-> cutoff, key |-> key, age |-> 0,
                   fallback |-> FALSE]
     IN /\ \/ \E late \in 0..Late :
                MayPump /\ shot' = [begun EXCEPT !.age = late]
                  /\ pump' = RunningPump /\ UNCHANGED latched
           \/ \E off \in BOOLEAN :
                PumpOff(off) /\ shot' = Ended(begun) /\ latched' = TRUE
        /\ record' = IF cutoff = NoWeight THEN record
                     ELSE [weight |-> NoWeight, tare |-> scale.gross,
                           settling |-> Off]
  /\ UNCHANGED <<warning, scale>>

RequestStop ==
  /\ Request
  /\ \E late \in 0..Late : StopShot(late)
  /\ UNCHANGED <<warning, scale>>

Acknowledge ==
  /\ Request
  /\ warning' = FALSE
  /\ UNCHANGED <<shot, record, scale, pump, latched>>

-----------------------------------------------------------------------------
(* The scale task.                                                          *)

OnlyScale ==
  UNCHANGED <<shot, record, warning, pump, inhibited, failSafe, latched, due>>

Sample(spread, gross) ==
  /\ scale' = [scale EXCEPT !.live = TRUE, !.spread = spread,
                  !.gross = IF scale.cal = None THEN NoWeight ELSE gross]
  /\ OnlyScale /\ UNCHANGED <<nvs, api>>

(* A transport error, a saturated converter, or 750 ms without a sample: all *)
(* that can be said of the scale then waits for the next sample.            *)
LoseScale ==
  /\ scale' = [scale EXCEPT !.live = FALSE, !.spread = "moving",
                            !.gross = NoWeight]
  /\ OnlyScale /\ UNCHANGED <<nvs, api>>

-----------------------------------------------------------------------------
(* Calibrating the scale: start, then complete - prepare, NVS, adopt.        *)

StartCalibration ==
  /\ api = "idle" /\ ~Active(shot) /\ scale.pending = None
  /\ scale.live /\ scale.spread = "still"
  /\ scale' = [scale EXCEPT !.calibrating = TRUE]
  /\ OnlyScale /\ UNCHANGED <<nvs, api>>

CancelCalibration ==
  /\ api = "idle" /\ scale.pending = None
  /\ scale' = [scale EXCEPT !.calibrating = FALSE]
  /\ OnlyScale /\ UNCHANGED <<nvs, api>>

(* A pending candidate is the only one that is taken again.                 *)
PrepareCompletion(candidate) ==
  /\ api = "idle" /\ ~Active(shot)
  /\ IF scale.pending # None THEN candidate = scale.pending
     ELSE scale.calibrating /\ Stable(scale)
  /\ scale' = [scale EXCEPT !.pending = candidate]
  /\ api' = "save"
  /\ OnlyScale /\ UNCHANGED nvs

SaveCalibration ==
  /\ api = "save"
  /\ \/ nvs' = scale.pending /\ api' = "adopt"
     \/ UNCHANGED nvs /\ api' = "drop"
  /\ OnlyScale /\ UNCHANGED scale

AdoptCalibration ==
  /\ api = "adopt" /\ api' = "idle"
  /\ \E gross \in IF scale.live THEN Weights \cup {NoWeight} ELSE {NoWeight} :
       scale' = [scale EXCEPT !.cal = scale.pending, !.pending = None,
                              !.calibrating = FALSE, !.gross = gross]
  /\ OnlyScale /\ UNCHANGED nvs

DropCalibration ==
  /\ api = "drop" /\ api' = "idle"
  /\ scale' = [scale EXCEPT !.pending = None]
  /\ OnlyScale /\ UNCHANGED nvs

-----------------------------------------------------------------------------
(* A missed mutex, the clock, and a restart.                                *)

Emergency ==
  /\ inhibited' = TRUE /\ failSafe' = TRUE
  /\ \E off \in BOOLEAN : PumpOff(off)
  /\ UNCHANGED <<shot, record, warning, scale, nvs, latched>>

MissLock == Emergency /\ due' \in {due, FALSE} /\ UNCHANGED api

(* Mutant of MissInCompletion: what could not be adopted is forgotten.       *)
MissAndForget ==
  /\ api \in {"adopt", "drop"} /\ api' = "idle"
  /\ inhibited' = TRUE /\ failSafe' = TRUE
  /\ \E off \in BOOLEAN : PumpOff(off)
  /\ scale' = [scale EXCEPT !.pending = None]
  /\ UNCHANGED <<shot, record, warning, nvs, latched, due>>

(* The candidate stays pending, saved or not, until it is completed again.   *)
MissInCompletion ==
  api \in {"adopt", "drop"} /\ api' = "idle" /\ Emergency /\ UNCHANGED due

Tick ==
  /\ ~due /\ due' = TRUE
  /\ shot' = IF Active(shot) THEN [shot EXCEPT !.age = Older(@, MaxDuration)]
             ELSE shot
  /\ record' = [record EXCEPT !.settling = Older(@, SettleLimit + 1)]
  /\ UNCHANGED <<warning, scale, nvs, api, pump, inhibited, failSafe, latched>>

Boot(stored) ==
  [shot |-> NoShot(NoKey),
   record |-> [weight |-> NoWeight, tare |-> 0, settling |-> Off],
   scale |-> [live |-> FALSE, spread |-> "moving", gross |-> NoWeight,
              cal |-> stored, calibrating |-> FALSE, pending |-> None]]

Init ==
  /\ nvs \in Calibrations \cup {None}
  /\ shot = Boot(nvs).shot /\ record = Boot(nvs).record
  /\ scale = Boot(nvs).scale /\ pump = StoppedPump
  /\ api = "idle" /\ warning = FALSE /\ inhibited = FALSE
  /\ failSafe = FALSE /\ latched = FALSE /\ due = FALSE

Restart ==
  /\ shot' = Boot(nvs).shot /\ record' = Boot(nvs).record
  /\ scale' = Boot(nvs).scale /\ pump' = StoppedPump
  /\ api' = "idle" /\ warning' = FALSE /\ inhibited' = FALSE
  /\ failSafe' = FALSE /\ latched' = FALSE /\ due' = FALSE
  /\ UNCHANGED nvs

Serve ==
  \/ \E key \in Keys, selection \in Selections,
        cutoff \in Cutoffs \cup {NoWeight} : StartShot(key, selection, cutoff)
  \/ RequestStop \/ Acknowledge
  \/ StartCalibration \/ CancelCalibration
  \/ \E candidate \in Calibrations : PrepareCompletion(candidate)
  \/ SaveCalibration \/ AdoptCalibration \/ DropCalibration

Weigh ==
  \/ \E spread \in {"still", "slow", "moving"},
        gross \in Weights \cup {NoWeight} : Sample(spread, gross)
  \/ LoseScale

Next ==
  \/ WorkflowUpdate \/ Serve \/ Weigh
  \/ MissLock \/ MissInCompletion \/ Tick \/ Restart

Spec == Init /\ [][Next]_vars

(* The workflow task runs every 10 ms; it may miss its mutex, not for ever.  *)
FairSpec == Spec /\ WF_vars(Tick) /\ SF_vars(WorkflowUpdate)

-----------------------------------------------------------------------------
(* Every shot ends in time, however its scale fails, comes back and fails    *)
(* again: by the independent limit, and by its profile's unless it is       *)
(* weighed all along.  Read where the workflow has taken its turn.          *)
ShotIsTimed ==
  Active(shot) /\ ~due /\ ~failSafe =>
    /\ shot.age < MaxDuration
    /\ shot.age < Total(shot.selection) \/ (Weighted(shot) /\ ~shot.fallback)

(* A pump nobody knows the state of is a fault, or will be by the next turn: *)
(* no failing call of any task, request or emergency is forgotten.          *)
UnknownIsLatched == pump.unknown => latched \/ failSafe

(* A weighted shot that has fallen back on its timer once runs its profile's *)
(* time, whatever the scale then shows, unless it is stopped or fails.       *)
FallbackIsFinal ==
  [][Active(shot) /\ shot.fallback /\ ~Active(shot') =>
       \/ shot.age >= Total(shot.selection)
       \/ RequestStop \/ latched' \/ Restart]_vars

(* No weighted shot runs under the warning of an earlier one: between them   *)
(* somebody has acknowledged it.                                            *)
WarningIsOwn == Active(shot) /\ Weighted(shot) /\ warning => shot.fallback

(* A weighted shot is tared and weighed by one calibration: none is in the   *)
(* making, or saved and waiting to be adopted, from its start to its end.    *)
WeighsOnce ==
  Active(shot) /\ Weighted(shot) => ~scale.calibrating /\ scale.pending = None

(* The scale uses the calibration a restart would load, or knows of it as    *)
(* the pending one: it forgets it only when saving it a second time fails.   *)
KnowsStored == nvs \in {scale.cal, scale.pending}
ScaleKnowsStored == [][KnowsStored /\ ~KnowsStored' => api = "drop"]_vars

(* Extraction is a Shot: in order, cut for good, and over in the end.        *)
Promise == INSTANCE Shot WITH
  phase <- shot.phase,
  pump <- IF pump.unknown THEN "unknown"
          ELSE IF pump.running THEN "running" ELSE "off"
ShotPromise == Promise!Spec
===============================================================================
