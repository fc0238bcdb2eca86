-------------------------- MODULE ExtractionProofs --------------------------
(***************************************************************************)
(* For all profiles, weights, keys, calibrations and limits: the properties *)
(* of Extraction, and that its controllers are a Shot.                      *)
(*                                                                         *)
(* The argument: a workflow turn ends the shot and commands the pump off, or *)
(* goes on with it before its deadline (WorkflowShot); a start begins a shot *)
(* or leaves none; every other step leaves the shot alone (KindsOfSteps).   *)
(* Each property is kept by each kind.  Those about the calibration need    *)
(* CalibrationOK, which ties candidate, NVS and the request's place to one   *)
(* another.  That it is a Shot needs a phase that its age has reached, or a  *)
(* turn could go back to it (PhaseIsPast), and a pump that does what the    *)
(* phase says, or advancing would raise one that was cut (PumpFollows).     *)
(***************************************************************************)
EXTENDS Extraction, TLAPS

(* A candidate waits only inside a calibration.                             *)
PendingIsCalibrating == scale.pending # None => scale.calibrating

(* What the HTTP task saves, and has saved when it adopts, is the           *)
(* candidate.                                                               *)
SavesPending ==
  /\ api # "idle" => scale.pending # None
  /\ api = "adopt" => nvs = scale.pending

(* A scale with a calibration has one stored.                               *)
NoneStored == nvs = None => scale.cal = None

(* A shot is only in a phase its age has reached.                           *)
PhaseIsPast ==
  Active(shot) =>
    /\ shot.phase = "manual" <=> shot.selection = Manual
    /\ shot.phase = "soak" => shot.age >= shot.selection.pre
    /\ shot.phase = "main_extraction"
         => shot.age >= shot.selection.pre + shot.selection.soak

(* Until the workflow is asked for its fail-safe turn, a shot's pump is     *)
(* what its phase commands.                                                 *)
PumpFollows ==
  Active(shot) /\ ~failSafe =>
    pump = IF Pumping(shot.phase) THEN RunningPump ELSE StoppedPump

(* Every selection takes longer than a clock can be late, and not longer    *)
(* than the limit.                                                          *)
LEMMA TotalBounds ==
  ASSUME NEW sel \in Selections
  PROVE  Total(sel) \in (Late + 1)..MaxDuration
  BY ProfilesAssumption, DurationsAssumption DEF Selections, Total

(* So a shot is not over before a clock can be that late.                   *)
LEMMA DeadlineBounds ==
  ASSUME NEW s \in Shots
  PROVE  Deadline(s) \in (Late + 1)..MaxDuration
  <1>1. s.selection \in Selections
    BY DEF Shots
  <1>2. QED
    BY <1>1, TotalBounds, DurationsAssumption DEF Deadline

(* The record of no shot is of the type, idle and not weighted.             *)
LEMMA NoShotIsShot ==
  ASSUME NEW key \in Keys \cup {NoKey}
  PROVE  NoShot(key) \in Shots /\ ~Active(NoShot(key)) /\ ~Weighted(NoShot(key))
  <1>1. 0 \in 0..MaxDuration
    BY DurationsAssumption
  <1>2. QED
    BY <1>1 DEF NoShot, Shots, Phases, Selections, Active, Weighted

(* An ended shot leaves such a record.                                      *)
LEMMA EndedIsShot ==
  ASSUME NEW s \in Shots
  PROVE  Ended(s) \in Shots /\ ~Active(Ended(s)) /\ ~Weighted(Ended(s))
  <1>1. s.key \in Keys \cup {NoKey}
    BY DEF Shots
  <1>2. QED
    BY <1>1, NoShotIsShot DEF Ended

(* Watching a shot changes nothing of it but its fallback.                  *)
LEMMA WatchedIsShot ==
  ASSUME NEW s \in Shots
  PROVE  /\ Watched(s) \in Shots
         /\ Watched(s).phase = s.phase /\ Watched(s).selection = s.selection
         /\ Watched(s).cutoff = s.cutoff /\ Watched(s).age = s.age
         /\ Watched(s).key = s.key
         /\ Watched(s).fallback = (s.fallback \/ FallsBack(s))
  BY DEF Watched, Shots

(* A selection's phase at an age: never idle, manual for Manual only, and   *)
(* soak and main extraction only after the phases before them.              *)
LEMMA PhaseAtType ==
  ASSUME NEW sel \in Selections, NEW age \in Nat
  PROVE  /\ PhaseAt(sel, age) \in Phases \ {"idle"}
         /\ PhaseAt(sel, age) = "manual" <=> sel = Manual
         /\ PhaseAt(sel, age) = "soak" => age >= sel.pre
         /\ PhaseAt(sel, age) = "main_extraction" => age >= sel.pre + sel.soak
  BY ProfilesAssumption DEF PhaseAt, Phases, Selections

(* The weight record of a finished shot keeps its type when the weight      *)
(* was seen by a calibrated scale.                                          *)
LEMMA RecordedIsRecord ==
  ASSUME NEW s \in Shots, record \in Records, scale \in Scales,
         NEW elapsed \in Nat, elapsed <= s.age,
         NEW seen \in BOOLEAN, seen => HasWeight(scale)
  PROVE  Recorded(s, elapsed, seen) \in Records
  <1>1. s.age - elapsed \in Nat
    BY DEF Shots
  <1>2. Elapsed(s.age - elapsed, SettleLimit + 1) \in Off..(SettleLimit + 1)
    BY <1>1, DurationsAssumption DEF Elapsed, Off
  <1>3. Off \in Off..(SettleLimit + 1)
    BY DurationsAssumption DEF Off
  <1>4. seen => scale.gross - record.tare \in Nets
    BY DEF HasWeight, Scales, Records, Nets
  <1>5. record.weight \in Nets
    BY DEF Records
  <1>6. QED
    BY <1>2, <1>3, <1>4, <1>5, Zenon DEF Recorded, Records

(* An off command keeps the pump's type, and leaves it unknown only by      *)
(* failing.                                                                 *)
LEMMA PumpOffType ==
  ASSUME pump \in Pumps, NEW off \in BOOLEAN, PumpOff(off)
  PROVE  pump' \in Pumps /\ (pump'.unknown => ~off)
  <1>1. pump' \in Pumps
    BY Zenon DEF PumpOff, Pumps, StoppedPump
  <1>2. off => pump' = StoppedPump
    BY DEF PumpOff
  <1>3. QED
    BY <1>1, <1>2 DEF StoppedPump

(* Finishing a shot keeps the types of what it writes.                      *)
LEMMA FinishType ==
  ASSUME TypeOK, NEW s \in Shots, NEW elapsed \in Nat, elapsed <= s.age,
         NEW seen \in BOOLEAN, seen => HasWeight(scale),
         NEW off \in BOOLEAN, Finish(s, elapsed, seen, off)
  PROVE  shot' \in Shots /\ record' \in Records /\ pump' \in Pumps
  BY EndedIsShot, RecordedIsRecord, PumpOffType DEF Finish, TypeOK

(* What a shot is held to have lasted is no more than its age,              *)
LEMMA ElapsedBound ==
  ASSUME NEW age \in Nat, NEW limit \in Nat
  PROVE  Elapsed(age, limit) \in Nat /\ Elapsed(age, limit) <= age
  BY DEF Elapsed

(* and neither is it when a request's clock was late.                       *)
LEMMA HeardBound ==
  ASSUME NEW age \in Nat, NEW late \in Nat, NEW limit \in Nat
  PROVE  LET heard == IF age > late THEN age - late ELSE 0
         IN Elapsed(heard, limit) \in Nat /\ Elapsed(heard, limit) <= age
  BY DEF Elapsed

(* A stop, from a request that may be late, keeps the types.                *)
LEMMA StopShotType ==
  ASSUME TypeOK, NEW late \in Nat, StopShot(late)
  PROVE  shot' \in Shots /\ record' \in Records /\ pump' \in Pumps
         /\ latched' \in BOOLEAN
  <1> DEFINE heard == IF shot.age > late THEN shot.age - late ELSE 0
  <1>1. shot \in Shots /\ shot.age \in Nat /\ shot.selection \in Selections
    BY DEF TypeOK, Shots
  <1>3. Total(shot.selection) \in Nat
    BY <1>1, TotalBounds, DurationsAssumption
  <1>4. /\ Elapsed(heard, Total(shot.selection)) \in Nat
        /\ Elapsed(heard, Total(shot.selection)) <= shot.age
    BY <1>1, <1>3, HeardBound
  <1>5. PICK off \in BOOLEAN :
          /\ IF Active(shot)
             THEN Finish(shot, Elapsed(heard, Total(shot.selection)), FALSE, off)
             ELSE PumpOff(off) /\ UNCHANGED <<shot, record>>
          /\ latched' = (latched \/ ~off)
    BY DEF StopShot
  <1>6. CASE Active(shot)
    BY <1>1, <1>4, <1>5, <1>6, FinishType, Zenon
  <1>7. CASE ~Active(shot)
    BY <1>5, <1>7, PumpOffType, Zenon DEF TypeOK
  <1>8. latched' \in BOOLEAN
    BY <1>5, Zenon
  <1>9. QED
    BY <1>6, <1>7, <1>8

(* A fail-safe turn keeps the types.                                        *)
LEMMA FailSafeType ==
  ASSUME TypeOK, FailSafe
  PROVE  shot' \in Shots /\ record' \in Records /\ pump' \in Pumps
         /\ latched' \in BOOLEAN
  <1>1. shot \in Shots /\ shot.age \in Nat /\ shot.selection \in Selections
    BY DEF TypeOK, Shots
  <1>2. Total(shot.selection) \in Nat
    BY <1>1, TotalBounds, DurationsAssumption
  <1>3. /\ Elapsed(shot.age, Total(shot.selection)) \in Nat
        /\ Elapsed(shot.age, Total(shot.selection)) <= shot.age
    BY <1>1, <1>2, ElapsedBound
  <1>4. PICK off \in BOOLEAN :
          /\ IF Active(shot)
             THEN Finish(shot, Elapsed(shot.age, Total(shot.selection)),
                         FALSE, off)
             ELSE PumpOff(off) /\ UNCHANGED <<shot, record>>
          /\ latched' = TRUE
    BY DEF FailSafe
  <1>5. CASE Active(shot)
    BY <1>1, <1>3, <1>4, <1>5, FinishType, Zenon
  <1>6. CASE ~Active(shot)
    BY <1>4, <1>6, PumpOffType, Zenon DEF TypeOK
  <1>7. QED
    BY <1>4, <1>5, <1>6, Zenon

(* Completing a shot keeps the types.                                       *)
LEMMA CompleteType ==
  ASSUME TypeOK, NEW s \in Shots, Complete(s)
  PROVE  shot' \in Shots /\ record' \in Records /\ pump' \in Pumps
         /\ latched' \in BOOLEAN
  <1> DEFINE elapsed == IF WeightReached(s) THEN s.age ELSE Deadline(s)
  <1>1. elapsed \in Nat /\ elapsed <= s.age
    BY DeadlineBounds, DurationsAssumption DEF Complete, Shots
  <1>2. PICK off \in BOOLEAN : /\ Finish(s, elapsed, HasWeight(scale), off)
                               /\ latched' = (latched \/ ~off)
    BY DEF Complete
  <1>3. HasWeight(scale) \in BOOLEAN
    BY Zenon DEF HasWeight, Calibrated
  <1>4. QED
    BY <1>1, <1>2, <1>3, FinishType, Zenon

(* Going on with a shot keeps the types.                                    *)
LEMMA GoOnType ==
  ASSUME TypeOK, NEW s \in Shots, GoOn(s)
  PROVE  shot' \in Shots /\ record' \in Records /\ pump' \in Pumps
         /\ latched' \in BOOLEAN
  <1> DEFINE next == PhaseAt(s.selection, s.age)
  <1>1. next \in Phases
    BY PhaseAtType, DurationsAssumption DEF Shots
  <1>2. [s EXCEPT !.phase = next] \in Shots
    BY <1>1, Zenon DEF Shots
  <1>3. RunningPump \in Pumps /\ StoppedPump \in Pumps
    BY DEF RunningPump, StoppedPump, Pumps
  <1>4. record' = record
    BY DEF GoOn
  <1>5. CASE shot' = s /\ UNCHANGED <<pump, latched>>
    BY <1>4, <1>5, Zenon DEF TypeOK, FlagsOK
  <1>6. CASE /\ shot' = [s EXCEPT !.phase = next]
             /\ pump' = IF Pumping(next) THEN RunningPump ELSE StoppedPump
             /\ UNCHANGED latched
    BY <1>2, <1>3, <1>4, <1>6, Zenon DEF TypeOK, FlagsOK
  <1>7. CASE /\ shot' = Ended(s) /\ latched' = TRUE
             /\ \E off \in BOOLEAN : PumpOff(off)
    BY <1>4, <1>7, EndedIsShot, PumpOffType, Zenon DEF TypeOK
  <1>8. QED
    BY <1>5, <1>6, <1>7, Zenon DEF GoOn

(* A turn without a shot keeps the types.                                   *)
LEMMA RestType ==
  ASSUME TypeOK, Rest
  PROVE  shot' \in Shots /\ record' \in Records /\ pump' \in Pumps
         /\ latched' \in BOOLEAN
  <1>1. record' \in Records
    <2>1. HasWeight(scale) => scale.gross - record.tare \in Nets
      BY DEF HasWeight, TypeOK, Scales, Records, Nets
    <2>2. Off \in Off..(SettleLimit + 1)
      BY DurationsAssumption DEF Off
    <2>3. QED
      BY <2>1, <2>2, Zenon DEF Rest, Settle, TypeOK, Records
  <1>2. pump' \in Pumps /\ latched' \in BOOLEAN
    BY PumpOffType, Zenon DEF Rest, TypeOK, FlagsOK
  <1>3. QED
    BY <1>1, <1>2, Zenon DEF Rest, TypeOK

(* A turn of the workflow task keeps the types.                             *)
LEMMA WorkflowType == TypeOK /\ WorkflowUpdate => TypeOK'
  <1> SUFFICES ASSUME TypeOK, WorkflowUpdate PROVE TypeOK'
    OBVIOUS
  <1>1. /\ shot' \in Shots /\ record' \in Records /\ pump' \in Pumps
        /\ latched' \in BOOLEAN
    <2>1. shot \in Shots /\ Watched(shot) \in Shots
      BY WatchedIsShot DEF TypeOK
    <2>2. \/ FailSafe
          \/ Complete(Watched(shot)) \/ GoOn(Watched(shot))
          \/ Rest
      BY Zenon DEF WorkflowUpdate
    <2>3. QED
      BY <2>1, <2>2, FailSafeType, CompleteType, GoOnType, RestType
  <1>2. /\ warning' \in BOOLEAN /\ failSafe' = FALSE /\ due' = FALSE
        /\ UNCHANGED <<scale, nvs, api, inhibited>>
    BY Zenon DEF WorkflowUpdate, TypeOK, FlagsOK
  <1>3. QED
    BY <1>1, <1>2, Zenon DEF TypeOK, FlagsOK

(* A start request keeps the types, whether the pump starts or not.         *)
LEMMA StartShotType ==
  ASSUME TypeOK, NEW key \in Keys, NEW selection \in Selections,
         NEW cutoff \in Cutoffs \cup {NoWeight},
         StartShot(key, selection, cutoff)
  PROVE  TypeOK'
  <1> DEFINE begun == [phase |-> PhaseAt(selection, 0), selection |-> selection,
                       cutoff |-> cutoff, key |-> key, age |-> 0,
                       fallback |-> FALSE]
  <1>1. PhaseAt(selection, 0) \in Phases
    BY PhaseAtType
  <1>2. \A late \in 0..Late : late \in 0..MaxDuration
    BY DurationsAssumption
  <1>3. 0 \in 0..MaxDuration
    BY DurationsAssumption
  <1>4. begun \in Shots
    BY <1>1, <1>3, Zenon DEF Shots
  <1>5. RunningPump \in Pumps
    BY DEF RunningPump, Pumps
  <1>6. shot' \in Shots /\ pump' \in Pumps /\ latched' \in BOOLEAN
    <2>1. CASE \E late \in 0..Late :
                 MayPump /\ shot' = [begun EXCEPT !.age = late]
                   /\ pump' = RunningPump /\ UNCHANGED latched
      <3>1. \A late \in 0..Late : [begun EXCEPT !.age = late] \in Shots
        BY <1>2, <1>4, Zenon DEF Shots
      <3>2. QED
        BY <2>1, <3>1, <1>5, Zenon DEF TypeOK, FlagsOK
    <2>2. CASE \E off \in BOOLEAN :
                 PumpOff(off) /\ shot' = Ended(begun) /\ latched' = TRUE
      BY <2>2, <1>4, EndedIsShot, PumpOffType, Zenon DEF TypeOK
    <2>3. QED
      BY <2>1, <2>2, Zenon DEF StartShot
  <1>7. record' \in Records
    <2>1. CASE cutoff = NoWeight
      BY <2>1, Zenon DEF StartShot, TypeOK
    <2>2. CASE cutoff # NoWeight
      <3>1. scale.gross \in Weights
        BY <2>2, Zenon DEF StartShot, MayWeigh, HasWeight, TypeOK, Scales
      <3>2. Off \in Off..(SettleLimit + 1)
        BY DurationsAssumption DEF Off
      <3>3. record' = [weight |-> NoWeight, tare |-> scale.gross,
                       settling |-> Off]
        BY <2>2, Zenon DEF StartShot
      <3>4. NoWeight \in Nets /\ scale.gross \in Weights \cup {0}
        BY <3>1 DEF Nets
      <3>5. QED
        BY <3>2, <3>3, <3>4, Zenon DEF Records
    <2>3. QED
      BY <2>1, <2>2
  <1>8. UNCHANGED <<api, inhibited, failSafe, due, nvs, warning, scale>>
    BY Zenon DEF StartShot, Request
  <1>9. QED
    BY <1>6, <1>7, <1>8, Zenon DEF TypeOK, FlagsOK

(* Every request, and every step of a scale calibration, keeps the types.   *)
LEMMA ServeType == TypeOK /\ Serve => TypeOK'
  <1> SUFFICES ASSUME TypeOK, Serve PROVE TypeOK'
    OBVIOUS
  <1>1. ASSUME NEW key \in Keys, NEW selection \in Selections,
               NEW cutoff \in Cutoffs \cup {NoWeight},
               StartShot(key, selection, cutoff)
        PROVE  TypeOK'
    BY <1>1, StartShotType
  <1>2. CASE RequestStop
    <2>1. \E late \in Nat : StopShot(late)
      BY <1>2, DurationsAssumption DEF RequestStop
    <2>2. QED
      BY <1>2, <2>1, StopShotType, Zenon
         DEF RequestStop, Request, TypeOK, FlagsOK
  <1>3. CASE Acknowledge
    BY <1>3, Zenon DEF Acknowledge, Request, TypeOK, FlagsOK
  <1>4. CASE StartCalibration
    BY <1>4, Zenon DEF StartCalibration, OnlyScale, TypeOK, FlagsOK, Scales
  <1>5. CASE CancelCalibration
    BY <1>5, Zenon DEF CancelCalibration, OnlyScale, TypeOK, FlagsOK, Scales
  <1>6. ASSUME NEW candidate \in Calibrations, PrepareCompletion(candidate)
        PROVE  TypeOK'
    BY <1>6, Zenon DEF PrepareCompletion, OnlyScale, TypeOK, FlagsOK, Scales
  <1>7. CASE SaveCalibration
    <2>1. scale.pending \in Calibrations \cup {None}
      BY DEF TypeOK, Scales
    <2>2. nvs' \in Calibrations \cup {None} /\ api' \in {"adopt", "drop"}
      BY <1>7, <2>1 DEF SaveCalibration, TypeOK
    <2>3. QED
      BY <1>7, <2>2, Zenon DEF SaveCalibration, OnlyScale, TypeOK, FlagsOK
  <1>8. CASE AdoptCalibration
    <2>1. PICK gross \in Weights \cup {NoWeight} :
            scale' = [scale EXCEPT !.cal = scale.pending, !.pending = None,
                                   !.calibrating = FALSE, !.gross = gross]
      BY <1>8 DEF AdoptCalibration
    <2>2. scale' \in Scales
      BY <2>1, Zenon DEF TypeOK, Scales
    <2>3. QED
      BY <1>8, <2>2, Zenon DEF AdoptCalibration, OnlyScale, TypeOK, FlagsOK
  <1>9. CASE DropCalibration
    BY <1>9, Zenon DEF DropCalibration, OnlyScale, TypeOK, FlagsOK, Scales
  <1>10. QED
    BY <1>1, <1>2, <1>3, <1>4, <1>5, <1>6, <1>7, <1>8, <1>9 DEF Serve

(* The scale task keeps the types.                                          *)
LEMMA WeighType == TypeOK /\ Weigh => TypeOK'
  <1> SUFFICES ASSUME TypeOK, Weigh PROVE TypeOK'
    OBVIOUS
  <1>1. scale' \in Scales
    BY Zenon DEF Weigh, Sample, LoseScale, TypeOK, Scales
  <1>2. QED
    BY <1>1, Zenon DEF Weigh, Sample, LoseScale, OnlyScale, TypeOK, FlagsOK

(* An emergency keeps the pump's type.                                      *)
LEMMA EmergencyType == TypeOK /\ Emergency => pump' \in Pumps
  BY PumpOffType, Zenon DEF Emergency, TypeOK

(* An age stays within its bound.                                           *)
LEMMA OlderType ==
  ASSUME NEW limit \in Nat, NEW age \in Off..limit
  PROVE  /\ Older(age, limit) \in Off..limit
         /\ age \in Nat => Older(age, limit) \in 0..limit
  BY DEF Older, Off

(* The clock keeps the types.                                               *)
LEMMA TickType == TypeOK /\ Tick => TypeOK'
  <1> SUFFICES ASSUME TypeOK, Tick PROVE TypeOK'
    OBVIOUS
  <1>1. Older(shot.age, MaxDuration) \in 0..MaxDuration
    BY OlderType, DurationsAssumption DEF TypeOK, Shots, Off
  <1>2. Older(record.settling, SettleLimit + 1) \in Off..(SettleLimit + 1)
    BY OlderType, DurationsAssumption DEF TypeOK, Records, Off
  <1>3. shot' \in Shots
    BY <1>1, Zenon DEF Tick, TypeOK, Shots
  <1>4. record' \in Records
    BY <1>2, Zenon DEF Tick, TypeOK, Records
  <1>5. QED
    BY <1>3, <1>4, Zenon DEF Tick, TypeOK, FlagsOK

(* What a restart sets is of the types, idle, with the persisted            *)
(* calibration and none in the making.                                      *)
LEMMA BootType ==
  ASSUME NEW stored \in Calibrations \cup {None}
  PROVE  /\ Boot(stored).shot \in Shots /\ Boot(stored).record \in Records
         /\ Boot(stored).scale \in Scales /\ StoppedPump \in Pumps
         /\ ~Active(Boot(stored).shot) /\ ~Weighted(Boot(stored).shot)
         /\ Boot(stored).scale.pending = None
         /\ Boot(stored).scale.cal = stored
  <1>1. Off \in Off..(SettleLimit + 1)
    BY DurationsAssumption DEF Off
  <1>2. NoShot(NoKey) \in Shots /\ ~Active(NoShot(NoKey)) /\ ~Weighted(NoShot(NoKey))
    BY NoShotIsShot
  <1>3. StoppedPump \in Pumps
    BY DEF StoppedPump, Pumps
  <1>4. Boot(stored).shot = NoShot(NoKey)
    BY DEF Boot
  <1>5. Boot(stored).record \in Records
    <2>1. NoWeight \in Nets
      BY DEF Nets
    <2>2. QED
      BY <1>1, <2>1, Zenon DEF Boot, Records
  <1>6. Boot(stored).scale \in Scales
    BY DEF Boot, Scales
  <1>7. Boot(stored).scale.pending = None /\ Boot(stored).scale.cal = stored
    BY DEF Boot
  <1>8. QED
    BY <1>2, <1>3, <1>4, <1>5, <1>6, <1>7, Zenon

(* The initial states are of the types.                                     *)
LEMMA InitType == Init => TypeOK
  BY BootType, Zenon DEF Init, TypeOK, FlagsOK

(* Every step keeps the types.                                              *)
LEMMA NextType == TypeOK /\ [Next]_vars => TypeOK'
  <1> SUFFICES ASSUME TypeOK, [Next]_vars PROVE TypeOK'
    OBVIOUS
  <1>1. CASE WorkflowUpdate
    BY <1>1, WorkflowType
  <1>2. CASE Serve
    BY <1>2, ServeType
  <1>3. CASE Weigh
    BY <1>3, WeighType
  <1>4. CASE MissLock
    BY <1>4, EmergencyType, Zenon DEF MissLock, Emergency, TypeOK, FlagsOK
  <1>5. CASE MissInCompletion
    BY <1>5, EmergencyType, Zenon DEF MissInCompletion, Emergency, TypeOK, FlagsOK
  <1>6. CASE Tick
    BY <1>6, TickType
  <1>7. CASE Restart
    BY <1>7, BootType, Zenon DEF Restart, TypeOK, FlagsOK
  <1>8. CASE UNCHANGED vars
    BY <1>8, Zenon DEF vars, TypeOK, FlagsOK
  <1>9. QED
    BY <1>1, <1>2, <1>3, <1>4, <1>5, <1>6, <1>7, <1>8 DEF Next

(* ExtractionController and ScaleController keep their fields in their      *)
(* types, for every set of profiles, weights and keys and every limit.      *)
THEOREM TypeCorrect == Spec => []TypeOK
  BY InitType, NextType, PTL DEF Spec

(* A turn of the workflow ends the shot, leaves no shot, or goes on with it. *)
Over == ~Active(shot') /\ ~Weighted(shot')

(* A shot goes on: it is not at its deadline, has the phase of its age,     *)
(* falls back without a weight, and its pump follows a new phase.           *)
GoesOn ==
  /\ Active(shot) /\ ~failSafe
  /\ shot.age < Deadline(Watched(shot))
  /\ shot' \in Shots
  /\ shot'.phase = PhaseAt(shot.selection, shot.age)
  /\ shot'.selection = shot.selection /\ shot'.cutoff = shot.cutoff
  /\ shot'.age = shot.age
  /\ shot'.fallback = (shot.fallback \/ FallsBack(shot))
  /\ \/ shot'.phase = shot.phase /\ UNCHANGED <<pump, latched>>
     \/ /\ shot'.phase # shot.phase
        /\ Pumping(shot'.phase) => MayPump
        /\ pump' = IF Pumping(shot'.phase) THEN RunningPump ELSE StoppedPump

(* A step that leaves the pump unknown latches.                             *)
NoUnknown == pump'.unknown => latched'

(* Finishing a shot leaves none, and commands the pump off.                 *)
LEMMA OverAfterFinish ==
  ASSUME NEW s \in Shots, NEW elapsed, NEW seen, NEW off,
         Finish(s, elapsed, seen, off)
  PROVE  Over /\ PumpOff(off)
  BY EndedIsShot DEF Finish, Over

(* A stop ends the shot if there is one, commands the pump off, and         *)
(* latches a failing command.                                               *)
LEMMA StopShotEnds ==
  ASSUME TypeOK, NEW late \in Nat, StopShot(late)
  PROVE  /\ (Active(shot) /\ Over) \/ (~Active(shot) /\ shot' = shot)
         /\ NoUnknown
         /\ \E off \in BOOLEAN : PumpOff(off)
  <1>1. shot \in Shots
    BY DEF TypeOK
  <1>2. PICK off \in BOOLEAN :
          /\ IF Active(shot)
             THEN LET heard == IF shot.age > late THEN shot.age - late ELSE 0
                  IN Finish(shot, Elapsed(heard, Total(shot.selection)), FALSE,
                            off)
             ELSE PumpOff(off) /\ UNCHANGED <<shot, record>>
          /\ latched' = (latched \/ ~off)
    BY Zenon DEF StopShot
  <1>3. /\ (Active(shot) /\ Over) \/ (~Active(shot) /\ shot' = shot)
        /\ PumpOff(off)
    BY <1>1, <1>2, OverAfterFinish, Zenon
  <1>4. pump'.unknown => ~off
    BY <1>3, PumpOffType DEF TypeOK
  <1>5. QED
    BY <1>2, <1>3, <1>4, Zenon DEF NoUnknown

(* A fail-safe turn does so too, and latches anyhow.                        *)
LEMMA FailSafeEnds ==
  ASSUME TypeOK, FailSafe
  PROVE  /\ (Active(shot) /\ Over) \/ (~Active(shot) /\ shot' = shot)
         /\ latched' = TRUE
         /\ \E off \in BOOLEAN : PumpOff(off)
  <1>1. shot \in Shots
    BY DEF TypeOK
  <1>2. QED
    BY <1>1, OverAfterFinish, Zenon DEF FailSafe

(* And so does completing a shot.                                           *)
LEMMA CompleteEnds ==
  ASSUME TypeOK, NEW s \in Shots, Complete(s)
  PROVE  /\ Over /\ NoUnknown
         /\ \E off \in BOOLEAN : PumpOff(off)
  <1>1. PICK off \in BOOLEAN :
          /\ Finish(s, IF WeightReached(s) THEN s.age ELSE Deadline(s),
                    HasWeight(scale), off)
          /\ latched' = (latched \/ ~off)
    BY Zenon DEF Complete
  <1>2. Over /\ PumpOff(off)
    BY <1>1, OverAfterFinish, Zenon
  <1>3. pump'.unknown => ~off
    BY <1>2, PumpOffType DEF TypeOK
  <1>4. QED
    BY <1>1, <1>2, <1>3, Zenon DEF NoUnknown

(* Going on with a watched shot goes on, or fails to enter a phase,         *)
(* latches and ends the shot.                                               *)
LEMMA GoOnGoesOn ==
  ASSUME TypeOK, Active(shot), ~failSafe, GoOn(Watched(shot))
  PROVE  \/ GoesOn
         \/ Over /\ latched' = TRUE /\ \E off \in BOOLEAN : PumpOff(off)
  <1> DEFINE s == Watched(shot)
             next == PhaseAt(s.selection, s.age)
  <1>1. shot \in Shots
    BY DEF TypeOK
  <1>2. /\ s \in Shots /\ s.phase = shot.phase
        /\ s.selection = shot.selection /\ s.cutoff = shot.cutoff
        /\ s.age = shot.age
        /\ s.fallback = (shot.fallback \/ FallsBack(shot))
    BY <1>1, WatchedIsShot, Zenon
  <1>3. s.age < Deadline(s)
    BY DEF GoOn
  <1>4. CASE next = s.phase /\ shot' = s /\ UNCHANGED <<pump, latched>>
    BY <1>2, <1>3, <1>4, Zenon DEF GoesOn
  <1>5. CASE /\ next # s.phase /\ (Pumping(next) => MayPump)
             /\ shot' = [s EXCEPT !.phase = next]
             /\ pump' = IF Pumping(next) THEN RunningPump ELSE StoppedPump
    <2>1. next \in Phases
      BY <1>2, PhaseAtType, DurationsAssumption DEF Shots
    <2>2. /\ shot' \in Shots /\ shot'.phase = next
          /\ shot'.selection = s.selection /\ shot'.cutoff = s.cutoff
          /\ shot'.age = s.age /\ shot'.fallback = s.fallback
      BY <1>2, <1>5, <2>1, Zenon DEF Shots
    <2>3. QED
      BY <1>2, <1>3, <1>5, <2>2, Zenon DEF GoesOn
  <1>6. CASE /\ shot' = Ended(s) /\ latched' = TRUE
             /\ \E off \in BOOLEAN : PumpOff(off)
    BY <1>2, <1>6, EndedIsShot, Zenon DEF Over
  <1>7. QED
    BY <1>4, <1>5, <1>6, Zenon DEF GoOn

(* These are the things a workflow turn does to a shot and its pump.        *)
LEMMA WorkflowShot ==
  ASSUME TypeOK, WorkflowUpdate
  PROVE  \/ GoesOn
         \/ Over /\ \E off \in BOOLEAN : PumpOff(off)
         \/ /\ ~Active(shot) /\ shot' = shot
            /\ pump' = pump \/ \E off \in BOOLEAN : PumpOff(off)
  <1>1. shot \in Shots /\ Watched(shot) \in Shots
    BY WatchedIsShot DEF TypeOK
  <1>2. CASE failSafe
    BY <1>2, FailSafeEnds, Zenon DEF WorkflowUpdate
  <1>3. CASE ~failSafe /\ Active(shot)
    BY <1>1, <1>3, CompleteEnds, GoOnGoesOn, Zenon DEF WorkflowUpdate
  <1>4. CASE ~failSafe /\ ~Active(shot)
    BY <1>4, Zenon DEF WorkflowUpdate, Rest
  <1>5. QED
    BY <1>2, <1>3, <1>4

(* A pump that has just been commanded is known.                            *)
LEMMA StoppedIsKnown == ~StoppedPump.unknown /\ ~RunningPump.unknown
  BY DEF StoppedPump, RunningPump

(* No workflow turn forgets a failing off command.                          *)
LEMMA WorkflowUnknown ==
  ASSUME TypeOK, UnknownIsLatched, WorkflowUpdate
  PROVE  NoUnknown
  <1>1. CASE failSafe
    BY <1>1, FailSafeEnds, Zenon DEF WorkflowUpdate, NoUnknown
  <1>2. CASE ~failSafe /\ Active(shot)
    <2>1. shot \in Shots /\ Watched(shot) \in Shots
      BY WatchedIsShot DEF TypeOK
    <2>2. CASE Complete(Watched(shot))
      BY <2>1, <2>2, CompleteEnds
    <2>3. CASE GoOn(Watched(shot))
      BY <1>2, <2>3, GoOnGoesOn, StoppedIsKnown, Zenon
         DEF GoesOn, NoUnknown, UnknownIsLatched
    <2>4. QED
      BY <1>2, <2>2, <2>3, Zenon DEF WorkflowUpdate
  <1>3. CASE ~failSafe /\ ~Active(shot)
    <2>1. CASE PumpIsOff
      BY <1>3, <2>1, Zenon DEF WorkflowUpdate, Rest, PumpIsOff, NoUnknown
    <2>2. CASE ~PumpIsOff
      <3>1. PICK off \in BOOLEAN : PumpOff(off) /\ latched' = (latched \/ ~off)
        BY <1>3, <2>2, Zenon DEF WorkflowUpdate, Rest
      <3>2. pump'.unknown => ~off
        BY <3>1, PumpOffType DEF TypeOK
      <3>3. QED
        BY <3>1, <3>2, Zenon DEF NoUnknown
    <2>3. QED
      BY <2>1, <2>2
  <1>4. QED
    BY <1>1, <1>2, <1>3

(* Neither does any other step: an emergency's failure is left to the       *)
(* workflow by fail_safe_requested, which only the turn that latches        *)
(* resets.                                                                  *)
LEMMA NextUnknown ==
  ASSUME TypeOK, UnknownIsLatched, [Next]_vars
  PROVE  UnknownIsLatched'
  <1>1. CASE WorkflowUpdate
    BY <1>1, WorkflowUnknown, Zenon DEF NoUnknown, UnknownIsLatched
  <1>2. CASE Serve
    <2>1. ASSUME NEW key \in Keys, NEW selection \in Selections,
                 NEW cutoff \in Cutoffs \cup {NoWeight},
                 StartShot(key, selection, cutoff)
          PROVE  NoUnknown
      BY <2>1, StoppedIsKnown, Zenon DEF StartShot, NoUnknown
    <2>2. CASE RequestStop
      <3>1. \E late \in Nat : StopShot(late)
        BY <2>2, DurationsAssumption DEF RequestStop
      <3>2. QED
        BY <3>1, StopShotEnds, Zenon DEF NoUnknown, UnknownIsLatched
    <2>3. CASE Acknowledge
      BY <2>3, Zenon DEF Acknowledge, Request, UnknownIsLatched
    <2>4. CASE \/ StartCalibration \/ CancelCalibration
               \/ (\E candidate \in Calibrations : PrepareCompletion(candidate))
               \/ SaveCalibration \/ AdoptCalibration \/ DropCalibration
      <3>1. UNCHANGED <<pump, latched, failSafe>>
        BY <2>4, Zenon DEF StartCalibration, CancelCalibration,
           PrepareCompletion, SaveCalibration, AdoptCalibration,
           DropCalibration, OnlyScale
      <3>2. QED
        BY <3>1, Zenon DEF UnknownIsLatched
    <2>5. QED
      BY <1>2, <2>1, <2>2, <2>3, <2>4, Zenon
         DEF Serve, NoUnknown, UnknownIsLatched
  <1>3. CASE Weigh
    BY <1>3, Zenon DEF Weigh, Sample, LoseScale, OnlyScale, UnknownIsLatched
  <1>4. CASE MissLock \/ MissInCompletion
    BY <1>4, Zenon DEF MissLock, MissInCompletion, Emergency, UnknownIsLatched
  <1>5. CASE Tick
    BY <1>5, Zenon DEF Tick, UnknownIsLatched
  <1>6. CASE Restart
    BY <1>6, StoppedIsKnown, Zenon DEF Restart, UnknownIsLatched
  <1>7. CASE UNCHANGED vars
    BY <1>7, Zenon DEF vars, UnknownIsLatched
  <1>8. QED
    BY <1>1, <1>2, <1>3, <1>4, <1>5, <1>6, <1>7 DEF Next

(* Whatever fails in whatever task, a pump nobody knows the state of is a   *)
(* latched fault, or is one at the workflow's next turn.                    *)
THEOREM UnknownIsFault == Spec => []UnknownIsLatched
  <1>1. Init => UnknownIsLatched
    BY StoppedIsKnown, Zenon DEF Init, UnknownIsLatched
  <1>2. QED
    BY <1>1, TypeCorrect, NextUnknown, PTL DEF Spec

(* What the calibration steps keep between them.                            *)
CalibrationOK == PendingIsCalibrating /\ SavesPending /\ NoneStored

(* Everything but a calibration's steps leaves its state as it is.          *)
KeepsCalibration ==
  /\ UNCHANGED nvs
  /\ scale'.cal = scale.cal /\ scale'.calibrating = scale.calibrating
  /\ scale'.pending = scale.pending

(* The steps that are not of a calibration leave its state alone.           *)
LEMMA ShotKeepsCalibration ==
  ASSUME TypeOK,
         \/ WorkflowUpdate \/ Weigh \/ Tick \/ RequestStop \/ Acknowledge
         \/ MissLock \/ UNCHANGED vars
         \/ \E key \in Keys, selection \in Selections,
               cutoff \in Cutoffs \cup {NoWeight} :
               StartShot(key, selection, cutoff)
  PROVE  KeepsCalibration /\ UNCHANGED api
  <1>1. CASE Weigh
    BY <1>1, Zenon DEF Weigh, Sample, LoseScale, KeepsCalibration, TypeOK, Scales
  <1>2. CASE UNCHANGED vars
    BY <1>2, Zenon DEF vars, KeepsCalibration
  <1>3. CASE ~Weigh /\ ~UNCHANGED vars
    BY <1>3, Zenon DEF WorkflowUpdate, Tick, RequestStop, Acknowledge,
       MissLock, Emergency, StartShot, Request, KeepsCalibration
  <1>4. QED
    BY <1>1, <1>2, <1>3

(* Every step keeps CalibrationOK, and only a failed second save makes      *)
(* the scale forget what is stored.                                         *)
LEMMA NextCalibration ==
  ASSUME TypeOK, CalibrationOK, [Next]_vars
  PROVE  /\ CalibrationOK'
         /\ KnowsStored /\ ~KnowsStored' => api = "drop"
  <1> DEFINE Goal == /\ CalibrationOK'
                     /\ KnowsStored /\ ~KnowsStored' => api = "drop"
  <1> USE ValuesAssumption
      DEF CalibrationOK, PendingIsCalibrating, SavesPending, NoneStored,
          KnowsStored
  <1>1. CASE KeepsCalibration /\ api' \in {api, "idle"}
    BY <1>1 DEF KeepsCalibration
  <1>2. CASE \/ WorkflowUpdate \/ Weigh \/ Tick \/ MissLock
             \/ UNCHANGED vars \/ RequestStop \/ Acknowledge
             \/ \E key \in Keys, selection \in Selections,
                   cutoff \in Cutoffs \cup {NoWeight} :
                   StartShot(key, selection, cutoff)
    BY <1>1, <1>2, ShotKeepsCalibration, Zenon
  <1>3. CASE MissInCompletion
    BY <1>1, <1>3, Zenon DEF MissInCompletion, Emergency, KeepsCalibration
  <1>4. CASE StartCalibration \/ CancelCalibration
    BY <1>4 DEF StartCalibration, CancelCalibration, TypeOK, Scales
  <1>5. ASSUME NEW candidate \in Calibrations, PrepareCompletion(candidate)
        PROVE  Goal
    BY <1>5 DEF PrepareCompletion, TypeOK, Scales
  <1>6. CASE SaveCalibration
    BY <1>6 DEF SaveCalibration
  <1>7. CASE AdoptCalibration
    BY <1>7 DEF AdoptCalibration, TypeOK, Scales
  <1>8. CASE DropCalibration
    BY <1>8 DEF DropCalibration, TypeOK, Scales
  <1>9. CASE Restart
    BY <1>9, BootType DEF Restart, TypeOK
  <1>10. QED
    BY <1>2, <1>3, <1>4, <1>5, <1>6, <1>7, <1>8, <1>9, Zenon DEF Next, Serve

(* The scale weighs with the calibration a restart would load, or has it    *)
(* pending: a lost mutex between NVS and adoption is made up for.           *)
THEOREM StoredIsKnown == Spec => ScaleKnowsStored
  <1>1. Init => CalibrationOK
    BY ValuesAssumption, BootType
       DEF Init, CalibrationOK, PendingIsCalibrating, SavesPending, NoneStored
  <1>2. Spec => [](TypeOK /\ CalibrationOK)
    BY <1>1, TypeCorrect, NextCalibration, PTL DEF Spec
  <1>3. TypeOK /\ CalibrationOK /\ [Next]_vars
          => [KnowsStored /\ ~KnowsStored' => api = "drop"]_vars
    BY NextCalibration
  <1>4. QED
    BY <1>2, <1>3, PTL DEF Spec, ScaleKnowsStored

-----------------------------------------------------------------------------

(* A shot's first phase pumps and is not the soak.                          *)
LEMMA FirstPhase ==
  ASSUME NEW sel \in Selections
  PROVE  PhaseAt(sel, 0) \in {"manual", "pre_infusion", "main_extraction"}
  BY ProfilesAssumption DEF PhaseAt, Selections

(* What a start leaves: no shot, or one in its first phase.                  *)
Begins(selection, cutoff) ==
  /\ shot' \in Shots /\ MayPump /\ pump' = RunningPump
  /\ shot'.phase = PhaseAt(selection, 0) /\ shot'.selection = selection
  /\ shot'.cutoff = cutoff /\ shot'.age \in 0..Late /\ shot'.fallback = FALSE

(* A start request begins a shot, or fails and leaves none.                 *)
LEMMA StartShotBegins ==
  ASSUME TypeOK, NEW key \in Keys, NEW selection \in Selections,
         NEW cutoff \in Cutoffs \cup {NoWeight},
         StartShot(key, selection, cutoff)
  PROVE  /\ ~Active(shot)
         /\ cutoff # NoWeight => MayWeigh(selection)
         /\ UNCHANGED <<api, inhibited, failSafe, due, nvs, warning, scale>>
         /\ \/ Begins(selection, cutoff)
            \/ Over /\ \E off \in BOOLEAN : PumpOff(off)
  <1> DEFINE begun == [phase |-> PhaseAt(selection, 0), selection |-> selection,
                       cutoff |-> cutoff, key |-> key, age |-> 0,
                       fallback |-> FALSE]
  <1>1. PhaseAt(selection, 0) \in Phases
    BY PhaseAtType
  <1>2. \A late \in 0..Late : late \in 0..MaxDuration
    BY DurationsAssumption
  <1>3. 0 \in 0..MaxDuration
    BY DurationsAssumption
  <1>4. begun \in Shots
    BY <1>1, <1>3, Zenon DEF Shots
  <1>5. ASSUME \E late \in 0..Late :
                 MayPump /\ shot' = [begun EXCEPT !.age = late]
                   /\ pump' = RunningPump /\ UNCHANGED latched
        PROVE  Begins(selection, cutoff)
    <2>1. PICK late \in 0..Late :
            MayPump /\ shot' = [begun EXCEPT !.age = late]
              /\ pump' = RunningPump /\ UNCHANGED latched
      BY <1>5
    <2>2. late \in 0..MaxDuration
      BY <1>2
    <2>3. shot' \in Shots
      BY <2>1, <2>2, <1>4, Zenon DEF Shots
    <2>4. QED
      BY <2>1, <2>3 DEF Begins
  <1>6. ASSUME \E off \in BOOLEAN :
                 PumpOff(off) /\ shot' = Ended(begun) /\ latched' = TRUE
        PROVE  Over /\ \E off \in BOOLEAN : PumpOff(off)
    BY <1>4, <1>6, EndedIsShot, Zenon DEF Over
  <1>7. \/ Begins(selection, cutoff)
        \/ Over /\ \E off \in BOOLEAN : PumpOff(off)
    BY <1>5, <1>6, Zenon DEF StartShot
  <1>8. QED
    BY <1>7, Zenon DEF StartShot, Request

(* The steps that have nothing to do with a shot, except that an emergency   *)
(* asks the workflow to end it.                                             *)
KeepsShot ==
  /\ shot' = shot
  /\ \/ UNCHANGED <<failSafe, due, pump>>
     \/ failSafe' = TRUE /\ \E off \in BOOLEAN : PumpOff(off)

(* The requests and tasks that do not run shots keep it.                    *)
LEMMA OthersKeepShot ==
  ASSUME \/ Acknowledge \/ StartCalibration \/ CancelCalibration
         \/ \E candidate \in Calibrations : PrepareCompletion(candidate)
         \/ SaveCalibration \/ AdoptCalibration \/ DropCalibration
         \/ Weigh \/ MissLock \/ MissInCompletion \/ UNCHANGED vars
  PROVE  KeepsShot /\ (warning' = warning \/ warning' = FALSE)
  BY Zenon DEF Acknowledge, Request, StartCalibration, CancelCalibration,
     PrepareCompletion, SaveCalibration, AdoptCalibration, DropCalibration,
     OnlyScale, Weigh, Sample, LoseScale, MissLock, MissInCompletion,
     Emergency, vars, KeepsShot

(* No shot is left, and its pump was commanded off.                          *)
Idles ==
  /\ ~Active(shot')
  /\ \/ \E off \in BOOLEAN : PumpOff(off)
     \/ ~Active(shot) /\ pump' = pump
     \/ pump' = StoppedPump

(* What each step of the system does to a shot.                             *)
LEMMA EndsOrBegins ==
  ASSUME TypeOK, [Next]_vars
  PROVE  \/ WorkflowUpdate /\ GoesOn
         \/ Idles
         \/ \E selection \in Selections, cutoff \in Cutoffs \cup {NoWeight} :
              /\ ~Active(shot) /\ Begins(selection, cutoff)
              /\ cutoff # NoWeight => MayWeigh(selection)
              /\ UNCHANGED <<warning, scale>>
         \/ Acknowledge \/ StartCalibration \/ CancelCalibration
         \/ \E candidate \in Calibrations : PrepareCompletion(candidate)
         \/ SaveCalibration \/ AdoptCalibration \/ DropCalibration
         \/ Weigh \/ MissLock \/ MissInCompletion \/ UNCHANGED vars
         \/ Tick
  <1>1. CASE WorkflowUpdate
    BY <1>1, WorkflowShot, Zenon DEF Over, Idles
  <1>2. ASSUME NEW key \in Keys, NEW selection \in Selections,
               NEW cutoff \in Cutoffs \cup {NoWeight},
               StartShot(key, selection, cutoff)
        PROVE  \/ Idles
               \/ /\ ~Active(shot) /\ Begins(selection, cutoff)
                  /\ cutoff # NoWeight => MayWeigh(selection)
                  /\ UNCHANGED <<warning, scale>>
    BY <1>2, StartShotBegins, Zenon DEF Over, Idles
  <1>3. CASE RequestStop
    <2>1. \E late \in Nat : StopShot(late)
      BY <1>3, DurationsAssumption DEF RequestStop
    <2>2. QED
      BY <2>1, StopShotEnds, Zenon DEF Over, Idles
  <1>4. CASE Restart
    <2>1. ~Active(shot')
      BY <1>4, BootType, Zenon DEF Restart, TypeOK
    <2>2. QED
      BY <1>4, <2>1, Zenon DEF Restart, Idles
  <1>5. QED
    BY <1>1, <1>2, <1>3, <1>4, Zenon DEF Next, Serve

(* So there are five kinds of steps for a shot.                               *)
LEMMA KindsOfSteps ==
  ASSUME TypeOK, [Next]_vars
  PROVE  \/ WorkflowUpdate /\ GoesOn
         \/ Idles
         \/ \E selection \in Selections, cutoff \in Cutoffs \cup {NoWeight} :
              /\ ~Active(shot) /\ Begins(selection, cutoff)
              /\ cutoff # NoWeight => MayWeigh(selection)
              /\ UNCHANGED <<warning, scale>>
         \/ KeepsShot /\ (warning' = warning \/ warning' = FALSE)
         \/ Tick
  BY EndsOrBegins, OthersKeepShot, Zenon

(* Every step keeps WarningIsOwn: a weighted start is refused under a       *)
(* warning, and only a shot that falls back raises it.                      *)
LEMMA NextWarning ==
  ASSUME TypeOK, WarningIsOwn, [Next]_vars
  PROVE  WarningIsOwn'
  <1>1. CASE WorkflowUpdate /\ GoesOn
    BY <1>1, Zenon DEF WorkflowUpdate, GoesOn, WarningIsOwn, Active, Weighted
  <1>2. CASE Idles
    BY <1>2, Zenon DEF Idles, WarningIsOwn
  <1>3. ASSUME NEW selection \in Selections, NEW cutoff \in Cutoffs \cup {NoWeight},
               Begins(selection, cutoff),
               cutoff # NoWeight => MayWeigh(selection),
               UNCHANGED <<warning, scale>>
        PROVE  WarningIsOwn'
    BY <1>3, Zenon DEF Begins, MayWeigh, WarningIsOwn, Weighted
  <1>4. CASE KeepsShot /\ (warning' = warning \/ warning' = FALSE)
    BY <1>4, Zenon DEF KeepsShot, WarningIsOwn
  <1>5. CASE Tick
    <2>1. UNCHANGED warning /\ shot'.cutoff = shot.cutoff
            /\ shot'.fallback = shot.fallback /\ shot'.phase = shot.phase
      BY <1>5, Zenon DEF Tick, TypeOK, Shots
    <2>2. QED
      BY <2>1, Zenon DEF WarningIsOwn, Active, Weighted
  <1>6. QED
    BY <1>1, <1>2, <1>3, <1>4, <1>5, KindsOfSteps, Zenon

(* Every step keeps WeighsOnce: a weighted start needs a scale that is      *)
(* not calibrating, hence has nothing pending, and calibrations wait for    *)
(* the shot to end.                                                         *)
LEMMA NextWeighs ==
  ASSUME TypeOK, WeighsOnce, PendingIsCalibrating, [Next]_vars
  PROVE  WeighsOnce'
  <1>1. CASE WorkflowUpdate /\ GoesOn
    BY <1>1, Zenon DEF WorkflowUpdate, GoesOn, WeighsOnce, Active, Weighted
  <1>2. CASE Idles
    BY <1>2, Zenon DEF Idles, WeighsOnce
  <1>3. ASSUME NEW selection \in Selections, NEW cutoff \in Cutoffs \cup {NoWeight},
               Begins(selection, cutoff),
               cutoff # NoWeight => MayWeigh(selection),
               UNCHANGED <<warning, scale>>
        PROVE  WeighsOnce'
    <2>1. cutoff # NoWeight => ~scale.calibrating /\ scale.pending = None
      BY <1>3, Zenon DEF MayWeigh, HasWeight, Calibrated, PendingIsCalibrating
    <2>2. QED
      BY <1>3, <2>1, Zenon DEF Begins, WeighsOnce, Weighted
  <1>4. CASE \/ StartCalibration
             \/ \E candidate \in Calibrations : PrepareCompletion(candidate)
    BY <1>4, Zenon DEF StartCalibration, PrepareCompletion, OnlyScale, WeighsOnce
  <1>5. CASE CancelCalibration \/ SaveCalibration
    <2>1. shot' = shot /\ scale'.pending = scale.pending
            /\ (scale'.calibrating = scale.calibrating \/ scale'.calibrating = FALSE)
      BY <1>5, Zenon DEF CancelCalibration, SaveCalibration, OnlyScale, TypeOK,
         Scales
    <2>2. QED
      BY <2>1, Zenon DEF WeighsOnce
  <1>6. CASE AdoptCalibration \/ DropCalibration
    <2>1. shot' = shot /\ scale'.pending = None
            /\ (scale'.calibrating = scale.calibrating \/ scale'.calibrating = FALSE)
      BY <1>6, Zenon DEF AdoptCalibration, DropCalibration, OnlyScale, TypeOK,
         Scales
    <2>2. QED
      BY <2>1, Zenon DEF WeighsOnce
  <1>7. CASE Weigh
    <2>1. shot' = shot /\ scale'.pending = scale.pending
            /\ scale'.calibrating = scale.calibrating
      BY <1>7, Zenon DEF Weigh, Sample, LoseScale, OnlyScale, TypeOK, Scales
    <2>2. QED
      BY <2>1, Zenon DEF WeighsOnce
  <1>8. CASE Acknowledge \/ MissLock \/ MissInCompletion \/ UNCHANGED vars
    BY <1>8, Zenon DEF Acknowledge, Request, MissLock, MissInCompletion,
       Emergency, vars, WeighsOnce
  <1>9. CASE Tick
    <2>1. UNCHANGED scale /\ shot'.cutoff = shot.cutoff
            /\ shot'.phase = shot.phase
      BY <1>9, Zenon DEF Tick, TypeOK, Shots
    <2>2. QED
      BY <2>1, Zenon DEF WeighsOnce, Active, Weighted
  <1>10. QED
    BY <1>1, <1>2, <1>3, <1>4, <1>5, <1>6, <1>7, <1>8, <1>9, EndsOrBegins, Zenon

(* Every step keeps ShotIsTimed: a turn goes on only before the deadline,   *)
(* a start is late by less than any total, and a tick asks for a turn.      *)
LEMMA NextTimed ==
  ASSUME TypeOK, ShotIsTimed, [Next]_vars
  PROVE  ShotIsTimed'
  <1>1. CASE WorkflowUpdate /\ GoesOn
    <2>1. shot \in Shots /\ shot.selection \in Selections /\ shot.age \in Nat
      BY DEF TypeOK, Shots
    <2>2. /\ Watched(shot).selection = shot.selection
          /\ Watched(shot).cutoff = shot.cutoff
          /\ Watched(shot).fallback = (shot.fallback \/ FallsBack(shot))
      BY <2>1, WatchedIsShot, Zenon
    <2>3. Deadline(Watched(shot))
            = IF Weighted(shot') /\ ~shot'.fallback THEN MaxDuration
              ELSE Total(shot'.selection)
      BY <1>1, <2>2, Zenon DEF GoesOn, Deadline, Weighted
    <2>4. Total(shot.selection) \in (Late + 1)..MaxDuration
      BY <2>1, TotalBounds
    <2>5. shot'.age = shot.age /\ shot'.selection = shot.selection
            /\ shot.age < Deadline(Watched(shot))
      BY <1>1, Zenon DEF GoesOn
    <2>6. QED
      BY <2>1, <2>3, <2>4, <2>5, DurationsAssumption DEF ShotIsTimed
  <1>2. CASE Idles
    BY <1>2, Zenon DEF Idles, ShotIsTimed
  <1>3. ASSUME NEW selection \in Selections, NEW cutoff \in Cutoffs \cup {NoWeight},
               Begins(selection, cutoff)
        PROVE  ShotIsTimed'
    <2>1. shot'.age \in 0..Late /\ shot'.selection = selection
      BY <1>3, Zenon DEF Begins
    <2>2. Total(selection) \in (Late + 1)..MaxDuration
      BY TotalBounds
    <2>3. QED
      BY <2>1, <2>2, DurationsAssumption DEF ShotIsTimed
  <1>4. CASE KeepsShot
    BY <1>4, Zenon DEF KeepsShot, ShotIsTimed
  <1>5. CASE Tick
    BY <1>5, Zenon DEF Tick, ShotIsTimed
  <1>6. QED
    BY <1>1, <1>2, <1>3, <1>4, <1>5, KindsOfSteps, Zenon

(* Every step keeps PhaseIsPast: ages only grow.                            *)
LEMMA NextPhaseIsPast ==
  ASSUME TypeOK, PhaseIsPast, [Next]_vars
  PROVE  PhaseIsPast'
  <1>1. CASE WorkflowUpdate /\ GoesOn
    <2>1. shot.selection \in Selections /\ shot.age \in Nat
      BY DEF TypeOK, Shots
    <2>2. QED
      BY <1>1, <2>1, PhaseAtType, Zenon DEF GoesOn, PhaseIsPast
  <1>2. CASE Idles
    BY <1>2, Zenon DEF Idles, PhaseIsPast
  <1>3. ASSUME NEW selection \in Selections, NEW cutoff \in Cutoffs \cup {NoWeight},
               Begins(selection, cutoff)
        PROVE  PhaseIsPast'
    <2>1. /\ shot'.phase = PhaseAt(selection, 0)
          /\ shot'.selection = selection /\ shot'.age \in 0..Late
      BY <1>3, Zenon DEF Begins
    <2>2. selection # Manual => selection.pre \in Nat /\ selection.soak \in Nat
      BY ProfilesAssumption DEF Selections
    <2>3. QED
      BY <2>1, <2>2, PhaseAtType, FirstPhase, DurationsAssumption
         DEF PhaseIsPast
  <1>4. CASE KeepsShot
    BY <1>4, Zenon DEF KeepsShot, PhaseIsPast
  <1>5. CASE Tick
    <2>1. /\ shot'.phase = shot.phase /\ shot'.selection = shot.selection
          /\ Active(shot) => shot'.age = Older(shot.age, MaxDuration)
      BY <1>5, Zenon DEF Tick, TypeOK, Shots
    <2>2. shot.age \in 0..MaxDuration /\ shot.selection \in Selections
      BY DEF TypeOK, Shots
    <2>3. Older(shot.age, MaxDuration) \in Nat
            /\ Older(shot.age, MaxDuration) >= shot.age
      BY <2>2, DurationsAssumption DEF Older, Off
    <2>4. shot.selection # Manual =>
            shot.selection.pre \in Nat /\ shot.selection.soak \in Nat
      BY <2>2, ProfilesAssumption DEF Selections
    <2>5. QED
      BY <2>1, <2>2, <2>3, <2>4 DEF PhaseIsPast, Active
  <1>6. QED
    BY <1>1, <1>2, <1>3, <1>4, <1>5, KindsOfSteps, Zenon

(* Every step keeps PumpFollows: only an emergency commands the pump        *)
(* against a running shot, and it requests the fail-safe.                   *)
LEMMA NextPumpFollows ==
  ASSUME TypeOK, PumpFollows, [Next]_vars
  PROVE  PumpFollows'
  <1>1. CASE WorkflowUpdate /\ GoesOn
    BY <1>1, Zenon DEF GoesOn, PumpFollows
  <1>2. CASE Idles
    BY <1>2, Zenon DEF Idles, PumpFollows
  <1>3. ASSUME NEW selection \in Selections, NEW cutoff \in Cutoffs \cup {NoWeight},
               Begins(selection, cutoff)
        PROVE  PumpFollows'
    <2>1. Pumping(PhaseAt(selection, 0))
      BY FirstPhase DEF Pumping
    <2>2. QED
      BY <1>3, <2>1, Zenon DEF Begins, PumpFollows
  <1>4. CASE KeepsShot
    BY <1>4, Zenon DEF KeepsShot, PumpFollows
  <1>5. CASE Tick
    <2>1. shot'.phase = shot.phase /\ UNCHANGED <<pump, failSafe>>
      BY <1>5, Zenon DEF Tick, TypeOK, Shots
    <2>2. QED
      BY <2>1, Zenon DEF PumpFollows, Active
  <1>6. QED
    BY <1>1, <1>2, <1>3, <1>4, <1>5, KindsOfSteps, Zenon

(* No weighted shot runs under an earlier one's warning: a client must      *)
(* have acknowledged it.                                                    *)
THEOREM WarningIsItsOwn == Spec => []WarningIsOwn
  <1>1. Init => WarningIsOwn
    BY Zenon DEF Init, WarningIsOwn
  <1>2. QED
    BY <1>1, TypeCorrect, NextWarning, PTL DEF Spec

(* CalibrationOK holds at boot,                                             *)
LEMMA InitCalibration == Init => CalibrationOK
  BY ValuesAssumption, BootType
     DEF Init, CalibrationOK, PendingIsCalibrating, SavesPending, NoneStored

(* and ever after.                                                          *)
LEMMA CalibrationCorrect == Spec => []CalibrationOK
  BY InitCalibration, TypeCorrect, NextCalibration, PTL DEF Spec

(* There is no shot at boot.                                                *)
LEMMA InitShot == Init => ~Active(shot)
  BY BootType, Zenon DEF Init

(* A weighted shot is tared and weighed by one calibration.                 *)
THEOREM WeighedByOne == Spec => []WeighsOnce
  <1>1. Init => WeighsOnce
    BY InitShot, Zenon DEF WeighsOnce
  <1>2. CalibrationOK => PendingIsCalibrating
    BY DEF CalibrationOK
  <1>3. QED
    BY <1>1, <1>2, TypeCorrect, CalibrationCorrect, NextWeighs, PTL DEF Spec

(* However the scale fails and comes back, no shot is still running after   *)
(* a workflow turn at the independent limit, or, unless it is weighed all   *)
(* along, at its profile's end.                                             *)
THEOREM ShotsAreTimed == Spec => []ShotIsTimed
  <1>1. Init => ShotIsTimed
    BY InitShot, Zenon DEF ShotIsTimed
  <1>2. QED
    BY <1>1, TypeCorrect, NextTimed, PTL DEF Spec

(* A shot's phase is behind its age, and its pump is where the phase        *)
(* wants it.                                                                *)
LEMMA PhaseAndPump == Spec => [](PhaseIsPast /\ PumpFollows)
  <1>1. Init => PhaseIsPast /\ PumpFollows
    BY InitShot, Zenon DEF PhaseIsPast, PumpFollows
  <1>2. QED
    BY <1>1, TypeCorrect, NextPhaseIsPast, NextPumpFollows, PTL DEF Spec

-----------------------------------------------------------------------------

(* The pump as Shot sees it.                                                *)
PumpState ==
  IF pump.unknown THEN "unknown" ELSE IF pump.running THEN "running" ELSE "off"

(* The two commanded pump states, as Shot sees them.                        *)
LEMMA PumpStates ==
  /\ pump = StoppedPump => PumpState = "off"
  /\ pump = RunningPump => PumpState = "running"
  BY DEF StoppedPump, RunningPump, PumpState

(* An off command leaves the pump off or unknown.                           *)
LEMMA PumpIsCut ==
  ASSUME TypeOK, NEW off \in BOOLEAN, PumpOff(off)
  PROVE  PumpState' \in {"off", "unknown"}
  <1>1. CASE off
    BY <1>1 DEF PumpOff, StoppedPump, PumpState
  <1>2. CASE ~off
    BY <1>2, Zenon DEF PumpOff, PumpState, TypeOK, Pumps
  <1>3. QED
    BY <1>1, <1>2

(* A shot that goes on advances to a phase that may follow, from a pump     *)
(* that does what the phase says.                                           *)
LEMMA GoingOnAdvances ==
  ASSUME TypeOK, PhaseIsPast, PumpFollows, GoesOn
  PROVE  [Promise!Next]_<<shot.phase, PumpState>>
  <1>1. shot.selection \in Selections /\ shot.age \in Nat
    BY DEF TypeOK, Shots
  <1>2. CASE shot'.phase = shot.phase /\ UNCHANGED pump
    BY <1>2 DEF PumpState
  <1>3. CASE /\ shot'.phase # shot.phase
             /\ pump' = IF Pumping(shot'.phase) THEN RunningPump ELSE StoppedPump
    <2>1. /\ shot'.phase \in Phases \ {"idle"}
          /\ shot'.phase = "manual" <=> shot.selection = Manual
      BY <1>1, PhaseAtType, Zenon DEF GoesOn
    <2>2. shot.phase \in Phases \ {"idle", "manual"}
      BY <2>1, <1>3, Zenon DEF GoesOn, PhaseIsPast, TypeOK, Shots, Active
    <2>3. shot'.phase \in Promise!After(shot.phase)
      <3>1. shot.selection \in Profiles
        BY <1>1, <1>3, <2>1, <2>2 DEF Selections, PhaseIsPast, GoesOn
      <3>2. shot.selection.pre \in Nat /\ shot.selection.soak \in Nat
        BY <3>1, ProfilesAssumption
      <3>3. QED
        BY <1>1, <1>3, <2>1, <2>2, <3>1, <3>2, ProfilesAssumption
           DEF Promise!After, PhaseAt, GoesOn, PhaseIsPast, Phases
    <2>4. PumpState = Promise!Command(shot.phase)
      BY <2>2, PumpStates DEF GoesOn, PumpFollows, Pumping, Promise!Command
    <2>5. PumpState' = Promise!Command(shot'.phase)
      BY <1>3, <2>1 DEF Pumping, Promise!Command, PumpState, RunningPump, StoppedPump
    <2>6. QED
      BY <2>3, <2>4, <2>5 DEF Promise!Next, Promise!Advance, PumpState
  <1>4. QED
    BY <1>2, <1>3, Zenon DEF GoesOn

(* Every step of the controllers is a step of Shot, or a stutter.           *)
LEMMA StepPromised ==
  ASSUME TypeOK, PhaseIsPast, PumpFollows, [Next]_vars
  PROVE  [Promise!Next]_<<shot.phase, PumpState>>
  <1> DEFINE Goal == [Promise!Next]_<<shot.phase, PumpState>>
  <1>1. \A off \in BOOLEAN : PumpOff(off) => PumpState' \in {"off", "unknown"}
    BY PumpIsCut
  <1>2. ASSUME UNCHANGED shot.phase, PumpState' \in {"off", "unknown"}
        PROVE  Goal
    BY <1>2, Zenon DEF Promise!Next, Promise!Cut, PumpState
  <1>3. ASSUME UNCHANGED shot.phase, UNCHANGED pump
        PROVE  Goal
    BY <1>3, Zenon DEF PumpState
  <1>4. CASE WorkflowUpdate /\ GoesOn
    BY <1>4, GoingOnAdvances
  <1>5. CASE Idles
    <2>1. CASE Active(shot)
      <3>1. PumpState' \in {"off", "unknown"}
        BY <1>1, <1>5, <2>1, PumpStates DEF Idles, PumpState, StoppedPump
      <3>2. QED
        BY <1>5, <2>1, <3>1, Zenon
           DEF Idles, Active, Promise!Next, Promise!End, PumpState
    <2>2. CASE ~Active(shot)
      <3>1. UNCHANGED shot.phase
        BY <1>5, <2>2, Zenon DEF Idles, Active
      <3>2. PumpState' \in {"off", "unknown"} \/ UNCHANGED pump
        BY <1>1, <1>5, <2>2 DEF Idles, PumpState, StoppedPump
      <3>3. QED
        BY <1>2, <1>3, <3>1, <3>2, Zenon
    <2>3. QED
      BY <2>1, <2>2
  <1>6. ASSUME NEW selection \in Selections, NEW cutoff \in Cutoffs \cup {NoWeight},
               Begins(selection, cutoff), ~Active(shot)
        PROVE  Goal
    <2>1. shot'.phase \in Promise!First
      BY <1>6, FirstPhase, Zenon DEF Begins, Promise!First
    <2>2. PumpState' = Promise!Command(shot'.phase)
      BY <1>6, <2>1
         DEF Begins, PumpState, RunningPump, Promise!First, Promise!Command
    <2>3. PumpState # "unknown" /\ shot.phase = "idle"
      BY <1>6 DEF Begins, MayPump, PumpState, Active
    <2>4. QED
      BY <2>1, <2>2, <2>3, Zenon DEF Promise!Next, Promise!Begin, PumpState
  <1>7. CASE KeepsShot
    BY <1>1, <1>2, <1>3, <1>7, Zenon DEF KeepsShot
  <1>8. CASE Tick
    <2>1. UNCHANGED shot.phase /\ UNCHANGED pump
      BY <1>8, Zenon DEF Tick, TypeOK, Shots
    <2>2. QED
      BY <1>3, <2>1
  <1>9. QED
    BY <1>4, <1>5, <1>6, <1>7, <1>8, KindsOfSteps, Zenon

(* The controllers implement the safety of Shot: phases in order, no pump   *)
(* outside a phase that pumps, and no restart of a pump that was cut.       *)
THEOREM ShotImplemented == Spec => Promise!SafeSpec
  <1>1. Init => Promise!Init
    BY InitShot, PumpStates, Zenon DEF Init, Active, Promise!Init, PumpState
  <1>2. TypeOK /\ PhaseIsPast /\ PumpFollows /\ [Next]_vars
          => [Promise!Next]_<<shot.phase, PumpState>>
    BY StepPromised
  <1>3. QED
    BY <1>1, <1>2, TypeCorrect, PhaseAndPump, PTL
       DEF Spec, Promise!SafeSpec, PumpState

-----------------------------------------------------------------------------

(* A workflow turn ends a shot that has fallen back at its profile's end,   *)
(* or for a fault.                                                          *)
LEMMA FallbackEndsLate ==
  ASSUME TypeOK, WorkflowUpdate, Active(shot), shot.fallback, ~Active(shot')
  PROVE  shot.age >= Total(shot.selection) \/ latched'
  <1>1. shot \in Shots /\ Watched(shot) \in Shots
        /\ shot.selection \in Selections /\ shot.age \in Nat
    BY WatchedIsShot DEF TypeOK, Shots
  <1>2. /\ Watched(shot).selection = shot.selection
        /\ Watched(shot).age = shot.age
        /\ Watched(shot).fallback
    BY <1>1, WatchedIsShot, Zenon
  <1>3. CASE failSafe
    BY <1>3, FailSafeEnds, Zenon DEF WorkflowUpdate
  <1>4. CASE Complete(Watched(shot))
    BY <1>2, <1>4, Zenon DEF Complete, WeightReached, Deadline
  <1>5. CASE ~failSafe /\ GoOn(Watched(shot))
    <2>1. ~GoesOn
      BY <1>1, PhaseAtType, Zenon DEF GoesOn, Active
    <2>2. QED
      BY <1>5, <2>1, GoOnGoesOn, Zenon
  <1>6. QED
    BY <1>3, <1>4, <1>5, Zenon DEF WorkflowUpdate

(* No other step ends it but a stop request and a restart.                  *)
LEMMA NextFallback ==
  ASSUME TypeOK, [Next]_vars, Active(shot), shot.fallback, ~Active(shot')
  PROVE  shot.age >= Total(shot.selection) \/ RequestStop \/ latched' \/ Restart
  <1>1. CASE WorkflowUpdate
    BY <1>1, FallbackEndsLate
  <1>2. ASSUME NEW key \in Keys, NEW selection \in Selections,
               NEW cutoff \in Cutoffs \cup {NoWeight},
               StartShot(key, selection, cutoff)
        PROVE  FALSE
    BY <1>2, StartShotBegins, Zenon
  <1>3. CASE \/ Acknowledge \/ StartCalibration \/ CancelCalibration
             \/ \E candidate \in Calibrations : PrepareCompletion(candidate)
             \/ SaveCalibration \/ AdoptCalibration \/ DropCalibration
             \/ Weigh \/ MissLock \/ MissInCompletion \/ UNCHANGED vars
    BY <1>3, OthersKeepShot, Zenon DEF KeepsShot
  <1>4. CASE Tick
    <2>1. shot'.phase = shot.phase
      BY <1>4, Zenon DEF Tick, TypeOK, Shots
    <2>2. QED
      BY <2>1, Zenon DEF Active
  <1>5. QED
    BY <1>1, <1>2, <1>3, <1>4, Zenon DEF Next, Serve

(* A shot that has fallen back on its timer runs its profile's time,        *)
(* whatever the scale then shows, unless it is stopped or fails.            *)
THEOREM FallbackEnds == Spec => FallbackIsFinal
  <1>1. TypeOK /\ [Next]_vars =>
          [Active(shot) /\ shot.fallback /\ ~Active(shot') =>
             \/ shot.age >= Total(shot.selection)
             \/ RequestStop \/ latched' \/ Restart]_vars
    BY NextFallback, Zenon
  <1>2. QED
    BY <1>1, TypeCorrect, PTL DEF Spec, FallbackIsFinal

===============================================================================
