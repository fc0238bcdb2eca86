-------------------------- MODULE CooldownController --------------------------
(***************************************************************************)
(* CooldownController (control.cpp): the pump-driven cooldown that owns the *)
(* heater inhibit.  It works on three parts of a record m: the temperature  *)
(* controller m.ctl, its own state m.cool, and what the firmware knows of    *)
(* the pump, m.pump (command() and output_state_unknown() of PumpOutput).    *)
(*                                                                         *)
(* A method that drives the outputs takes their outcomes: `pumped` for the   *)
(* pump's calls and `heated` for the heater's.  `age` and `settle` are the   *)
(* ticks since started_at_ms_ and stabilization_started_at_ms_; the elapsed  *)
(* and remaining times of the snapshot are left out.                        *)
(***************************************************************************)
EXTENDS TemperatureController

CONSTANTS
  Keys,           \* idempotency keys clients use
  NoKey,          \* the empty key after reset
  PumpLimit,      \* kCooldownPumpLimitMs, in clock ticks
  Stabilization   \* kCooldownStabilizationMs

ASSUME CooldownAssumption ==
  /\ NoKey \notin Keys
  /\ PumpLimit \in Nat \ {0} /\ Stabilization \in Nat \ {0}

LongestCooldown == PumpLimit + Stabilization

CooldownFields == {"status", "outcome", "age", "settle", "target", "key"}

IsCooldown(c) ==
  /\ DOMAIN c = CooldownFields
  /\ c.status \in {"idle", "pumping", "stabilizing"}
  /\ c.outcome \in {"none", "target_reached", "cutoff", "stopped", "failed"}
  /\ c.age \in 0..LongestCooldown /\ c.settle \in 0..Stabilization
  /\ c.target \in {t.brew : t \in TargetPairs} \cup {0}
  /\ c.key \in Keys \cup {NoKey}

IsPump(p) ==
  /\ DOMAIN p = {"running", "unknown"}
  /\ p.running \in BOOLEAN /\ p.unknown \in BOOLEAN

StoppedPump == [running |-> FALSE, unknown |-> FALSE]
RunningPump == [running |-> TRUE, unknown |-> FALSE]
PumpOff(m, pumped) ==
  IF pumped THEN StoppedPump ELSE [m.pump EXCEPT !.unknown = TRUE]

NoCooldown == [status |-> "idle", outcome |-> "none", age |-> 0, settle |-> 0,
               target |-> 0, key |-> NoKey]
Active(m) == m.cool.status # "idle"

Fail(m, fault, pumped, heated) ==
  [m EXCEPT !.ctl = EndCooldownInhibit(LatchFault(@, fault), heated),
            !.pump = PumpOff(m, pumped),
            !.cool.status = "idle", !.cool.outcome = "failed"]

Complete(m, pumped, heated) ==
  LET ended == [m EXCEPT !.ctl = EndCooldownInhibit(@, heated),
                         !.pump = PumpOff(m, pumped),
                         !.cool.status = "idle"]
  IN IF pumped /\ heated THEN ended
     ELSE [ended EXCEPT !.ctl = LatchFault(@, "internal_error"),
                        !.cool.outcome = "failed"]

(* `settle` is how long ago the stabilization is held to have begun.        *)
EnterStabilization(m, outcome, settle, pumped, heated) ==
  LET quiet == [m EXCEPT !.ctl = ForceOff(@, heated),
                         !.pump = PumpOff(m, pumped)]
      settling == [quiet EXCEPT !.cool.status = "stabilizing",
                                !.cool.outcome = outcome,
                                !.cool.settle = settle]
  IN CASE ~(pumped /\ heated) -> Fail(quiet, "internal_error", pumped, heated)
       [] pumped /\ heated /\ settle >= Stabilization ->
            Complete(settling, pumped, heated)
       [] OTHER -> settling

(* Mutant of CanStart: a shot in progress is not looked at.                  *)
CanStartAlways(m, key, extracting) ==
  /\ key # m.cool.key /\ ~Active(m)
  /\ ReadingOk(m.ctl) /\ ~Faulted(m.ctl)
  /\ Effective(m.ctl) > m.ctl.targets.brew

CanStart(m, key, extracting) ==
  /\ key # m.cool.key /\ ~Active(m)
  /\ ReadingOk(m.ctl) /\ ~Faulted(m.ctl) /\ ~extracting
  /\ Effective(m.ctl) > m.ctl.targets.brew

(* The heater is inhibited before the pump is asked to run, which a pump    *)
(* in an unknown state refuses.                                            *)
Start(m, key, started, pumped, heated) ==
  LET inhibited == [m EXCEPT
        !.ctl = BeginCooldownInhibit(@, heated),
        !.cool = [NoCooldown EXCEPT !.status = "pumping",
                                    !.target = m.ctl.targets.brew,
                                    !.key = key]]
  IN IF InhibitBegins(m.ctl, heated) /\ started /\ ~m.pump.unknown
     THEN [inhibited EXCEPT !.pump = RunningPump]
     ELSE Fail(inhibited, "internal_error", pumped, heated)

(* Mutant of LimitReached: only the temperature ends the pumping.            *)
NoLimit(m) == FALSE

LimitReached(m) == m.cool.age >= PumpLimit

(* update, for an active cooldown, over the temperature of `sample`: the     *)
(* workflow passes the boiler's, stop() a value just above the target.      *)
Advance(m, sampled, sample, expired, pumped, heated) ==
  IF ~sampled THEN Fail(m, "sensor_failure", pumped, heated)
  ELSE IF Faulted(m.ctl) THEN Fail(m, m.ctl.fault, pumped, heated)
  ELSE IF ~heated THEN Fail(m, "internal_error", pumped, heated)
  ELSE LET off == [m EXCEPT !.ctl = ForceOff(@, TRUE)] IN
    IF m.cool.status = "pumping"
    THEN IF ~m.pump.running THEN Fail(off, "internal_error", pumped, heated)
         ELSE IF sample <= m.cool.target
              THEN EnterStabilization(off, "target_reached", 0, pumped, heated)
         ELSE IF LimitReached(m)
              THEN EnterStabilization(off, "cutoff", m.cool.age - PumpLimit,
                                      pumped, heated)
         ELSE off
    ELSE IF m.pump.running /\ ~pumped
         THEN Fail(off, "internal_error", pumped, heated)
         ELSE IF expired THEN Complete(off, pumped, heated)
              ELSE [off EXCEPT !.pump = IF @.running THEN StoppedPump ELSE @]

UpdateCooldown(m, pumped, heated) ==
  Advance(m, ReadingOk(m.ctl), Effective(m.ctl),
          m.cool.settle >= Stabilization, pumped, heated)

(* stop() is given a clock its caller read before the mutex.  When the       *)
(* workflow has entered the stabilization since, the unsigned difference    *)
(* wraps (`wrapped`) and the stabilization looks long over.                 *)
Stop(m, wrapped, pumped, heated) ==
  CASE m.cool.status = "idle" -> m
    [] m.cool.status = "stabilizing" ->
         Advance(m, TRUE, m.cool.target + 1,
                 wrapped \/ m.cool.settle >= Stabilization, pumped, heated)
    [] m.cool.status = "pumping" ->
         EnterStabilization(m, "stopped", 0, pumped, heated)

AgeCooldown(m) ==
  IF Active(m)
  THEN [m EXCEPT !.cool.age = Older(@, LongestCooldown),
                 !.cool.settle = IF m.cool.status = "stabilizing"
                                 THEN Older(@, Stabilization) ELSE @]
  ELSE m

=============================================================================
