------------------------------ MODULE MCMachine ------------------------------
(* A small machine.  Brew aims at 2 and faults from 7, steam aims at 10 (or  *)
(* 9) and faults above 12, so that the readings are: cold; at the brew       *)
(* target; above it, but within an extraction's lift of 3; safe in steam     *)
(* only, ready there once 2 degrees of compensation are added; at the steam  *)
(* target; over every limit; and no reading at all.                         *)
EXTENDS Machine, TLC

MCRaw == {0, 2, 4, 8, 10, 13}
WarmRaw == {4}
SettingsRaw == {2}
CooldownRaw == {2, 4}

Factory == [brew |-> 2, steam |-> 10]
Other   == [brew |-> 4, steam |-> 9]
OnePair == {Factory}
TwoPairs == {Factory, Other}

ShortSteam == [compensation |-> 2, decay |-> 2, timeout |-> 1]
QuickSteam == [compensation |-> 2, decay |-> 1, timeout |-> 1]
PlainSteam == [compensation |-> 0, decay |-> 1, timeout |-> 1]
OneSteam == {ShortSteam}
QuickSteams == {QuickSteam, PlainSteam}

(* Offsets 0 and -3: the second puts the factory steam target out of reach. *)
NoCandidates == {2}
TwoCandidates == {2, 5}

World(requests, raw) == [requests |-> requests, raw |-> raw, steam |-> {DefaultSteam}]

(* What has to end: the modes over all readings, a cooldown that does not    *)
(* get colder beside them, and a calibration.                               *)
ControlWorlds ==
  {World({"mode", "heater", "dismiss"}, MCRaw),
   World({"cooldown", "mode"}, WarmRaw),
   World({"calibration", "heater"}, CooldownRaw)}

(* What is saved between two turns of the mutex, and who owns the pump.      *)
SettingsWorlds ==
  {[World({"settings"}, SettingsRaw) EXCEPT !.steam = QuickSteams],
   World({"settings", "calibration"}, SettingsRaw),
   World({"cooldown", "extraction"}, CooldownRaw),
   World({"cooldown", "calibration", "heater"}, SettingsRaw)}
==============================================================================
