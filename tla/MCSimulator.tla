----------------------------- MODULE MCSimulator -----------------------------
(* A boiler of nine degrees: brew at 2 and over its limit from 4, steam at 5   *)
(* and over above 6, the sensor over above 7; candidate 6 puts the steam       *)
(* target out of reach.  Eight kinds of client divide the routes.               *)
EXTENDS Simulator

MCRaws == {0, 3, 5, 8}
Factory == [brew |-> 2, steam |-> 5]
Other == [brew |-> 3, steam |-> 4]
MCTargets == {Factory, Other}
Slow == [compensation |-> 1, decay |-> 1, timeout |-> 2]
Quick == [compensation |-> 0, decay |-> 1, timeout |-> 1]
MCSteam == {Slow, Quick}
MCCandidates == {2, 6}
Short == [pre |-> 1, soak |-> 1, main |-> 1]
MCProfiles == {Short}
MCCutoffs == {1}
MCWeights == {0, 1}
MCRoutes ==
  {{"mode", "settings", "heater", "dismiss", "boiler"},
   {"cooldown", "failures", "boiler"},
   {"calibration", "extraction", "cooldown"},
   {"extraction", "scale", "weight"},
   {"settings", "failures", "storage", "power"},
   {"calibration", "storage", "power"},
   {"state", "calibration", "scale", "fault"},
   {"state", "cooldown", "scale", "firmware"}}
(* An over-temperature in a cooldown, and its dismissal. *)
MCDismiss == {{"cooldown", "boiler", "dismiss"}}
MCBrewRange == 1..3
MCSteamRange == 4..5
MCOffsets == -3..1
MCCandidateRange == 2..6
==============================================================================
