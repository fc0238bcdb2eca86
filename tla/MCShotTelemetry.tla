-------------------------- MODULE MCShotTelemetry --------------------------
(* Shots of three or four samples in pages of two; each world brings some of    *)
(* what can happen to the app, the connection and the machine.                  *)
EXTENDS ShotTelemetry

World(shots, samples, records) ==
  [shots |-> shots, samples |-> samples, records |-> records, cycles |-> 0, drops |-> 0,
   stops |-> 0, kills |-> 0, failures |-> 0, clears |-> 0]
MCWorlds ==
  {World(1, 4, FALSE), [World(2, 3, FALSE) EXCEPT !.drops = 1],
   [World(1, 3, TRUE) EXCEPT !.kills = 1], [World(1, 3, FALSE) EXCEPT !.stops = 1, !.drops = 1],
   [World(2, 3, FALSE) EXCEPT !.cycles = 1],
   [World(2, 3, FALSE) EXCEPT !.cycles = 1, !.kills = 1], [World(1, 3, FALSE) EXCEPT !.failures = 1, !.clears = 1]}
(* What the documentation promises, in a world that is enough to break it. *)
DroppingWorlds == {[World(1, 4, FALSE) EXCEPT !.drops = 1]}
=============================================================================
