---------------------------- MODULE MCDashboard ----------------------------
(* Shots that time out, overtake each other and are sent again; settings and     *)
(* cooling while the screen loses its focus; and settings whose answers other    *)
(* requests of the client and a restart of the machine overtake.                 *)
EXTENDS Dashboard, TLC
World(presses, blurs, n, restarts, others) ==
  [presses |-> presses, blurs |-> blurs,
   bounds |-> [presses |-> n, restarts |-> restarts, others |-> others]]
MCWorlds ==
  {World({"manual", "profile"}, FALSE, 2, 0, 0), World({"manual"}, FALSE, 2, 1, 0), World({"steam", "cooldown"}, TRUE, 2, 0, 0),
   World({"heater", "manual"}, FALSE, 1, 0, 1), World({"targets", "fault"}, FALSE, 1, 1, 0)}
=============================================================================
