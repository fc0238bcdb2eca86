-------------------------- MODULE MCFirmwareUpdate --------------------------
(* An image of two pieces.  Two people update one after the other or at once,    *)
(* or one whose run fails starts another; the power is cut, images do not come   *)
(* up, a confirmed one stops, another host answers.                             *)
EXTENDS FirmwareUpdate, TLC

World(runs, orders, cuts, stops, bad, strangers) ==
  [runs |-> runs, orders |-> orders, cuts |-> cuts, stops |-> stops, bad |-> bad,
   strangers |-> strangers]
MCWorlds ==
  {World(2, 0, 1, 0, 0, 0), World(2, 1, 0, 0, 0, 0), World(1, 0, 1, 1, 1, 0), World(1, 1, 0, 0, 0, 1)}
==============================================================================
