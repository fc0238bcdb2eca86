------------------------ MODULE MCCalibrationScreen ------------------------
(* A poll interval and a request's timeout of three ticks, a lease of nine: the *)
(* proportions of 5, 5 and 15 seconds, and time to press while a call waits.    *)
EXTENDS CalibrationScreen

CONSTANTS p, q
MCPhones == {p, q}
World(phones, lossy, conflicts, leavings, presses) ==
  [phones |-> phones, lossy |-> lossy, conflicts |-> conflicts, leavings |-> leavings,
   presses |-> presses]
MCWorlds ==
  {World({p}, FALSE, FALSE, 2, 4), World({p}, TRUE, FALSE, 1, 3), World({p}, FALSE, TRUE, 1, 3),
   World({p, q}, FALSE, FALSE, 1, 3)}
=============================================================================
