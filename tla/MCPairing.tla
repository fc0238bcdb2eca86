------------------------------ MODULE MCPairing ------------------------------
(* Two machines that change their addresses and a phone that finds them by scan; *)
(* and a machine with room for one credential, its address entered by hand, and  *)
(* two phones that pair at once while its code rotates and its sessions age.     *)
EXTENDS Pairing, TLC
CONSTANTS p1, p2, d1, d2, a1, a2
Bounds(attempts, restarts, rotations, moves, expiries) ==
  [attempts |-> attempts, restarts |-> restarts, rotations |-> rotations,
   moves |-> moves, expiries |-> expiries]
Roaming ==
  [phones |-> {p1}, leases |-> (a1 :> d1) @@ (a2 :> d2), scans |-> TRUE,
   bounds |-> Bounds(1, 1, 0, 1, 1)]
Crowded(restarts, rotations) ==
  [phones |-> {p1, p2}, leases |-> a1 :> d1, scans |-> FALSE,
   bounds |-> Bounds(2, restarts, rotations, 0, 0)]
MCWorlds == {Roaming, Crowded(1, 0), Crowded(0, 1)}
MCCodes == (d1 :> 1) @@ (d2 :> 2)
=============================================================================
