--------------------------------- MODULE Shot ---------------------------------
(***************************************************************************)
(* What an extraction promises to the rest of the machine: it runs through  *)
(* its phases in order, commands the pump on only in a phase that pumps,    *)
(* never raises a pump that was cut during the shot, and ends.              *)
(***************************************************************************)

VARIABLES
  phase,  \* the extraction's phase, "idle" when there is none
  pump    \* what is known of the pump: "off", "running" or "unknown"

First == {"manual", "pre_infusion", "main_extraction"}
After(p) == CASE p = "pre_infusion" -> {"soak", "main_extraction"}
              [] p = "soak"         -> {"main_extraction"}
              [] OTHER              -> {}
Command(p) == IF p \in {"idle", "soak"} THEN "off" ELSE "running"

Init == phase = "idle" /\ pump = "off"

Begin ==
  /\ phase = "idle" /\ pump # "unknown"
  /\ phase' \in First /\ pump' = Command(phase')

Advance ==
  /\ pump = Command(phase)
  /\ phase' \in After(phase) /\ pump' = Command(phase')

(* Completed, stopped or failed; the off command may have failed.           *)
End == phase # "idle" /\ phase' = "idle" /\ pump' \in {"off", "unknown"}

(* An emergency, a start that failed, or another try to turn the pump off.  *)
Cut == UNCHANGED phase /\ pump' \in {"off", "unknown"}

Next == Begin \/ Advance \/ End \/ Cut

SafeSpec == Init /\ [][Next]_<<phase, pump>>

Spec == SafeSpec /\ WF_<<phase, pump>>(End)

===============================================================================
