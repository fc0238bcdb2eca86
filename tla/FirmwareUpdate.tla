---------------------------- MODULE FirmwareUpdate ----------------------------
(* A firmware update: the command line tool that pairs and uploads an image      *)
(* (tools/firmware-ota), the machine's one HTTP task that receives it into the   *)
(* other slot (esp_networking, firmware_update, esp_ota_update), and the boot    *)
(* that confirms it or goes back (app_main).  An image is the run that uploads   *)
(* it and arrives in Chunks pieces; a request is connected, written and read;    *)
(* every time limit may pass at any time.  The pairing routes answer as the tool *)
(* expects them to; the bootloader and esp_ota_* are external.                   *)
EXTENDS Integers, FiniteSets

CONSTANTS
  Tools,             \* the people who run the tool
  Chunks,            \* an image's length
  Codes,             \* pairing codes one run may ask for
  Connections,       \* connections one request may try
  Worlds             \* how often each thing may happen

Slots == {0, 1}
Other(s) == 1 - s
Factory == <<"factory">>
Partial == <<"partial">>
Nobody == <<"nobody">>
Machine == "machine"
Stranger == "stranger"     \* another host that has the machine's address
Bounds == {"runs", "orders", "cuts", "stops", "bad", "strangers"}

ASSUME SizesAssumption ==
  /\ Chunks \in Nat \ {0} /\ Codes \in Nat \ {0} /\ Connections \in Nat \ {0}
  /\ Worlds \subseteq [Bounds -> Nat]

VARIABLES
  tool,              \* where each person's run stands
  slot, mark,        \* each slot's image, and what the bootloader knows of it
  boot, running,     \* the slot to boot, and the one that runs
  phase,             \* of the machine: "boot", "init", "up" or "dead"
  upload,            \* FirmwareUpdateCoordinator and the request it serves
  leaving,           \* firmware_reboot_task waits
  workflow, permit,  \* an extraction, cooldown or calibration; heater permission
  committed,         \* the images finish() has selected
  left               \* what may still happen
slots == <<slot, mark, boot, running, committed>>
control == <<workflow, permit>>
vars == <<tool, slots, phase, upload, leaving, control, left>>

NoUpload == [active |-> FALSE, by |-> Nobody, got |-> 0]
Serving == upload.by # Nobody

-----------------------------------------------------------------------------
(* The tool.  main enters a code, pairs in three requests and uploads.           *)
Ended == {"accepted", "failed"}
Run(n) == [run |-> n, step |-> "code", stage |-> "idle", codes |-> 0, right |-> FALSE, tries |-> 0,
           sent |-> 0, host |-> Stranger, peer |-> Stranger, answer |-> "none"]
Image(t) == <<t, tool[t].run>>
Length(step) == IF step = "upload" THEN Chunks ELSE 1
Put(t, s) == tool' = [tool EXCEPT ![t] = s]
Ends(s, step) == [Run(s.run) EXCEPT !.step = step, !.codes = IF step = "code" THEN s.codes ELSE 0]
Request(s, step) ==
  [s EXCEPT !.step = step, !.stage = "connect", !.tries = 1, !.sent = 0, !.answer = "none"]

EnterCode(t) ==
  /\ tool[t].step = "code"
  /\ \E right \in BOOLEAN :
       Put(t, [Request(tool[t], "start") EXCEPT !.codes = @ + 1, !.right = right])
Cancel(t) == tool[t].step = "code" /\ Put(t, Ends(tool[t], "failed"))
StartRun(t) ==
  /\ tool[t].step = "failed" /\ left.runs > 0
  /\ left' = [left EXCEPT !.runs = @ - 1]
  /\ Put(t, Run(tool[t].run + 1))

Reachable(host) ==
  CASE host = Machine -> phase = "up" [] host = Stranger -> left.strangers > 0
Pinned(step) == step \in {"complete", "upload"}
(* tlsRequest: the certificate is compared before a byte is written.             *)
Connect(t) ==
  LET s == tool[t] IN
  /\ s.stage = "connect"
  /\ \E host \in {Machine, Stranger} :
       /\ Reachable(host)
       /\ Put(t, IF Pinned(s.step) /\ host # s.peer THEN Ends(s, "failed")
                 ELSE [s EXCEPT !.stage = "write", !.host = host])
ConnectFails(t) ==
  LET s == tool[t] IN
  /\ s.stage = "connect"
  /\ Put(t, IF s.tries < Connections THEN [s EXCEPT !.tries = @ + 1] ELSE Ends(s, "failed"))
Write(t) ==
  LET s == tool[t] IN
  /\ s.stage = "write"
  /\ Put(t, [s EXCEPT !.sent = @ + 1,
                      !.stage = IF s.sent + 1 = Length(s.step) THEN "read" ELSE @])
WriteFails(t) == tool[t].stage = "write" /\ Put(t, Ends(tool[t], "failed"))
(* SrpClientSession: only the machine of the challenge can prove that it knows   *)
(* the code.                                                                     *)
Proved(s) == s.host = s.peer /\ s.host = Machine
(* pairForFirmwareUpdate: what an answer leads to.                               *)
Understood(s) ==
  CASE s.step = "start" -> [Request(s, "proof") EXCEPT !.peer = s.host]
    [] s.step = "proof" -> IF Proved(s) THEN Request(s, "complete") ELSE Ends(s, "failed")
    [] s.step = "complete" -> Request(s, "upload")
    [] s.step = "upload" -> Ends(s, "accepted")
Read(t) ==
  LET s == tool[t] IN
  /\ s.stage = "read" /\ s.answer # "none"
  /\ Put(t, CASE s.answer = "ok" -> Understood(s)
              [] s.answer = "invalid_pairing_code" /\ s.codes < Codes -> Ends(s, "code")
              [] OTHER -> Ends(s, "failed"))
(* No answer in time, none at all, or one that is cut short and does not parse.  *)
ReadFailsClosed(t) ==                  \* mutant: a read has no time limit
  /\ tool[t].stage = "read" /\ tool[t].answer = "closed" /\ Put(t, Ends(tool[t], "failed"))
ReadFails(t) == tool[t].stage = "read" /\ Put(t, Ends(tool[t], "failed"))

Works(t) ==
  /\ Connect(t) \/ ConnectFails(t) \/ Write(t) \/ WriteFails(t) \/ Read(t) \/ ReadFails(t)
  /\ UNCHANGED <<slots, phase, upload, leaving, control, left>>
Types(t) ==
  /\ \/ (EnterCode(t) \/ Cancel(t)) /\ UNCHANGED left
     \/ StartRun(t)
  /\ UNCHANGED <<slots, phase, upload, leaving, control>>

(* What a host that is not the machine answers, and the machine's pairing routes. *)
Answers(t) ==
  LET s == tool[t] IN
  /\ s.stage = "read" /\ s.answer = "none"
  /\ \/ s.host = Stranger /\ Put(t, [s EXCEPT !.answer = "ok"])
     \/ /\ s.host = Machine /\ s.step # "upload" /\ phase = "up" /\ ~Serving
        /\ \E answer \in {"refused", IF s.step = "proof" /\ ~s.right THEN "invalid_pairing_code"
                                     ELSE "ok"} : Put(t, [s EXCEPT !.answer = answer])
  /\ UNCHANGED <<slots, phase, upload, leaving, control, left>>

-----------------------------------------------------------------------------
(* handle_firmware_update: the HTTP task serves nothing else until it is done.   *)
Connected(t) ==
  tool[t].step = "upload" /\ tool[t].host = Machine /\ tool[t].stage \in {"write", "read"}
Reply(t, answer) ==
  tool' = IF Connected(t) /\ Image(t) = upload.by THEN [tool EXCEPT ![t].answer = answer] ELSE tool

Target == Other(running)
(* begin: prepare() finds the machine idle and turns its outputs off; erasing    *)
(* the other slot is refused to an image that is not confirmed yet.  Whatever    *)
(* fails on the way leaves behind what was already done.                        *)
BeginIf(t, ready, may) ==
  LET refused == [tool EXCEPT ![t].answer = "refused"]
      erased == [slot EXCEPT ![Target] = Partial] IN
  /\ Connected(t) /\ tool[t].answer = "none" /\ ~Serving /\ phase = "up"
  /\ \/ tool' = refused /\ UNCHANGED <<slot, upload, permit>>
     \/ /\ ready /\ permit' = FALSE
        /\ tool' = refused /\ slot' \in {slot} \cup {s \in {erased} : may} /\ UNCHANGED upload
     \/ /\ ready /\ permit' = FALSE
        /\ may /\ slot' = erased /\ upload' = [active |-> TRUE, by |-> Image(t), got |-> 0]
        /\ UNCHANGED tool
  /\ UNCHANGED <<mark, boot, running, committed, phase, leaving, workflow, left>>
BeginUnconfirmed(t) ==                 \* mutant: the fall-back slot may be erased
  BeginIf(t, ~upload.active /\ ~workflow, TRUE)
Begin(t) == BeginIf(t, ~upload.active /\ ~workflow, mark[running] # "pending")

(* What was sent may still arrive when the tool has given up.                    *)
Arrives(t) == upload.by = Image(t) /\ upload.got < tool[t].sent
Receive(t) ==
  /\ Arrives(t) /\ upload' = [upload EXCEPT !.got = @ + 1]
  /\ UNCHANGED <<tool, slots, phase, leaving, control, left>>
WriteRefused(t) ==                     \* the flash or the hash fails
  /\ Arrives(t) /\ upload' = NoUpload /\ Reply(t, "refused")
  /\ UNCHANGED <<slots, phase, leaving, control, left>>
(* The connection ends, or bytes are missing when a time limit passes.           *)
Abandon(t) ==
  /\ upload.by[1] = t /\ upload.got < Chunks
  /\ upload' = NoUpload /\ Reply(t, "closed")
  /\ UNCHANGED <<slots, phase, leaving, control, left>>
(* finish: the digest, esp_ota_end and esp_ota_set_boot_partition may refuse.    *)
Select ==
  /\ slot' = [slot EXCEPT ![Target] = upload.by]
  /\ mark' = [mark EXCEPT ![Target] = "new"]
  /\ boot' = Target /\ committed' = committed \cup {upload.by}
FinishUnselected(t) ==                 \* mutant: accepted before it is selected
  /\ upload.by[1] = t /\ upload.got = Chunks
  /\ upload' = NoUpload /\ Reply(t, "ok") /\ leaving' = TRUE
  /\ Select \/ UNCHANGED <<slot, mark, boot, committed>>
  /\ UNCHANGED <<running, phase, control, left>>
Finish(t) ==
  /\ upload.by[1] = t /\ upload.got = Chunks
  /\ upload' = NoUpload
  /\ \/ Select /\ Reply(t, "ok") /\ leaving' = TRUE
     \/ Reply(t, "refused") /\ UNCHANGED <<slot, mark, boot, committed, leaving>>
  /\ UNCHANGED <<running, phase, control, left>>

Handles(t) == Begin(t) \/ Receive(t) \/ WriteRefused(t) \/ Abandon(t) \/ Finish(t)

(* The other requests of the same task, and the end of what they start.          *)
Order ==
  /\ phase = "up" /\ ~Serving /\ left.orders > 0
  /\ left' = [left EXCEPT !.orders = @ - 1]
  /\ \/ ~workflow /\ workflow' = TRUE /\ UNCHANGED permit
     \/ ~permit /\ permit' = TRUE /\ UNCHANGED workflow
  /\ UNCHANGED <<tool, slots, phase, upload, leaving>>
WorkflowEnds ==
  /\ phase = "up" /\ workflow /\ workflow' = FALSE
  /\ UNCHANGED <<tool, slots, phase, upload, leaving, permit, left>>

-----------------------------------------------------------------------------
(* A restart, half a second after the answer or by a power cut, and the boot.    *)
GoDown ==
  /\ phase' = "boot" /\ upload' = NoUpload /\ leaving' = FALSE
  /\ workflow' = FALSE /\ permit' = TRUE
  /\ tool' = [t \in Tools |->
       IF tool[t].host = Machine /\ tool[t].stage \in {"write", "read"} /\ tool[t].answer = "none"
       THEN [tool[t] EXCEPT !.answer = "closed"] ELSE tool[t]]
Reboot == leaving /\ GoDown /\ UNCHANGED <<slots, left>>
Cut ==
  /\ left.cuts > 0 /\ left' = [left EXCEPT !.cuts = @ - 1]
  /\ GoDown /\ UNCHANGED slots

(* The bootloader: an image that came up and was not confirmed is given up.      *)
Bootable(s) == slot[s] # Partial /\ mark[s] \in {"new", "valid"}
Load ==
  /\ phase = "boot" /\ phase' = "init"
  /\ LET next == IF Bootable(boot) THEN boot ELSE Other(boot)
     IN /\ running' = next /\ boot' = next
        /\ mark' = [s \in Slots |->
             CASE mark[s] = "pending" -> "invalid"
               [] s = next /\ mark[s] = "new" -> "pending"
               [] OTHER -> mark[s]]
  /\ UNCHANGED <<tool, slot, committed, upload, leaving, control, left>>

(* app_main: the network task starts, the image is confirmed.  Whichever step    *)
(* fails, ~EspOtaBootValidationGuard goes back; a confirmed image just stops.    *)
Bad(image) == left.bad > 0 /\ image # Factory
Start ==
  /\ phase = "init" /\ ~Bad(slot[running]) /\ phase' = "up"
  /\ UNCHANGED <<tool, slots, upload, leaving, control, left>>
Confirm ==
  /\ phase = "up" /\ mark[running] = "pending"
  /\ mark' = [mark EXCEPT ![running] = "valid"]
  /\ UNCHANGED <<tool, slot, boot, running, committed, phase, upload, leaving, control, left>>
RollBack ==
  /\ mark' = [mark EXCEPT ![running] = "invalid"] /\ boot' = Other(running)
  /\ GoDown
  /\ UNCHANGED <<slot, running, committed, left>>
StartFails == phase \in {"init", "up"} /\ mark[running] = "pending" /\ RollBack
Stops ==
  /\ phase = "init" /\ mark[running] # "pending" /\ left.stops > 0
  /\ left' = [left EXCEPT !.stops = @ - 1] /\ phase' = "dead"
  /\ UNCHANGED <<tool, slots, upload, leaving, control>>

Boots == Load \/ Start \/ Confirm \/ StartFails

-----------------------------------------------------------------------------
Init ==
  /\ left \in Worlds
  /\ tool = [t \in Tools |-> [Run(0) EXCEPT !.step = "failed"]]
  /\ slot = [s \in Slots |-> IF s = 0 THEN Factory ELSE Partial]
  /\ mark = [s \in Slots |-> IF s = 0 THEN "valid" ELSE "invalid"]
  /\ boot = 0 /\ running = 0 /\ phase = "up" /\ committed = {}
  /\ upload = NoUpload /\ leaving = FALSE /\ workflow = FALSE /\ permit = TRUE

Next ==
  \/ \E t \in Tools : Works(t) \/ Types(t) \/ Answers(t) \/ Handles(t)
  \/ Order \/ WorkflowEnds \/ Reboot \/ Cut \/ Boots \/ Stops
Spec == Init /\ [][Next]_vars
(* The tool's and the HTTP task's steps have time limits; a boot goes on.        *)
FairSpec ==
  /\ Spec
  /\ \A t \in Tools : WF_vars(Works(t)) /\ WF_vars(Handles(t))
  /\ WF_vars(Boots) /\ WF_vars(Reboot)

-----------------------------------------------------------------------------
(* What each variable holds.  An image is a run's, and an upload is of one.       *)
Images == Tools \X Nat
Runs == [run : Nat, step : {"code", "start", "proof", "complete", "upload"} \cup Ended,
         stage : {"idle", "connect", "write", "read"}, codes : Nat, right : BOOLEAN,
         tries : Nat, sent : 0..Chunks, host : {Machine, Stranger}, peer : {Machine, Stranger},
         answer : {"none", "ok", "refused", "invalid_pairing_code", "closed"}]
TypeOK ==
  /\ tool \in [Tools -> Runs]
  /\ slot \in [Slots -> Images \cup {Factory, Partial}]
  /\ mark \in [Slots -> {"new", "pending", "valid", "invalid"}]
  /\ boot \in Slots /\ running \in Slots /\ phase \in {"boot", "init", "up", "dead"}
  /\ upload \in [active : BOOLEAN, by : Images \cup {Nobody}, got : 0..Chunks]
  /\ leaving \in BOOLEAN /\ workflow \in BOOLEAN /\ permit \in BOOLEAN
  /\ committed \subseteq Images /\ left \in [Bounds -> Nat]

(* A run that reports the update accepted has had its own image selected by the  *)
(* machine it paired with: no other host, no half upload and no refused slot     *)
(* passes for it.                                                               *)
AcceptedIsCommitted ==
  \A t \in Tools : tool[t].step = "accepted" => Image(t) \in committed

(* Whatever is cut, the machine runs a whole image, and one that is not          *)
(* confirmed yet has a whole confirmed one to go back to.                       *)
FallbackIsWhole ==
  phase # "boot" =>
    /\ slot[running] # Partial
    /\ mark[running] = "pending" =>
         slot[Other(running)] # Partial /\ mark[Other(running)] = "valid"

(* Every run of the tool ends, every upload ends, so that another can begin, and *)
(* every image that comes up is confirmed or given up.                          *)
UpdatesEnd ==
  /\ \A t \in Tools : []<>(tool[t].step \in Ended \cup {"code"})
  /\ []<>~upload.active
  /\ []<>(mark[running] # "pending")
=============================================================================
