------------------------------ MODULE Dashboard ------------------------------
(* The mobile dashboard of one machine: DashboardPollingSession and              *)
(* DashboardMutationSession under DashboardAppLifecycle, the DeviceApiClient     *)
(* they share with the other screens, what useMachineDashboard shows and what    *)
(* DashboardScreen lets the user press.  Requests and answers overtake one       *)
(* another and are lost, and one that nobody waits for may still be served.      *)
(* A generation only tells whether an answer is still wanted, so that a request  *)
(* is kept with the one who wants it; two polls that nobody wants are one.       *)
(* Revisions only order the answers of a boot: "answers" is in that order and an *)
(* answer is "old" when the client has accepted a later one.  A polling session  *)
(* has one poll at a time, so that its own check of revisions never refuses.     *)
(* The settings are Boolean: the heater permission, steam as the mode, targets   *)
(* other than those at first, and an over-temperature fault.                     *)
EXTENDS Integers, FiniteSets, Sequences, SequencesExt

CONSTANTS
  MaxKeys,               \* bound on the idempotency keys drawn
  Worlds                 \* what the user may press and the bounds on events

ASSUME MaxKeysAssumption == MaxKeys \in Nat

VARIABLES
  machine,               \* the machine: its boot, settings and activity
  wire,                  \* requests sent and not served
  answers,               \* answers not delivered, in the order of their revisions
  acceptedBoot,          \* acceptedBootId of the client
  p,                     \* the phone
  keys,                  \* idempotency keys drawn
  press,                 \* history: for each slot, the start that is unanswered, its
                         \* keys, and how many activities in a row they have begun
                         \* since the machine booted
  left, world            \* what is left of the bounds, and the world of this behaviour
vars == <<machine, wire, answers, acceptedBoot, p, keys, press, left, world>>

Slots == {"extraction", "cooldown"}
Shots == {"manual", "profile"}
Slot(selection) == IF selection = "cooldown" THEN "cooldown" ELSE "extraction"
None == [kind |-> "none"]
Start(key, selection) == [kind |-> "start", key |-> key, selection |-> selection]
Stop(slot) == [kind |-> "stop", slot |-> slot]
Settings == {"heater", "steam", "targets", "fault"}
Set(setting, on) == [kind |-> "set", setting |-> setting, on |-> on]
Blank == [boot |-> 0, set |-> [s \in Settings |-> FALSE], run |-> None]   \* no snapshot
Poll == [kind |-> "poll"]
Unasked == [selection |-> "none", asked |-> {}, poured |-> 0]

Request(to, command) == [to |-> to, command |-> command]
InFlight(to) ==
  (\E r \in wire : r.to = to) \/ (\E i \in DOMAIN answers : answers[i].to = to)
Stale(r) == IF r.to = "poll" THEN [r EXCEPT !.to = "stale"] ELSE r
(* Aborted callers hear no answer; a command of theirs may still be served.      *)
Orphans(w, gone) ==
  {IF r.to \in gone THEN Request("nobody", r.command) ELSE r :
     r \in {q \in w : q.to \notin gone \/ q.command # Poll}}
Unheard(as, gone) == SelectSeq(as, LAMBDA a : a.to \notin gone)
Abort(gone, new) ==
  /\ wire' = Orphans(wire, gone) \cup new
  /\ answers' = Unheard(answers, gone)

-----------------------------------------------------------------------------
(* The machine, external: a start whose key it remembers is answered without a   *)
(* second activity; it may refuse any command; every answer is its state after.  *)
View(m) == [boot |-> m.boot, set |-> m.set, run |-> m.run]
Booted ==
  [boot |-> 1, set |-> [s \in Settings |-> FALSE], run |-> None, last |-> [s \in Slots |-> None]]
Ended(m) ==
  IF m.run = None THEN m
  ELSE [m EXCEPT !.run = None, !.last[Slot(m.run.selection)] = m.run]
After(command) ==                      \* none: the machine refuses the command
  CASE command.kind = "poll" -> {machine}
    [] command.kind = "set" ->
         IF command = Set("steam", TRUE) /\ machine.run # None THEN {}
         ELSE {[machine EXCEPT !.set[command.setting] = command.on]}
    [] command.kind = "stop" ->
         {IF machine.run # None /\ Slot(machine.run.selection) = command.slot
          THEN Ended(machine) ELSE machine}
    [] command.kind = "start" ->
         IF command \in {machine.run, machine.last[Slot(command.selection)]} THEN {machine}
         ELSE IF machine.run # None \/ machine.set["fault"] THEN {}
         ELSE IF Slot(command.selection) = "cooldown"
              THEN {[machine EXCEPT !.run = command, !.set["steam"] = FALSE]}
         ELSE IF machine.set["steam"] THEN {} ELSE {[machine EXCEPT !.run = command]}
Poured(command, m) ==                  \* an activity begins: one of the press, or another
  LET slot == Slot(command.selection)
  IN press' = IF m.run # machine.run /\ m.run = command
              THEN [press EXCEPT ![slot].poured = IF command.key \in press[slot].asked THEN @ + 1 ELSE 0]
              ELSE press
Answer(to, m, refused) ==
  IF to = "nobody" THEN answers
  ELSE Append(answers, [to |-> to, state |-> View(m), old |-> FALSE, refused |-> refused])
Serve(r) ==
  /\ r \in wire
  /\ wire' = wire \ {r}
  /\ \/ \E m \in After(r.command) :
          machine' = m /\ Poured(r.command, m) /\ answers' = Answer(r.to, m, FALSE)
     \/ /\ r.command # Poll
        /\ answers' = Answer(r.to, machine, TRUE)
        /\ UNCHANGED <<machine, press>>
  /\ UNCHANGED <<acceptedBoot, p, keys, left, world>>
Happens(event) == left[event] > 0 /\ left' = [left EXCEPT ![event] = @ - 1]
EndsByItself ==                        \* an activity is over, steam has timed out
  /\ \/ machine.run # None /\ machine' = Ended(machine)
     \/ machine.set["steam"] /\ machine' = [machine EXCEPT !.set["steam"] = FALSE]
  /\ UNCHANGED <<wire, answers, acceptedBoot, p, keys, press, left, world>>
Fault ==
  /\ "fault" \in world.presses /\ ~machine.set["fault"]
  /\ machine' = [machine EXCEPT !.set["fault"] = TRUE]
  /\ UNCHANGED <<wire, answers, acceptedBoot, p, keys, press, left, world>>
Restart ==
  /\ Happens("restarts")
  /\ machine' = [Booted EXCEPT !.boot = machine.boot + 1, !.set["targets"] = machine.set["targets"]]
  /\ press' = [s \in Slots |-> [press[s] EXCEPT !.poured = 0]]
  /\ UNCHANGED <<wire, answers, acceptedBoot, p, keys, world>>

-----------------------------------------------------------------------------
(* DeviceApiClient.requestState: an answer older than one accepted is an error.  *)
Acceptable(a) == acceptedBoot # a.state.boot \/ ~a.old
(* The answers left once answer i is accepted: what it has made old.             *)
Remaining(i) ==
  LET boot == answers[i].state.boot
      marked == [j \in DOMAIN answers |->
        [answers[j] EXCEPT !.old =
           /\ answers[j].state.boot = boot
           /\ j < i \/ (acceptedBoot = boot /\ @)]]
  IN RemoveAt(marked, i)
Hears(i, to) == i \in DOMAIN answers /\ answers[i].to = to
Accepts(i) ==
  /\ ~answers[i].refused /\ Acceptable(answers[i])
  /\ acceptedBoot' = answers[i].state.boot
Refuses(i) ==
  /\ ~answers[i].refused /\ ~Acceptable(answers[i])
  /\ UNCHANGED acceptedBoot
(* A poll of another screen, or one nobody waits for: only the client hears it.  *)
OtherHeard(to) ==
  /\ \E i \in DOMAIN answers :
       /\ Hears(i, to)
       /\ \/ Accepts(i) /\ answers' = Remaining(i)
          \/ Refuses(i) /\ answers' = RemoveAt(answers, i)
  /\ UNCHANGED <<machine, wire, p, keys, press, left, world>>
OtherAsks ==
  /\ ~InFlight("other")
  /\ Happens("others")
  /\ wire' = wire \cup {Request("other", Poll)}
  /\ UNCHANGED <<machine, answers, acceptedBoot, p, keys, press, world>>
Lost(to) ==                            \* the connection fails or the request times out
  /\ InFlight(to)
  /\ Abort({to}, {})
  /\ UNCHANGED <<machine, acceptedBoot, p, keys, press, left, world>>

-----------------------------------------------------------------------------
(* DashboardPollingSession.                                                      *)
Polls(w) == w \cup {Request("poll", Poll)}
Waits(s, timer) == [s EXCEPT !.timer = timer]
BlankedBy(s) == Waits([s EXCEPT !.shown = Blank], "poll")
PollTimer ==
  /\ p.timer # "none"
  /\ wire' = Polls(wire)
  /\ p' = [p EXCEPT !.timer = "none", !.retried = p.timer = "retry"]
  /\ UNCHANGED <<machine, answers, acceptedBoot, keys, press, left, world>>
(* A snapshot is shown, and it lets the user press again; one of another boot    *)
(* ends what was asked of the machine before.                                    *)
Snapshot(state) ==
  LET restarted == p.boot \notin {0, state.boot}
  IN /\ p' = Waits([p EXCEPT
          !.boot = state.boot, !.shown = state, !.freshness = "live", !.paused = FALSE,
          !.kept = IF restarted THEN [s \in Slots |-> None] ELSE @], "poll")
     /\ press' = IF restarted THEN [s \in Slots |-> Unasked] ELSE press
PollShown ==
  /\ \E i \in DOMAIN answers :
       Hears(i, "poll") /\ Accepts(i) /\ answers' = Remaining(i) /\ Snapshot(answers[i].state)
  /\ UNCHANGED <<machine, wire, keys, left, world>>
PollRefused ==
  /\ \E i \in DOMAIN answers :
       Hears(i, "poll") /\ Refuses(i) /\ answers' = RemoveAt(answers, i)
  /\ p' = BlankedBy(p)
  /\ UNCHANGED <<machine, wire, keys, press, left, world>>
PollLost ==                            \* one failure is tried again before it shows
  /\ InFlight("poll")
  /\ Abort({"poll"}, {})
  /\ p' = IF p.retried THEN BlankedBy(p) ELSE Waits(p, "retry")
  /\ UNCHANGED <<machine, acceptedBoot, keys, press, left, world>>

-----------------------------------------------------------------------------
(* DashboardMutationSession.perform, behind what DashboardScreen has enabled.    *)
Live == p.app = "active" /\ p.freshness = "live"
CanPress == Live /\ p.shown.boot # 0 /\ p.pending = None
(* pauseForMutation leaves the poll in flight.                                   *)
Perform(command, s) ==
  /\ Happens("presses")
  /\ wire' = {Stale(r) : r \in wire} \cup {Request("command", command)}
  /\ answers' = [i \in DOMAIN answers |-> Stale(answers[i])]
  /\ p' = [Waits(s, "none") EXCEPT !.pending = command, !.polling = FALSE]
  /\ UNCHANGED <<machine, acceptedBoot, world>>
Change(setting, on) ==
  /\ setting \in world.presses /\ CanPress
  /\ Perform(Set(setting, on), p)
  /\ UNCHANGED <<keys, press>>
PressHeater == Change("heater", ~p.shown.set["heater"])
PressMode ==                           \* steam waits until nothing runs
  /\ p.shown.set["steam"] \/ p.shown.run = None
  /\ Change("steam", ~p.shown.set["steam"])
ConfirmTargets == Change("targets", ~p.shown.set["targets"])
ConfirmDismiss == p.shown.set["fault"] /\ Change("fault", FALSE)

(* A start that is still unanswered is sent again under its key.  It is kept     *)
(* before perform drops it because another command is pending.                   *)
SendStart(selection) ==
  LET slot == Slot(selection)
      kept == p.kept[slot]
      again == kept # None /\ kept.selection = selection
      start == IF again THEN kept ELSE Start(keys + 1, selection)
  IN /\ selection \in world.presses /\ start.key <= MaxKeys
     /\ IF p.pending = None THEN Perform(start, [p EXCEPT !.kept[slot] = start])
        ELSE /\ p' = [p EXCEPT !.kept[slot] = start]
             /\ UNCHANGED <<machine, wire, answers, acceptedBoot, left, world>>
     /\ keys' = IF again THEN keys ELSE keys + 1
     /\ press' = [press EXCEPT ![slot] =
          [selection |-> selection,
           asked |-> {start.key} \cup (IF @.selection = selection THEN @.asked ELSE {}),
           poured |-> IF @.selection = selection THEN @.poured ELSE 0]]
SendStop(slot) ==
  /\ p.shown.run # None /\ Slot(p.shown.run.selection) = slot
  /\ Perform(Stop(slot), p)
  /\ UNCHANGED <<keys, press>>
SlotOf(command) == IF command.kind = "stop" THEN command.slot ELSE Slot(command.selection)
(* The console stays open without a snapshot, and whatever else is pending.      *)
StartShot(selection) ==
  /\ Live /\ p.shown.run = None /\ ~p.shown.set["steam"]
  /\ ~(p.pending.kind \in {"start", "stop"} /\ SlotOf(p.pending) = "extraction")
  /\ SendStart(selection)
StopShot == Live /\ p.pending = None /\ SendStop("extraction")
StartCooldown ==
  CanPress /\ p.shown.run = None /\ ~p.shown.set["fault"] /\ SendStart("cooldown")
StopCooldown == CanPress /\ SendStop("cooldown")

Settled(command) ==                    \* the start of its slot has been answered
  press' = IF command.kind = "set" THEN press ELSE [press EXCEPT ![SlotOf(command)] = Unasked]
Forgets(s, command) ==
  IF command.kind = "set" THEN s ELSE [s EXCEPT !.kept[SlotOf(command)] = None]
(* finally: the next command may be performed and polling resumes with a poll.   *)
ResumesUnpolled(s) ==                  \* mutant: polling stays paused
  /\ p' = [s EXCEPT !.pending = None, !.retried = FALSE]
  /\ wire' = Orphans(wire, {"command"})
Resumes(s) ==
  /\ p' = [s EXCEPT !.pending = None, !.polling = TRUE, !.retried = FALSE]
  /\ wire' = Polls(Orphans(wire, {"command"}))
Acknowledged(state) ==                 \* shown when there is a snapshot to show it in
  LET s == Forgets(p, p.pending)
      cooling == p.pending.kind # "set" /\ SlotOf(p.pending) = "cooldown" /\ state.run # None
  IN IF p.pending.kind # "set"
     THEN [s EXCEPT !.shown.run = state.run, !.shown.set["steam"] = @ /\ ~cooling]
     ELSE IF p.pending.setting = "fault" THEN [s EXCEPT !.shown.set = state.set]
     ELSE [s EXCEPT !.shown.set[p.pending.setting] = state.set[p.pending.setting]]
DisconnectedKeyless ==                 \* mutant: the key is forgotten
  [p EXCEPT !.shown = Blank, !.kept = [s \in Slots |-> None]]
Disconnected == [p EXCEPT !.shown = Blank]   \* onConnectionLost; the key is kept
CommandAnswered ==
  /\ \E i \in DOMAIN answers :
       /\ Hears(i, "command")
       /\ \/ Accepts(i) /\ Resumes(Acknowledged(answers[i].state))
             /\ Settled(p.pending) /\ answers' = Remaining(i)
          \/ Refuses(i) /\ Resumes(Disconnected)
             /\ UNCHANGED press /\ answers' = RemoveAt(answers, i)
          \/ /\ answers[i].refused
             /\ IF p.pending.kind = "start"
                THEN Resumes(Forgets(p, p.pending)) /\ Settled(p.pending)
                ELSE Resumes(p) /\ UNCHANGED press
             /\ answers' = RemoveAt(answers, i) /\ UNCHANGED acceptedBoot
  /\ UNCHANGED <<machine, keys, left, world>>
CommandLost ==
  /\ InFlight("command")
  /\ Resumes(Disconnected)
  /\ answers' = Unheard(answers, {"command"})
  /\ UNCHANGED <<machine, acceptedBoot, keys, press, left, world>>

-----------------------------------------------------------------------------
(* DashboardAppLifecycle: the app leaves the foreground and returns; the screen  *)
(* loses the focus, which ends its sessions, and returns with new ones.          *)
BackgroundPending ==                   \* mutant: the command stays pending
  /\ p.app = "active"
  /\ Abort({"poll", "command"}, {})
  /\ p' = [Waits(p, "none") EXCEPT !.app = "background", !.freshness = "refreshing",
             !.paused = TRUE, !.polling = FALSE]
  /\ UNCHANGED <<machine, acceptedBoot, keys, press, left, world>>
Background ==
  /\ p.app = "active"
  /\ Abort({"poll", "command"}, {})
  /\ p' = [Waits(p, "none") EXCEPT !.app = "background", !.freshness = "refreshing",
             !.paused = TRUE, !.pending = None, !.polling = FALSE]
  /\ UNCHANGED <<machine, acceptedBoot, keys, press, left, world>>
Foreground ==
  /\ p.app = "background"
  /\ wire' = Polls(wire)
  /\ p' = [p EXCEPT !.app = "active", !.polling = TRUE, !.retried = FALSE]
  /\ UNCHANGED <<machine, answers, acceptedBoot, keys, press, left, world>>
NewSessions ==
  [app |-> "active", freshness |-> "connecting", shown |-> Blank, boot |-> 0,
   polling |-> TRUE, timer |-> "none", retried |-> FALSE, paused |-> FALSE,
   pending |-> None, kept |-> [s \in Slots |-> None]]
Blur ==
  /\ world.blurs /\ p.app = "active"
  /\ Abort({"poll", "command"} \cup (IF p.polling THEN {} ELSE {"stale"}), {})
  /\ p' = [NewSessions EXCEPT !.app = "blurred", !.polling = FALSE]
  /\ press' = [s \in Slots |-> Unasked]
  /\ UNCHANGED <<machine, acceptedBoot, keys, left, world>>
Focus ==
  /\ p.app = "blurred"
  /\ wire' = Polls(wire)
  /\ p' = NewSessions
  /\ UNCHANGED <<machine, answers, acceptedBoot, keys, press, left, world>>

-----------------------------------------------------------------------------
Init ==
  /\ world \in Worlds /\ left = world.bounds
  /\ machine = Booted
  /\ wire = Polls({}) /\ answers = <<>> /\ acceptedBoot = 0
  /\ p = NewSessions /\ keys = 0
  /\ press = [s \in Slots |-> Unasked]
Press ==
  \/ PressHeater \/ PressMode \/ ConfirmTargets \/ ConfirmDismiss
  \/ StartCooldown \/ StopCooldown \/ StopShot
  \/ \E selection \in Shots \cap world.presses : StartShot(selection)
Next ==
  \/ \E r \in wire : Serve(r)
  \/ EndsByItself \/ Fault \/ Restart
  \/ OtherAsks \/ \E to \in {"other", "stale"} : OtherHeard(to) \/ Lost(to)
  \/ PollTimer \/ PollShown \/ PollRefused \/ PollLost
  \/ Press \/ CommandAnswered \/ CommandLost
  \/ Background \/ Foreground \/ Blur \/ Focus
Spec == Init /\ [][Next]_vars
(* Timers fire, and those that end a request among them; polls that are sent     *)
(* again and again are served, and shown, in the end.                            *)
FairSpec ==
  /\ Spec
  /\ WF_vars(PollTimer) /\ WF_vars(PollShown \/ PollRefused \/ PollLost)
  /\ WF_vars(CommandAnswered \/ CommandLost)
  /\ SF_vars(\E r \in wire : r.to = "poll" /\ Serve(r)) /\ SF_vars(PollShown)

-----------------------------------------------------------------------------
(* A start that is pressed again because no answer came begins one shot or       *)
(* cooldown and no second one, whatever was lost, late or aborted in between,    *)
(* until the machine has answered, was seen to restart, or the screen was left.  *)
(* The machine remembers the last key of a slot, and in memory: a restart that   *)
(* the phone has not seen yet, and an older start that is served late and begins *)
(* an activity in between, make it forget, and the same press may pour again.    *)
StartedOnce == \A s \in Slots : press[s].poured <= 1

(* While the app is in front, the screen keeps returning to what the machine     *)
(* does: no failure, command or interruption ends polling or leaves it stale.    *)
Refreshes == []<>(p.app # "active" \/ p.shown = View(machine))

(* A command that is pending ends, so that the user may press again.             *)
CommandsReturn == p.pending # None ~> p.pending = None

=============================================================================
