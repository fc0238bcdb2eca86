-------------------------- MODULE CalibrationScreen --------------------------
(* The temperature calibration screens of some phones and the machine they     *)
(* calibrate.  A screen drives one TemperatureCalibrationSession: a queue that  *)
(* makes one request at a time, a poll that renews the machine's lease, and a   *)
(* leaving (background, navigation, a lost connection) that forgets everything  *)
(* and asks, as best it can, for the calibration to be cancelled.  Whatever the *)
(* queue still holds of an ended generation returns at once, so that leaving    *)
(* drops it here, all but the cancels that leaving itself queued: as leaves     *)
(* they precede everything a new generation asks.  Time passes in ticks; a call *)
(* is answered before Timeout or lost.  The machine's side of the calibration   *)
(* is the simulator's.                                                          *)
EXTENDS Integers, Sequences, Functions

CONSTANTS
  Phones,
  Interval, Timeout, Lease,  \* poll interval, request timeout, lease of a calibration
  Low, High, First,          \* candidates, and the one a calibration starts from
  MaxCals,                   \* bound on the calibrations of a behaviour
  MaxQueue,                  \* bound on the operations that wait
  Worlds                     \* bounds: who is there, what may fail, how much is pressed

ASSUME TimesAssumption ==
  /\ Interval \in Nat \ {0} /\ Timeout \in Nat \ {0} /\ Lease \in Nat \ {0}
  /\ Interval + 2 * (Timeout - 1) < Lease     \* 5 s and two calls of less than 5 s in 15 s
ASSUME CandidatesAssumption == Low \in Int /\ High \in Int /\ First \in Low..High

VARIABLES
  device,    \* the calibration the machine runs: id 0 is none
  session,   \* of each phone's screen
  orphans,   \* requests whose caller has gone: the machine may still serve them
  world      \* the behaviour's world, and what it has left of presses and leavings
vars == <<device, session, orphans, world>>

None == -1
Op(p, kind, id, candidate) == [phone |-> p, kind |-> kind, id |-> id, candidate |-> candidate]
NoCall ==
  [op |-> Op("nobody", "none", 0, 0), age |-> 0, answer |-> "none", id |-> 0, candidate |-> 0]
NoSnap == [id |-> None, candidate |-> 0]       \* nothing acknowledged; id 0: not calibrating
NoSession ==
  [open |-> FALSE, active |-> TRUE, running |-> FALSE, status |-> "idle", snapshot |-> NoSnap,
   leaves |-> <<>>, queue |-> <<>>, call |-> NoCall, timer |-> None,
   started |-> 0, left |-> {}]  \* history: the calibration it started and shows, those it left

Calibrating(s) == s.snapshot.id > 0
Waiting(s) == s.call # NoCall
Queued(s) == s.leaves # <<>> \/ s.queue # <<>>
Enqueue(s, op) == [s EXCEPT !.queue = Append(@, op)]
Leaving(op) == op.kind = "leave"

(* start, of a new or an idle session. *)
Start(p, s) ==
  IF s.running THEN s
  ELSE Enqueue([s EXCEPT !.running = TRUE, !.status = "loading", !.snapshot = NoSnap,
                       !.started = 0],
               Op(p, "poll", 0, 0))
SchedulePoll(s) == [s EXCEPT !.timer = Interval]
(* An ended generation: its timer is cleared, what it queued does nothing. *)
Ended(s, status) ==
  [s EXCEPT !.running = FALSE, !.status = status, !.timer = None, !.queue = <<>>]
(* leave and closeForDisconnection: the active call is aborted, except that a    *)
(* best-effort cancel has no signal, and the cancel waits its turn in the queue. *)
LeaveAtOnce(p, s, status) ==           \* mutant: the cancel does not wait its turn
  LET gone == [Ended(s, status) EXCEPT !.snapshot = NoSnap,
                                       !.call = IF Leaving(@.op) THEN @ ELSE NoCall,
                                       !.left = @ \cup ({s.snapshot.id} \ {None, 0})]
  IN [session |-> gone,
      sent |-> IF Calibrating(s) THEN {Op(p, "leave", s.snapshot.id, 0)} ELSE {}]
LeaveRunning(p, s, status) ==          \* mutant: a session that polls on unseen
  [session |-> [s EXCEPT !.status = status], sent |-> {}]
Leave(p, s, status) ==
  LET gone == [Ended(s, status) EXCEPT !.snapshot = NoSnap,
                                       !.call = IF Leaving(@.op) THEN @ ELSE NoCall]
  IN [session |-> IF ~Calibrating(s) THEN gone
                  ELSE [gone EXCEPT !.left = @ \cup {s.snapshot.id},
                                    !.leaves = Append(@, Op(p, "leave", s.snapshot.id, 0))],
      sent |-> {}]
(* An aborted request that the machine has not served may still reach it. *)
Aborted(s) ==
  IF Waiting(s) /\ s.call.answer = "none" /\ ~Leaving(s.call.op) THEN {s.call.op} ELSE {}
Left(p, status) ==
  LET l == Leave(p, session[p], status)
  IN /\ session' = [session EXCEPT ![p] = l.session]
     /\ orphans' = orphans \cup Aborted(session[p]) \cup l.sent

(* The machine serves a request: only a calibration's own identifier renews,     *)
(* changes, saves or ends it; eligible is what else it looks at.                 *)
Serve(op, eligible) ==
  CASE op.kind = "state" -> [device |-> device, answer |-> "ok"]
    [] op.kind = "start" ->
         IF device.id # 0 \/ ~eligible THEN [device |-> device, answer |-> "refused"]
         ELSE [device |-> [device EXCEPT !.id = device.cals + 1, !.cals = @ + 1, !.idle = 0,
                                         !.candidate = First], answer |-> "ok"]
    [] OTHER ->
         IF device.id # op.id THEN [device |-> device, answer |-> "ended"]
         ELSE CASE op.kind = "renew" -> [device |-> [device EXCEPT !.idle = 0], answer |-> "ok"]
                [] op.kind = "candidate" ->
                     [device |-> [device EXCEPT !.idle = 0, !.candidate = op.candidate],
                      answer |-> "ok"]
                [] op.kind = "save" /\ ~eligible ->
                     [device |-> [device EXCEPT !.idle = 0], answer |-> "refused"]
                [] op.kind = "save" /\ eligible ->
                     [device |-> [device EXCEPT !.id = 0, !.idle = 0], answer |-> "ok"]
                [] op.kind \in {"cancel", "leave"} ->
                     [device |-> [device EXCEPT !.id = 0, !.idle = 0,
                        !.gone = IF Leaving(op) THEN @ \cup {<<op.phone, op.id>>} ELSE @],
                      answer |-> "ok"]

Init ==
  /\ world \in Worlds
  /\ device = [id |-> 0, candidate |-> First, idle |-> 0, cals |-> 0, gone |-> {}]
  /\ session = [p \in Phones |-> NoSession]
  /\ orphans = {}

Press == world.presses > 0 /\ world' = [world EXCEPT !.presses = @ - 1]
Goes == world.leavings > 0 /\ world' = [world EXCEPT !.leavings = @ - 1]

(* Opening makes a session; the effect's cleanup stops it and lets it go.        *)
Open(p) ==
  /\ p \in world.phones /\ ~session[p].open /\ Press
  /\ session' = [session EXCEPT ![p] = Start(p, [NoSession EXCEPT !.open = TRUE])]
  /\ UNCHANGED <<device, orphans>>
Close(p) ==
  /\ session[p].open /\ Goes
  /\ LET s == session[p]
         l == IF s.running THEN Leave(p, s, "cancelled") ELSE [session |-> s, sent |-> {}]
     IN orphans' = orphans \cup Aborted(s) \cup l.sent
                   \cup Range(l.session.leaves)
                   \cup (IF Leaving(l.session.call.op) /\ l.session.call.answer = "none"
                         THEN {l.session.call.op} ELSE {})
  /\ session' = [session EXCEPT ![p] = NoSession]
  /\ UNCHANGED device
Background(p) ==
  /\ session[p].open /\ session[p].active /\ Goes
  /\ LET l == IF session[p].running THEN Leave(p, session[p], "cancelled")
              ELSE [session |-> session[p], sent |-> {}]
     IN /\ session' = [session EXCEPT ![p] = [l.session EXCEPT !.active = FALSE]]
        /\ orphans' = orphans \cup l.sent
                      \cup (IF session[p].running THEN Aborted(session[p]) ELSE {})
  /\ UNCHANGED device
Foreground(p) ==
  /\ session[p].open /\ ~session[p].active
  /\ session' = [session EXCEPT ![p] = Start(p, [@ EXCEPT !.active = TRUE])]
  /\ UNCHANGED <<device, orphans, world>>

(* The buttons: each needs an acknowledged state and no pending mutation; mutate  *)
(* does nothing once the session has ended.                                      *)
Mutate(p, kind, candidate) ==
  /\ session[p].active /\ session[p].status # "pending"
  /\ Len(session[p].leaves) + Len(session[p].queue) < MaxQueue
  /\ session[p].running /\ Press
  /\ Queued(session[p]) => Waiting(session[p])    \* no press between two microtasks
  /\ session' = [session EXCEPT ![p] = Enqueue([@ EXCEPT !.timer = None],
                                               Op(p, kind, 0, candidate))]
  /\ UNCHANGED <<device, orphans>>
PressStart(p) == session[p].snapshot.id = 0 /\ device.cals < MaxCals /\ Mutate(p, "start", 0)
PressStep(p) ==
  /\ Calibrating(session[p])
  /\ \E step \in {-1, 1} :
       LET c == session[p].snapshot.candidate + step
       IN c \in Low..High /\ Mutate(p, "candidate", c)
(* The confirmation shows the acknowledged candidate; Save asks for no candidate. *)
ConfirmSave(p) ==
  Calibrating(session[p]) /\ Mutate(p, "save", 0)
PressCancel(p) == Calibrating(session[p]) /\ Mutate(p, "cancel", 0)

(* The queue's next operation begins: a mutation names the calibration that is    *)
(* acknowledged by then, and is rejected without a request when there is none.    *)
Begin(p) ==
  LET s == session[p]
      rest == IF s.leaves # <<>> THEN [s EXCEPT !.leaves = Tail(@)]
                                 ELSE [s EXCEPT !.queue = Tail(@)]
      op == Head(IF s.leaves # <<>> THEN s.leaves ELSE s.queue)
      Ask(t, kind, id) ==
        [t EXCEPT !.call = [NoCall EXCEPT !.op = Op(p, kind, id, op.candidate)]]
      pending == [rest EXCEPT !.status = "pending"] IN
  /\ Queued(s) /\ ~Waiting(s)
  /\ session' = [session EXCEPT ![p] =
       CASE op.kind = "leave" -> Ask(rest, "leave", op.id)
         [] op.kind = "poll" -> IF Calibrating(s) THEN Ask(rest, "renew", s.snapshot.id)
                                ELSE Ask(rest, "state", 0)
         [] op.kind = "start" -> Ask(pending, "start", 0)
         [] OTHER -> IF Calibrating(s) THEN Ask(pending, op.kind, s.snapshot.id)
                     ELSE SchedulePoll([rest EXCEPT !.status = "rejected"])]
  /\ UNCHANGED <<device, orphans, world>>

ServeCall(p) ==
  /\ Waiting(session[p]) /\ session[p].call.answer = "none"
  /\ \E eligible \in BOOLEAN :
       LET served == Serve(session[p].call.op, eligible) IN
       /\ device' = served.device
       /\ session' = [session EXCEPT ![p].call.answer = served.answer,
                        ![p].call.id = served.device.id,
                        ![p].call.candidate = served.device.candidate]
  /\ UNCHANGED <<orphans, world>>
ServeOrphan ==
  /\ \E op \in orphans, eligible \in BOOLEAN :
       orphans' = orphans \ {op} /\ device' = Serve(op, eligible).device
  /\ UNCHANGED <<session, world>>
LoseOrphan ==
  \E op \in orphans : orphans' = orphans \ {op} /\ UNCHANGED <<device, session, world>>

(* mutate and poll, once the call is answered. *)
AnsweredUnscheduled(p) ==              \* mutant: a mutation leaves no poll scheduled
  LET s == session[p]
      done == [s EXCEPT !.call = NoCall]
      shown == [done EXCEPT !.snapshot = [id |-> s.call.id,
                                          candidate |-> IF s.call.id = 0 THEN 0 ELSE s.call.candidate],
                            !.status = "ready"] IN
  IF Leaving(s.call.op) THEN done
  ELSE CASE s.call.answer = "ended" -> [Ended(done, "rejected") EXCEPT !.snapshot = NoSnap]
         [] s.call.answer = "refused" ->
              SchedulePoll([done EXCEPT !.status = "rejected",
                              !.started = IF s.call.op.kind = "start" THEN 0 ELSE @])
         [] s.call.answer = "ok" /\ s.call.op.kind = "save" -> Ended(shown, "saved")
         [] s.call.answer = "ok" /\ s.call.op.kind = "cancel" -> Ended(shown, "cancelled")
         [] s.call.answer = "ok" /\ s.call.op.kind \in {"start", "candidate"} ->
              [shown EXCEPT !.started = IF s.call.op.kind = "start" THEN s.call.id ELSE @]
         [] OTHER -> SchedulePoll(shown)
Answered(p) ==
  LET s == session[p]
      done == [s EXCEPT !.call = NoCall]
      shown == [done EXCEPT !.snapshot = [id |-> s.call.id,
                                          candidate |-> IF s.call.id = 0 THEN 0 ELSE s.call.candidate],
                            !.status = "ready"] IN
  IF Leaving(s.call.op) THEN done
  ELSE CASE s.call.answer = "ended" -> [Ended(done, "rejected") EXCEPT !.snapshot = NoSnap]
         [] s.call.answer = "refused" ->
              SchedulePoll([done EXCEPT !.status = "rejected",
                              !.started = IF s.call.op.kind = "start" THEN 0 ELSE @])
         [] s.call.answer = "ok" /\ s.call.op.kind = "save" -> Ended(shown, "saved")
         [] s.call.answer = "ok" /\ s.call.op.kind = "cancel" -> Ended(shown, "cancelled")
         [] OTHER -> SchedulePoll([shown EXCEPT
                       !.started = IF s.call.op.kind = "start" THEN s.call.id ELSE @])
Answer(p) ==
  /\ Waiting(session[p]) /\ session[p].call.answer # "none" /\ session[p].call.age < Timeout
  /\ session' = [session EXCEPT ![p] = Answered(p)]
  /\ UNCHANGED <<device, orphans, world>>

(* A call is lost: it times out, the network fails, or its answer is older than   *)
(* one the dashboard's own poll was given through the same client.                *)
Lost(p) ==
  /\ Waiting(session[p]) /\ world.lossy
  /\ IF Leaving(session[p].call.op)
     THEN /\ session' = [session EXCEPT ![p].call = NoCall,
                                        ![p].left = @ \ {session[p].call.op.id}]
          /\ orphans' = orphans \cup (IF session[p].call.answer = "none"
                                      THEN {session[p].call.op} ELSE {})
     ELSE Left(p, "disconnected")
  /\ UNCHANGED <<device, world>>

(* The calibration ends without its phone: a fault, or another client's command. *)
Conflict ==
  /\ device.id # 0 /\ world.conflicts
  /\ device' = [device EXCEPT !.id = 0, !.idle = 0]
  /\ UNCHANGED <<session, orphans, world>>

PollDue(p) ==
  /\ session[p].timer = 0
  /\ session' = [session EXCEPT ![p] = Enqueue([@ EXCEPT !.timer = None], Op(p, "poll", 0, 0))]
  /\ UNCHANGED <<device, orphans, world>>

(* Nothing that is due is put off while time passes; an expired lease leaves its  *)
(* idle time behind.                                                             *)
Tick ==
  /\ \A p \in Phones : /\ session[p].timer # 0 /\ (Queued(session[p]) => Waiting(session[p]))
                       /\ Waiting(session[p]) =>
                            session[p].call.age + 1 < Timeout + (IF world.lossy THEN 1 ELSE 0)
  /\ session' = [p \in Phones |->
       [session[p] EXCEPT !.timer = IF @ = None THEN None ELSE @ - 1,
                          !.call.age = IF Waiting(session[p]) THEN @ + 1 ELSE 0]]
  /\ device' = IF device.id = 0 THEN device
               ELSE [device EXCEPT !.idle = @ + 1, !.id = IF device.idle + 1 >= Lease THEN 0 ELSE @]
  /\ UNCHANGED <<orphans, world>>

Handles(p) == Begin(p) \/ ServeCall(p) \/ Answer(p) \/ Lost(p) \/ PollDue(p)
Next ==
  \/ \E p \in Phones :
       \/ Open(p) \/ Close(p) \/ Background(p) \/ Foreground(p)
       \/ PressStart(p) \/ PressStep(p) \/ ConfirmSave(p) \/ PressCancel(p)
       \/ Begin(p) \/ ServeCall(p) \/ Answer(p) \/ Lost(p) \/ PollDue(p)
  \/ ServeOrphan \/ LoseOrphan \/ Conflict \/ Tick
Spec == Init /\ [][Next]_vars
FairSpec == Spec /\ WF_vars(Tick) /\ \A p \in Phones : WF_vars(Handles(p))

-----------------------------------------------------------------------------
Holds(p, id) ==
  LET s == session[p] IN s.open /\ s.active /\ s.running /\ s.snapshot.id = id

(* A calibration that the screen which started it has shown since does not run out *)
(* its lease while no call times out: a poll interval and two calls fit into it,   *)
(* whatever was pressed between them.  A second start that was pressed before the  *)
(* first had its turn is refused and renews nothing: such a screen is left out.    *)
LeaseIsKept ==
  [][device.id # 0 /\ device'.idle = Lease =>
       \A p \in Phones : session[p].started = device.id /\ session'[p].call.age < Timeout =>
                           ~Holds(p, device.id)]_vars

(* A screen that comes back does not take up the calibration that its own leaving *)
(* has cancelled: the cancel is answered before the next poll is asked.          *)
ResumedIsFresh ==
  \A p \in Phones : \A id \in session[p].left :
    <<p, id>> \in device.gone => ~Holds(p, id)

(* A calibration that no screen shows any more ends: by the cancel that leaving  *)
(* sends or by its lease, also when the request that started it was abandoned.   *)
AbandonedEnds ==
  \A id \in 1..MaxCals :
    (device.id = id /\ \A p \in Phones : ~Holds(p, id)) ~>
      (device.id # id \/ \E p \in Phones : Holds(p, id))

=============================================================================
