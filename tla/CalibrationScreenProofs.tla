---------------------- MODULE CalibrationScreenProofs ----------------------
(* What the calibration screens promise, proved for any phones, candidates and  *)
(* bounds.  Fits says of one screen and the machine what both properties rest   *)
(* on: what the screen has left is over or about to be cancelled before anything *)
(* new is asked, and the lease of what it started is as old as its last answer,  *)
(* its timer and its call in flight allow.                                       *)
EXTENDS CalibrationScreen, TLAPS

-----------------------------------------------------------------------------
(* The states.                                                                 *)
Answers == {"none", "ok", "refused", "ended"}
Asks == {"renew", "candidate", "save", "cancel"}   \* what needs a calibration's identifier
Requests == [phone : Phones, kind : Asks \cup {"state", "start", "leave"},
             id : Nat, candidate : Int]
Wishes == [phone : Phones, kind : {"poll", "start", "candidate", "save", "cancel"},
           id : {0}, candidate : Int]
Cancels == [phone : Phones, kind : {"leave"}, id : Nat \ {0}, candidate : {0}]
Calls == [op : Requests, age : Nat, answer : Answers, id : Nat, candidate : Int]
Snaps == [id : Nat \cup {None}, candidate : Int]
Devices == [id : Nat, candidate : Int, idle : Nat, cals : Nat,
            gone : SUBSET (Phones \X Nat)]
Sessions ==
  [open : BOOLEAN, active : BOOLEAN, running : BOOLEAN,
   status : {"idle", "loading", "ready", "pending", "rejected", "saved", "cancelled",
             "disconnected"},
   snapshot : Snaps, leaves : Seq(Cancels), queue : Seq(Wishes), call : Calls \cup {NoCall},
   timer : {None} \cup 0..Interval, started : Nat, left : SUBSET (Nat \ {0})]

TypeOK ==
  /\ device \in Devices
  /\ session \in [Phones -> Sessions]
  /\ orphans \subseteq Requests

(* Identifiers are given in order: a machine d runs its newest calibration or none, *)
(* for less than a lease, and no screen knows of a later one.                       *)
DeviceOK(d) ==
  /\ d.id \in {0, d.cals}
  /\ d.id # 0 => d.idle < Lease
Known(d, s) ==
  /\ s.snapshot.id \in {None} \cup 0..d.cals
  /\ s.call.id \in 0..d.cals
  /\ s.started \in 0..d.cals
  /\ s.left \subseteq 1..d.cals
  /\ \A i \in 1..Len(s.leaves) : s.leaves[i].id \in 1..d.cals
  /\ Waiting(s) /\ Leaving(s.call.op) => s.call.op.id \in 1..d.cals

(* What a screen has left it does not show, and its cancel is on its way or was not *)
(* needed: nothing of a new generation is asked before.                             *)
InTurn(s) == Waiting(s) /\ ~Leaving(s.call.op) => s.leaves = <<>>
Cancelling(s, id) ==
  \/ \E i \in 1..Len(s.leaves) : s.leaves[i].id = id
  \/ Waiting(s) /\ Leaving(s.call.op) /\ s.call.op.id = id
Dropped(d, s) ==
  \A id \in s.left : s.snapshot.id # id /\ (Cancelling(s, id) \/ d.id # id)
Told(d, s) ==
  Waiting(s) /\ s.call.answer # "none" =>
    IF Leaving(s.call.op) THEN d.id # s.call.op.id ELSE s.call.id \notin s.left

(* A screen that shows the calibration it started: how long ago it was renewed.     *)
Runs(d, s) == s.running /\ d.id # 0 /\ s.started = d.id
OneCall == Timeout - 1
Renewing(d, call) ==
  IF call.op.kind = "start"
  THEN call.answer \in {"none", "refused"} /\ d.idle <= OneCall + Interval + call.age
  ELSE /\ call.op.kind \in Asks /\ call.op.id = d.id
       /\ IF call.answer = "none" THEN d.idle <= OneCall + Interval + call.age
          ELSE /\ d.idle <= call.age
               /\ \/ /\ call.op.kind \in {"renew", "candidate"} /\ call.answer = "ok"
                     /\ call.id = d.id
                  \/ call.op.kind = "save" /\ call.answer = "refused"
Renewed(d, s) ==
  /\ s.snapshot.id = d.id
  /\ s.leaves = <<>>
  /\ IF Waiting(s) THEN Renewing(d, s.call)
     ELSE IF s.queue # <<>> THEN d.idle <= OneCall + Interval
     ELSE s.timer # None /\ d.idle + s.timer <= OneCall + Interval
Begun(d, call) ==
  call.op.kind = "start" /\ call.answer = "ok" =>
    call.id # 0 /\ (call.id = d.id => d.idle <= call.age)

Fits(d, s) ==
  /\ Known(d, s)
  /\ InTurn(s)
  /\ Dropped(d, s)
  /\ Told(d, s)
  /\ Runs(d, s) => Renewed(d, s)
  /\ Begun(d, s.call)
  /\ s.running /\ s.started # 0 => s.leaves = <<>>
IInv ==
  /\ TypeOK
  /\ DeviceOK(device)
  /\ \A p \in Phones : Fits(device, session[p])

-----------------------------------------------------------------------------
(* A call in flight has an operation, no call has none.                         *)
LEMMA CallKinds ==
  ASSUME NEW s \in Sessions
  PROVE  /\ Waiting(s) <=> s.call.op.kind # "none"
         /\ Waiting(s) => s.call \in Calls
         /\ s.call.age \in Nat /\ s.call.id \in Nat /\ s.call.candidate \in Int
  BY DEF Sessions, Calls, Requests, Asks, Waiting, NoCall, Op

(* The machine either goes on with its calibration, perhaps renewed, or has none,  *)
(* or has a new one.                                                               *)
Moves(d, e) ==
  \/ e.id = d.id /\ e.cals = d.cals /\ e.idle \in {d.idle, 0}
  \/ e.id = 0 /\ e.cals = d.cals /\ e.idle = 0
  \/ e.id = d.cals + 1 /\ e.cals = d.cals + 1 /\ e.idle = 0

(* What the machine does with a request, whoever asks.                            *)
LEMMA ServeMoves ==
  ASSUME device \in Devices, DeviceOK(device),
         NEW op \in Requests, NEW eligible \in BOOLEAN, NEW r, r = Serve(op, eligible)
  PROVE  /\ r.device \in Devices /\ DeviceOK(r.device) /\ Moves(device, r.device)
         /\ r.answer \in Answers \ {"none"}
<1> USE DEF Devices, Requests, Asks, DeviceOK, Moves, Answers
<1> USE TimesAssumption, CandidatesAssumption
<1>1. CASE op.kind = "state"
  BY <1>1 DEF Serve
<1>2. CASE op.kind = "start"
  <2>1. First \in Int
    OBVIOUS
  <2>2. CASE device.id # 0 \/ ~eligible
    BY <1>2, <2>2 DEF Serve
  <2>3. CASE ~(device.id # 0 \/ ~eligible)
    <3> DEFINE new == [device EXCEPT !.id = device.cals + 1, !.cals = @ + 1, !.idle = 0,
                                     !.candidate = First]
    <3>1. r = [device |-> new, answer |-> "ok"]
      BY <1>2, <2>3 DEF Serve
    <3>2. new.id = device.cals + 1 /\ new.cals = device.cals + 1 /\ new.idle = 0
      OBVIOUS
    <3>3. new \in Devices
      <4>1. \A n \in Nat, i \in Int :
              [device EXCEPT !.id = n, !.cals = n, !.idle = 0, !.candidate = i] \in Devices
        BY ONLY device \in Devices DEF Devices
      <4>2. device.cals + 1 \in Nat
        OBVIOUS
      <4> QED BY ONLY <2>1, <4>1, <4>2
    <3> HIDE DEF new
    <3> QED BY <3>1, <3>2, <3>3
  <2> QED BY <2>2, <2>3
<1>3. CASE op.kind \in Asks \cup {"leave"} /\ device.id # op.id
  BY <1>3 DEF Serve
<1>4. CASE op.kind = "renew" /\ device.id = op.id
  BY <1>4 DEF Serve
<1>5. CASE op.kind = "candidate" /\ device.id = op.id
  <2> DEFINE tuned == [device EXCEPT !.idle = 0, !.candidate = op.candidate]
  <2>1. r = [device |-> tuned, answer |-> "ok"]
    BY <1>5 DEF Serve
  <2>2. tuned.id = device.id /\ tuned.cals = device.cals /\ tuned.idle = 0
    OBVIOUS
  <2>3. tuned \in Devices
    <3>1. op.candidate \in Int
      OBVIOUS
    <3> QED BY ONLY device \in Devices, <3>1 DEF Devices
  <2> HIDE DEF tuned
  <2> QED BY <2>1, <2>2, <2>3
<1>6. CASE op.kind = "save" /\ device.id = op.id
  <2>1. r = IF eligible THEN [device |-> [device EXCEPT !.id = 0, !.idle = 0], answer |-> "ok"]
            ELSE [device |-> [device EXCEPT !.idle = 0], answer |-> "refused"]
    BY <1>6 DEF Serve
  <2>2. /\ [device EXCEPT !.id = 0, !.idle = 0] \in Devices
        /\ [device EXCEPT !.idle = 0] \in Devices
    OBVIOUS
  <2> QED BY <2>1, <2>2
<1>7. CASE op.kind = "cancel" /\ device.id = op.id
  BY <1>7 DEF Serve, Leaving
<1>8. CASE op.kind = "leave" /\ device.id = op.id
  <2>1. {<<op.phone, op.id>>} \subseteq Phones \X Nat
    OBVIOUS
  <2> QED BY <1>8, <2>1 DEF Serve, Leaving
<1> QED BY <1>1, <1>2, <1>3, <1>4, <1>5, <1>6, <1>7, <1>8

(* What an answer says of the machine that gave it.                               *)
LEMMA ServeAnswers ==
  ASSUME device \in Devices, DeviceOK(device),
         NEW op \in Requests, NEW eligible \in BOOLEAN, NEW r, r = Serve(op, eligible)
  PROVE  /\ Leaving(op) => op.id = 0 \/ r.device.id # op.id
         /\ op.kind = "start" /\ r.answer = "ok"
              => r.device.id = device.cals + 1 /\ r.device.idle = 0
         /\ op.kind = "start" /\ device.id # 0 => r.device = device /\ r.answer = "refused"
         /\ op.kind \in Asks /\ op.id = device.id /\ r.device.id = device.id /\ device.id # 0
              => /\ r.device.idle = 0
                 /\ \/ op.kind \in {"renew", "candidate"} /\ r.answer = "ok"
                    \/ op.kind = "save" /\ r.answer = "refused"
<1> USE DEF Devices, Requests, Asks, DeviceOK
<1>1. CASE op.kind = "state"
  BY <1>1 DEF Serve, Leaving
<1>2. CASE op.kind = "start"
  BY <1>2 DEF Serve, Leaving
<1>3. CASE op.kind \in Asks \cup {"leave"} /\ device.id # op.id
  BY <1>3 DEF Serve
<1>4. CASE op.kind \in {"renew", "candidate"} /\ device.id = op.id
  BY <1>4 DEF Serve, Leaving
<1>5. CASE op.kind = "save" /\ device.id = op.id
  BY <1>5 DEF Serve, Leaving
<1>6. CASE op.kind \in {"cancel", "leave"} /\ device.id = op.id
  BY <1>6 DEF Serve, Leaving
<1> QED BY <1>1, <1>2, <1>3, <1>4, <1>5, <1>6

(* A screen that does nothing while the machine moves.                            *)
LEMMA FitsMoved ==
  ASSUME NEW d \in Devices, NEW e \in Devices, DeviceOK(d), DeviceOK(e), Moves(d, e),
         NEW s \in Sessions, Fits(d, s)
  PROVE  Fits(e, s)
<1> USE DEF Devices
<1>1. /\ s.started \in Nat /\ s.timer \in {None} \cup 0..Interval
      /\ s.call.age \in Nat /\ s.call.id \in Nat
      /\ s.left \subseteq Nat \ {0}
  BY CallKinds DEF Sessions
<1>2. Known(e, s)
  <2>1. 0..d.cals \subseteq 0..e.cals /\ 1..d.cals \subseteq 1..e.cals
    BY DEF Moves
  <2> QED BY <2>1 DEF Fits, Known
<1>3. Dropped(e, s)
  BY <1>1 DEF Fits, Known, Dropped, Moves
<1>4. Told(e, s)
  BY <1>1 DEF Fits, Known, Told, Moves
<1>5. Begun(e, s.call)
  BY <1>1 DEF Fits, Known, Begun, Moves
<1>6. ASSUME Runs(e, s) PROVE Renewed(e, s)
  <2>1. Runs(d, s) /\ e.id = d.id /\ e.idle \in {d.idle, 0}
    BY <1>1, <1>6 DEF Fits, Known, Runs, Moves
  <2>2. Renewed(d, s)
    BY <2>1 DEF Fits
  <2> QED BY <1>1, <2>1, <2>2, TimesAssumption DEF Renewed, Renewing, OneCall, None
<1> QED BY <1>2, <1>3, <1>4, <1>5, <1>6 DEF Fits

(* A session's fields change one or a few at a time.                              *)
LEMMA SessionFields ==
  ASSUME NEW s \in Sessions
  PROVE  /\ \A b \in BOOLEAN : /\ [s EXCEPT !.open = b] \in Sessions
                               /\ [s EXCEPT !.active = b] \in Sessions
         /\ \A t \in {None} \cup 0..Interval : [s EXCEPT !.timer = t] \in Sessions
         /\ \A q \in Seq(Wishes) : [s EXCEPT !.queue = q] \in Sessions
         /\ \A c \in Calls \cup {NoCall} : [s EXCEPT !.call = c] \in Sessions
  BY DEF Sessions

LEMMA QueueGrows ==
  ASSUME NEW s \in Sessions, NEW op \in Wishes
  PROVE  /\ Enqueue(s, op) \in Sessions
         /\ Enqueue(s, op).queue # <<>>
  <1>1. s.queue \in Seq(Wishes)
    BY DEF Sessions
  <1>2. Append(s.queue, op) \in Seq(Wishes) /\ Append(s.queue, op) # <<>>
    BY <1>1
  <1>3. Enqueue(s, op) = [s EXCEPT !.queue = Append(s.queue, op)]
    BY DEF Enqueue
  <1>4. [s EXCEPT !.queue = Append(s.queue, op)].queue = Append(s.queue, op)
    BY DEF Sessions
  <1> QED BY <1>2, <1>3, <1>4, SessionFields

(* A wish that is queued leaves a screen's duties as they are: what is renewed late is *)
(* renewed by the time the queue is served.                                       *)
LEMMA EnqueueFits ==
  ASSUME NEW d \in Devices, DeviceOK(d), NEW s \in Sessions, Fits(d, s),
         NEW op \in Wishes
  PROVE  LET t == Enqueue([s EXCEPT !.timer = None], op)
         IN t \in Sessions /\ Fits(d, t)
<1> DEFINE r == [s EXCEPT !.timer = None]
           t == Enqueue(r, op)
<1>1. r \in Sessions
  BY SessionFields
<1>2. t \in Sessions /\ t.queue # <<>>
  BY <1>1, QueueGrows
<1>3. /\ t.running = s.running /\ t.snapshot = s.snapshot /\ t.leaves = s.leaves
      /\ t.call = s.call /\ t.started = s.started /\ t.left = s.left
  BY DEF Enqueue, Sessions
<1>4. s.timer \in {None} \cup 0..Interval
  BY DEF Sessions
<1> HIDE DEF r, t
<1>5. ASSUME Runs(d, t) PROVE Renewed(d, t)
  <2>1. Renewed(d, s)
    BY <1>3, <1>5 DEF Fits, Runs
  <2>2. CASE Waiting(s)
    BY <1>3, <2>1, <2>2 DEF Renewed, Waiting
  <2>3. CASE ~Waiting(s)
    BY <1>2, <1>3, <1>4, <2>1, <2>3, TimesAssumption
       DEF Renewed, Waiting, Devices, OneCall, None
  <2> QED BY <2>2, <2>3
<1>6. Known(d, t) /\ InTurn(t) /\ Dropped(d, t) /\ Told(d, t) /\ Begun(d, t.call)
  BY <1>3 DEF Fits, Known, InTurn, Dropped, Cancelling, Told, Waiting
<1>7. t.running /\ t.started # 0 => t.leaves = <<>>
  BY <1>3 DEF Fits
<1> QED BY <1>2, <1>5, <1>6, <1>7 DEF Fits, t, r

(* A screen starts anew: it shows nothing, and its first poll follows the cancels. *)
LEMMA StartFits ==
  ASSUME NEW d \in Devices, DeviceOK(d), NEW s \in Sessions, Fits(d, s), NEW p \in Phones
  PROVE  Start(p, s) \in Sessions /\ Fits(d, Start(p, s))
<1>1. CASE s.running
  BY <1>1 DEF Start
<1>2. CASE ~s.running
  <2> DEFINE r == [s EXCEPT !.running = TRUE, !.status = "loading", !.snapshot = NoSnap,
                            !.started = 0]
             t == Enqueue(r, Op(p, "poll", 0, 0))
  <2>1. t = Start(p, s)
    BY <1>2 DEF Start
  <2>2. r \in Sessions
    <3>1. \A snap \in Snaps :
            [s EXCEPT !.running = TRUE, !.status = "loading", !.snapshot = snap, !.started = 0]
              \in Sessions
      BY DEF Sessions
    <3>2. NoSnap \in Snaps
      BY DEF Snaps, NoSnap, None
    <3> QED BY <3>1, <3>2
  <2>3. Op(p, "poll", 0, 0) \in Wishes
    BY DEF Op, Wishes
  <2>4. t \in Sessions
    BY <2>2, <2>3, QueueGrows
  <2>5. /\ t.snapshot = NoSnap /\ t.leaves = s.leaves /\ t.call = s.call
        /\ t.started = 0 /\ t.left = s.left
    BY DEF Enqueue, Sessions
  <2> HIDE DEF r, t
  <2>6. Known(d, t)
    BY <2>5 DEF Fits, Known, Waiting, NoSnap, Devices
  <2>7. InTurn(t) /\ Told(d, t) /\ Begun(d, t.call)
    BY <2>5 DEF Fits, InTurn, Told, Waiting
  <2>8. Dropped(d, t)
    <3>1. None \notin s.left
      BY DEF Fits, Known, None, Devices
    <3> QED BY <2>5, <3>1 DEF Fits, Dropped, Cancelling, Waiting, NoSnap
  <2>9. ~Runs(d, t)
    BY <2>5 DEF Runs
  <2> QED BY <2>1, <2>4, <2>5, <2>6, <2>7, <2>8, <2>9 DEF Fits
<1> QED BY <1>1, <1>2

(* A screen that is not there, and one that has just been opened.                  *)
LEMMA NewSession ==
  ASSUME NEW d \in Devices, DeviceOK(d),
         NEW s \in {NoSession, [NoSession EXCEPT !.open = TRUE]}
  PROVE  s \in Sessions /\ Fits(d, s)
<1>1. s.leaves = <<>> /\ s.queue = <<>> /\ s.left = {} /\ s.call = NoCall
      /\ s.started = 0 /\ s.snapshot = NoSnap
  BY DEF NoSession
<1>2. <<>> \in Seq(Cancels) /\ <<>> \in Seq(Wishes) /\ NoSnap \in Snaps
  BY DEF NoSnap, Snaps, None
<1>3. s \in Sessions
  <2>1. NoSession \in Sessions
    BY <1>2 DEF Sessions, NoSession
  <2> QED BY <2>1, SessionFields
<1>4. ~Waiting(s) /\ s.call.op.kind = "none" /\ s.call.id = 0 /\ Len(s.leaves) = 0
  BY <1>1 DEF Waiting, NoCall, Op
<1>5. Known(d, s)
  BY <1>1, <1>4 DEF Known, NoSnap, Devices
<1> QED BY <1>1, <1>3, <1>4, <1>5
        DEF Fits, InTurn, Dropped, Told, Runs, Begun, Renewed

(* Going to the background and back changes nothing else.                         *)
LEMMA ActiveFits ==
  ASSUME NEW d \in Devices, NEW s \in Sessions, Fits(d, s), NEW b \in BOOLEAN
  PROVE  LET t == [s EXCEPT !.active = b] IN t \in Sessions /\ Fits(d, t)
<1> DEFINE t == [s EXCEPT !.active = b]
<1>1. t \in Sessions
  BY SessionFields
<1>2. /\ t.running = s.running /\ t.snapshot = s.snapshot /\ t.leaves = s.leaves
      /\ t.call = s.call /\ t.started = s.started /\ t.left = s.left
      /\ t.queue = s.queue /\ t.timer = s.timer
  BY DEF Sessions
<1> HIDE DEF t
<1>3. Known(d, t) /\ InTurn(t) /\ Dropped(d, t) /\ Told(d, t) /\ Begun(d, t.call)
  BY <1>2 DEF Fits, Known, InTurn, Dropped, Cancelling, Told, Waiting
<1>4. Runs(d, t) => Renewed(d, t)
  BY <1>2 DEF Fits, Runs, Renewed, Waiting
<1> QED BY <1>1, <1>2, <1>3, <1>4 DEF Fits, t

(* Leaving: the screen forgets the calibration, whose cancel joins those that wait. *)
LEMMA LeaveFits ==
  ASSUME NEW d \in Devices, DeviceOK(d), NEW s \in Sessions, Fits(d, s), NEW p \in Phones,
         NEW status \in {"cancelled", "disconnected"}
  PROVE  LET l == Leave(p, s, status)
         IN /\ l.session \in Sessions /\ Fits(d, l.session) /\ l.sent = {}
            /\ ~l.session.running
<1> DEFINE l == Leave(p, s, status)
           call == IF Leaving(s.call.op) THEN s.call ELSE NoCall
           op == Op(p, "leave", s.snapshot.id, 0)
           left == s.left \cup {s.snapshot.id}
           gone == [s EXCEPT !.running = FALSE, !.status = status, !.timer = None,
                             !.queue = <<>>, !.snapshot = NoSnap, !.call = call]
<1>1. call \in Calls \cup {NoCall} /\ s.leaves \in Seq(Cancels) /\ s.snapshot \in Snaps
  BY DEF Sessions
<1>2. /\ gone.running = FALSE /\ gone.snapshot = NoSnap /\ gone.call = call
      /\ gone.leaves = s.leaves /\ gone.left = s.left /\ gone.started = s.started
  BY DEF Sessions
<1>3. gone \in Sessions
  <2>1. NoSnap \in Snaps /\ <<>> \in Seq(Wishes) /\ None \in {None} \cup 0..Interval
    BY DEF NoSnap, Snaps, None
  <2> HIDE DEF call
  <2>2. \A n \in Snaps, q \in Seq(Wishes), t \in {None} \cup 0..Interval,
           c \in Calls \cup {NoCall} :
          [s EXCEPT !.running = FALSE, !.status = status, !.timer = t,
                    !.queue = q, !.snapshot = n, !.call = c] \in Sessions
    BY DEF Sessions
  <2> QED BY <1>1, <2>1, <2>2
<1>4. /\ l.sent = {}
      /\ l.session = IF ~Calibrating(s) THEN gone
                     ELSE [gone EXCEPT !.left = left, !.leaves = Append(s.leaves, op)]
  BY <1>2 DEF Leave, Ended, Sessions
<1>5. Waiting(gone) => Leaving(call.op) /\ call = s.call /\ Waiting(s)
  BY <1>2 DEF Waiting
<1>6. /\ NoSnap.id = None /\ call.id \in 0..d.cals /\ Begun(d, call)
      /\ s.left \subseteq 1..d.cals /\ None \notin s.left /\ s.started \in 0..d.cals
  BY DEF NoSnap, NoCall, Op, None, Fits, Known, Begun, Devices
<1>7. CASE ~Calibrating(s)
  <2>1. Known(d, gone)
    BY <1>2, <1>5, <1>6 DEF Fits, Known
  <2>2. Dropped(d, gone)
    BY <1>2, <1>5, <1>6 DEF Fits, Dropped, Cancelling, Waiting
  <2>3. Told(d, gone)
    BY <1>2, <1>5 DEF Fits, Told
  <2> QED BY <1>2, <1>3, <1>4, <1>5, <1>6, <1>7, <2>1, <2>2, <2>3
          DEF Fits, InTurn, Runs
<1>8. CASE Calibrating(s)
  <2> DEFINE t == [gone EXCEPT !.left = left, !.leaves = Append(s.leaves, op)]
  <2>1. s.snapshot.id \in 1..d.cals
    BY <1>8 DEF Calibrating, Fits, Known, None, Devices
  <2>2. op \in Cancels
    BY <2>1 DEF op, Op, Cancels, Devices
  <2>3. left \in SUBSET (Nat \ {0}) /\ Append(s.leaves, op) \in Seq(Cancels)
    BY <1>1, <2>1, <2>2 DEF Sessions, Devices
  <2>4. t \in Sessions
    <3> HIDE DEF gone, left, op
    <3>1. \A a \in SUBSET (Nat \ {0}), q \in Seq(Cancels) :
            [gone EXCEPT !.left = a, !.leaves = q] \in Sessions
      BY <1>3 DEF Sessions
    <3> QED BY <2>3, <3>1
  <2>5. /\ t.running = FALSE /\ t.snapshot = NoSnap /\ t.call = call
        /\ t.leaves = Append(s.leaves, op) /\ t.left = left /\ t.started = s.started
    BY <1>2, <1>3 DEF Sessions
  <2>6. /\ Len(t.leaves) = Len(s.leaves) + 1 /\ t.leaves[Len(s.leaves) + 1].id = s.snapshot.id
        /\ \A i \in 1..Len(s.leaves) : t.leaves[i] = s.leaves[i]
        /\ Len(s.leaves) \in Nat
    BY <1>1, <2>5 DEF op, Op
  <2>7. Waiting(t) <=> Waiting(gone)
    BY <1>2, <2>5 DEF Waiting
  <2> HIDE DEF gone, t, op
  <2>8. Known(d, t)
    <3>1. \A i \in 1..Len(s.leaves) : s.leaves[i].id \in 1..d.cals
      BY DEF Fits, Known
    <3>2. \A i \in 1..Len(t.leaves) : t.leaves[i].id \in 1..d.cals
      <4>1. \A i \in 1..Len(t.leaves) : i \in 1..Len(s.leaves) \/ i = Len(s.leaves) + 1
        BY <2>6
      <4> QED BY <2>1, <2>6, <3>1, <4>1
    <3>3. Waiting(t) /\ Leaving(t.call.op) => t.call.op.id \in 1..d.cals
      BY <1>5, <2>5, <2>7 DEF Fits, Known
    <3>4. t.left \subseteq 1..d.cals
      BY <1>6, <2>1, <2>5
    <3> HIDE DEF call, left
    <3> QED BY <1>6, <2>5, <3>2, <3>3, <3>4 DEF Known
  <2>9. Dropped(d, t)
    <3>1. SUFFICES ASSUME NEW id \in left
                   PROVE  t.snapshot.id # id /\ (Cancelling(t, id) \/ d.id # id)
      BY <2>5 DEF Dropped
    <3>2. t.snapshot.id # id
      BY <1>6, <2>1, <2>5 DEF None, Devices
    <3>3. CASE id = s.snapshot.id
      BY <2>6, <3>2, <3>3 DEF Cancelling
    <3>4. CASE id \in s.left
      <4>1. Cancelling(s, id) \/ d.id # id
        BY <3>4 DEF Fits, Dropped
      <4>2. Cancelling(s, id) => Cancelling(t, id)
        BY <1>5, <2>5, <2>6, <2>7 DEF Cancelling, Waiting
      <4> QED BY <3>2, <4>1, <4>2
    <3> QED BY <3>3, <3>4
  <2>10. Told(d, t)
    BY <1>5, <2>5, <2>7 DEF Fits, Told
  <2> QED BY <1>4, <1>5, <1>6, <1>8, <2>4, <2>5, <2>7, <2>8, <2>9, <2>10
          DEF Fits, InTurn, Runs, t
<1> QED BY <1>7, <1>8

(* A request goes out: the call is new and waits for its answer.                   *)
LEMMA NewCall ==
  ASSUME NEW op \in Requests
  PROVE  LET c == [NoCall EXCEPT !.op = op]
         IN c \in Calls /\ c # NoCall /\ c.op = op /\ c.age = 0 /\ c.answer = "none" /\ c.id = 0
  BY DEF NoCall, Op, Calls, Requests, Asks, Answers

(* The queue's next operation begins.                                             *)
LEMMA BeginFits ==
  ASSUME IInv, NEW p \in Phones, Begin(p)
  PROVE  /\ session' = [session EXCEPT ![p] = session'[p]]
         /\ session'[p] \in Sessions /\ Fits(device, session'[p])
<1> DEFINE s == session[p]
           t == session'[p]
<1>1. /\ device \in Devices /\ s \in Sessions /\ Fits(device, s) /\ DeviceOK(device)
      /\ session \in [Phones -> Sessions]
  BY DEF IInv, TypeOK
<1>2. /\ s.leaves \in Seq(Cancels) /\ s.queue \in Seq(Wishes) /\ s.snapshot \in Snaps
      /\ s.call \in Calls \cup {NoCall}
  BY <1>1 DEF Sessions
<1>3. Queued(s) /\ ~Waiting(s)
  BY DEF Begin
<1>4. session' = [session EXCEPT ![p] = t]
  BY <1>1 DEF Begin
<1>5. CASE s.leaves # <<>>
  <2> DEFINE op == Op(p, "leave", Head(s.leaves).id, Head(s.leaves).candidate)
             c == [NoCall EXCEPT !.op = op]
  <2>1. Head(s.leaves) \in Cancels /\ Tail(s.leaves) \in Seq(Cancels)
    BY <1>2, <1>5
  <2>2. t = [s EXCEPT !.leaves = Tail(s.leaves), !.call = c]
    BY <1>1, <1>5, <2>1 DEF Begin, Cancels
  <2>3. op \in Requests /\ op.kind = "leave" /\ op.id = Head(s.leaves).id
    BY <2>1 DEF Op, Requests, Asks, Cancels
  <2>4. c \in Calls /\ c # NoCall /\ c.op = op /\ c.answer = "none" /\ c.id = 0
    BY <2>3, NewCall
  <2>5. /\ Len(s.leaves) \in Nat \ {0} /\ Len(Tail(s.leaves)) = Len(s.leaves) - 1
        /\ Head(s.leaves) = s.leaves[1]
        /\ \A i \in 1..Len(s.leaves) - 1 : Tail(s.leaves)[i] = s.leaves[i + 1]
    BY <1>2, <1>5
  <2> HIDE DEF c, op, t, s
  <2>6. /\ t \in Sessions /\ t.leaves = Tail(s.leaves) /\ t.call = c
        /\ t.running = s.running /\ t.snapshot = s.snapshot /\ t.queue = s.queue
        /\ t.started = s.started /\ t.left = s.left
    BY <1>1, <2>1, <2>2, <2>4 DEF Sessions
  <2>7. Waiting(t) /\ Leaving(t.call.op) /\ t.call.op.id = s.leaves[1].id
    BY <2>3, <2>4, <2>5, <2>6 DEF Waiting, Leaving
  <2>8. \A i \in 1..Len(s.leaves) : s.leaves[i].id \in 1..device.cals
    BY <1>1 DEF Fits, Known
  <2>9. Known(device, t)
    <3>1. \A i \in 1..Len(t.leaves) :
            t.leaves[i] = s.leaves[i + 1] /\ i + 1 \in 1..Len(s.leaves)
      BY <2>5, <2>6
    <3>2. \A i \in 1..Len(t.leaves) : t.leaves[i].id \in 1..device.cals
      BY <2>8, <3>1
    <3>3. t.call.op.id \in 1..device.cals
      BY <2>5, <2>7, <2>8
    <3>4. t.call.id \in 0..device.cals
      BY <1>1, <2>4, <2>6 DEF Devices
    <3> QED BY <1>1, <2>6, <3>2, <3>3, <3>4 DEF Fits, Known
  <2>10. Dropped(device, t)
    <3>1. SUFFICES ASSUME NEW id \in s.left PROVE Cancelling(s, id) => Cancelling(t, id)
      BY <1>1, <2>6 DEF Fits, Dropped
    <3>2. ASSUME NEW i \in 1..Len(s.leaves), s.leaves[i].id = id PROVE Cancelling(t, id)
      <4>1. CASE i = 1
        BY <2>7, <3>2, <4>1 DEF Cancelling
      <4>2. CASE i # 1
        <5>1. i - 1 \in 1..Len(t.leaves) /\ t.leaves[i - 1] = s.leaves[i]
          BY <2>5, <2>6, <4>2
        <5> QED BY <3>2, <5>1 DEF Cancelling
      <4> QED BY <4>1, <4>2
    <3> QED BY <1>3, <3>2 DEF Cancelling
  <2>11. Told(device, t) /\ Begun(device, t.call) /\ InTurn(t)
    BY <2>3, <2>4, <2>6, <2>7 DEF Told, Begun, InTurn
  <2>12. ~(t.running /\ t.started # 0)
    BY <1>1, <1>5, <2>6 DEF Fits
  <2> QED BY <1>4, <2>6, <2>9, <2>10, <2>11, <2>12 DEF Fits, Runs, t
<1>6. CASE s.leaves = <<>>
  <2>1. s.queue # <<>> /\ Head(s.queue) \in Wishes /\ Tail(s.queue) \in Seq(Wishes)
    BY <1>2, <1>3, <1>6 DEF Queued
  <2> DEFINE kind == IF Head(s.queue).kind # "poll" THEN Head(s.queue).kind
                     ELSE IF Calibrating(s) THEN "renew" ELSE "state"
             id == IF kind \in Asks THEN s.snapshot.id ELSE 0
             c == [NoCall EXCEPT !.op = Op(p, kind, id, Head(s.queue).candidate)]
             status == IF Head(s.queue).kind = "poll" THEN s.status ELSE "pending"
  <2>2. CASE kind \in Asks => Calibrating(s)
    <3>1. t = [s EXCEPT !.queue = Tail(s.queue), !.status = status, !.call = c]
      BY <1>1, <1>6, <2>1, <2>2 DEF Begin, Wishes, Asks, Sessions
    <3>2. kind \in Asks \cup {"state", "start"}
      BY <2>1 DEF Wishes, Asks
    <3>3. Op(p, kind, id, Head(s.queue).candidate) \in Requests
      <4>1. id \in Nat /\ Head(s.queue).candidate \in Int
        BY <1>2, <2>1, <2>2 DEF Wishes, Snaps, Calibrating, None
      <4> HIDE DEF id, kind
      <4> QED BY <3>2, <4>1 DEF Op, Requests
    <3>4. c \in Calls /\ c # NoCall /\ c.op.kind = kind /\ c.op.id = id
          /\ c.answer = "none" /\ c.id = 0 /\ c.age = 0
      BY <3>3, NewCall DEF Op
    <3>5. status \in {"idle", "loading", "ready", "pending", "rejected", "saved",
                      "cancelled", "disconnected"}
      BY <1>1 DEF Sessions
    <3>6. /\ kind \in Asks => id = s.snapshot.id
          /\ kind = "state" => ~Calibrating(s)
      BY <2>1 DEF Wishes
    <3> HIDE DEF s, t, c, status, kind, id
    <3>7. /\ t \in Sessions /\ t.leaves = s.leaves /\ t.call = c
          /\ t.running = s.running /\ t.snapshot = s.snapshot
          /\ t.started = s.started /\ t.left = s.left
      BY <1>1, <2>1, <3>1, <3>4, <3>5 DEF Sessions
    <3>8. Waiting(t) /\ ~Leaving(t.call.op)
      BY <3>2, <3>4, <3>7 DEF Waiting, Leaving, Asks
    <3>9. Known(device, t)
      BY <1>1, <3>4, <3>7, <3>8 DEF Fits, Known, Devices
    <3>10. Dropped(device, t)
      BY <1>1, <1>3, <1>6, <3>7 DEF Fits, Dropped, Cancelling
    <3>11. InTurn(t) /\ Told(device, t) /\ Begun(device, t.call)
      BY <1>6, <3>4, <3>7 DEF InTurn, Told, Begun
    <3>12. ASSUME Runs(device, t) PROVE Renewed(device, t)
      <4>1. Renewed(device, s) /\ Calibrating(s)
        BY <1>1, <3>7, <3>12 DEF Fits, Runs, Renewed, Calibrating, Devices
      <4>2. device.idle <= OneCall + Interval
        BY <1>3, <2>1, <4>1 DEF Renewed
      <4>3. Renewing(device, c)
        BY <1>1, <3>2, <3>4, <3>6, <4>1, <4>2, TimesAssumption
           DEF Renewing, Renewed, Devices, OneCall
      <4> QED BY <1>6, <3>7, <3>8, <4>1, <4>3 DEF Renewed
    <3> QED BY <1>4, <1>6, <3>7, <3>9, <3>10, <3>11, <3>12 DEF Fits, t
  <2>3. CASE kind \in Asks /\ ~Calibrating(s)
    <3>1. t = [s EXCEPT !.queue = Tail(s.queue), !.status = "rejected", !.timer = Interval]
      BY <1>1, <1>6, <2>1, <2>3 DEF Begin, Wishes, Asks, Sessions, SchedulePoll
    <3> HIDE DEF s, t, c, status, kind, id
    <3>2. /\ t \in Sessions /\ t.leaves = s.leaves /\ t.call = s.call
          /\ t.running = s.running /\ t.snapshot = s.snapshot
          /\ t.started = s.started /\ t.left = s.left
      <4>1. \A q \in Seq(Wishes), n \in {None} \cup 0..Interval :
              [s EXCEPT !.queue = q, !.status = "rejected", !.timer = n] \in Sessions
        BY <1>1 DEF Sessions
      <4>2. Interval \in {None} \cup 0..Interval
        BY TimesAssumption
      <4>3. t \in Sessions
        BY <2>1, <3>1, <4>1, <4>2
      <4> QED BY <1>1, <3>1, <4>3 DEF Sessions
    <3>3. ~Runs(device, t)
      BY <1>1, <2>3, <3>2 DEF Fits, Runs, Renewed, Calibrating, Devices
    <3>4. Known(device, t) /\ Dropped(device, t) /\ InTurn(t) /\ Told(device, t)
      BY <1>1, <3>2 DEF Fits, Known, Dropped, Cancelling, InTurn, Told, Waiting
    <3> QED BY <1>1, <1>4, <3>2, <3>3, <3>4 DEF Fits, t
  <2> QED BY <2>2, <2>3
<1> QED BY <1>5, <1>6

(* A call is answered by the machine: its calibration, if it has one, is none that  *)
(* the screen has left, and a renewed one is as old as the answer at most.          *)
LEMMA ServeCallFits ==
  ASSUME IInv, NEW p \in Phones, ServeCall(p)
  PROVE  /\ session' = [session EXCEPT ![p] = session'[p]]
         /\ session'[p] \in Sessions /\ Fits(device', session'[p])
         /\ device' \in Devices /\ DeviceOK(device') /\ Moves(device, device')
<1> DEFINE s == session[p]
           t == session'[p]
           d == device
           e == device'
<1>1. /\ d \in Devices /\ s \in Sessions /\ Fits(d, s) /\ DeviceOK(d)
      /\ session \in [Phones -> Sessions]
  BY DEF IInv, TypeOK
<1>2. Waiting(s) /\ s.call.answer = "none" /\ s.call \in Calls /\ s.call.op \in Requests
  BY <1>1, CallKinds DEF ServeCall, Calls
<1>3. PICK eligible \in BOOLEAN :
        LET served == Serve(s.call.op, eligible) IN
        /\ e = served.device
        /\ session' = [session EXCEPT ![p].call.answer = served.answer,
                         ![p].call.id = served.device.id,
                         ![p].call.candidate = served.device.candidate]
  BY DEF ServeCall
<1> DEFINE r == Serve(s.call.op, eligible)
           c == [s.call EXCEPT !.answer = r.answer, !.id = e.id, !.candidate = e.candidate]
<1>4. e \in Devices /\ DeviceOK(e) /\ Moves(d, e) /\ r.answer \in Answers \ {"none"}
  BY <1>1, <1>2, <1>3, ServeMoves
<1>5. t = [s EXCEPT !.call = c] /\ session' = [session EXCEPT ![p] = t]
  BY <1>1, <1>2, <1>3 DEF Sessions, Calls
<1>6. /\ c \in Calls /\ c.answer = r.answer /\ c.id = e.id /\ c.op = s.call.op
      /\ c.age = s.call.age
  <2>1. \A a \in Answers, n \in Nat, i \in Int :
          [s.call EXCEPT !.answer = a, !.id = n, !.candidate = i] \in Calls
    BY <1>2 DEF Calls
  <2>2. e.id \in Nat /\ e.candidate \in Int
    BY <1>4 DEF Devices
  <2>3. c \in Calls
    BY <1>4, <2>1, <2>2
  <2> QED BY <1>2, <2>3 DEF Calls
<1>7. /\ Leaving(s.call.op) => s.call.op.id = 0 \/ e.id # s.call.op.id
      /\ s.call.op.kind = "start" /\ r.answer = "ok" => e.id = d.cals + 1 /\ e.idle = 0
      /\ s.call.op.kind = "start" /\ d.id # 0 => e = d /\ r.answer = "refused"
      /\ s.call.op.kind \in Asks /\ s.call.op.id = d.id /\ e.id = d.id /\ d.id # 0
           => /\ e.idle = 0
              /\ \/ s.call.op.kind \in {"renew", "candidate"} /\ r.answer = "ok"
                 \/ s.call.op.kind = "save" /\ r.answer = "refused"
  BY <1>1, <1>2, <1>3, ServeAnswers
<1> HIDE DEF s, t, d, e, c, r
<1>8. /\ t \in Sessions /\ t.leaves = s.leaves /\ t.call = c
      /\ t.running = s.running /\ t.snapshot = s.snapshot /\ t.queue = s.queue
      /\ t.started = s.started /\ t.left = s.left /\ t.timer = s.timer
  BY <1>1, <1>5, <1>6 DEF Sessions
<1>9. Waiting(t)
  BY <1>6, <1>8, CallKinds DEF Waiting, Calls, NoCall, Op, Requests, Asks
<1>10. Fits(e, s)
  BY <1>1, <1>4, FitsMoved
<1>11. Known(e, t)
  BY <1>2, <1>4, <1>6, <1>8, <1>9, <1>10 DEF Fits, Known, Devices, DeviceOK
<1>12. InTurn(t) /\ Dropped(e, t)
  BY <1>2, <1>6, <1>8, <1>9, <1>10 DEF Fits, InTurn, Dropped, Cancelling
<1>13. Told(e, t)
  <2>1. CASE Leaving(s.call.op)
    <3>1. s.call.op.id # 0
      BY <1>1, <1>2, <2>1 DEF Fits, Known, Devices
    <3> QED BY <1>6, <1>7, <1>8, <2>1, <3>1 DEF Told
  <2>2. CASE ~Leaving(s.call.op)
    <3>1. s.leaves = <<>> /\ ~(\E i \in 1..Len(s.leaves) : TRUE)
      BY <1>1, <1>2, <2>2 DEF Fits, InTurn
    <3>2. \A id \in s.left : e.id # id
      BY <1>10, <2>2, <3>1 DEF Fits, Dropped, Cancelling
    <3> QED BY <1>6, <1>8, <2>2, <3>2 DEF Told
  <2> QED BY <2>1, <2>2
<1>14. Begun(e, c)
  BY <1>1, <1>2, <1>6, <1>7 DEF Begun, Devices, Calls
<1>15. ASSUME Runs(e, t) PROVE Renewed(e, t)
  <2>1. Runs(d, s) /\ e.id = d.id /\ d.id # 0
    BY <1>1, <1>4, <1>8, <1>15 DEF Runs, Moves, Fits, Known, Devices
  <2>2. Renewed(d, s)
    BY <1>1, <2>1 DEF Fits
  <2>3. Renewing(d, s.call)
    BY <1>2, <2>2 DEF Renewed
  <2>4. Renewing(e, c)
    BY <1>1, <1>2, <1>4, <1>6, <1>7, <2>1, <2>3
       DEF Renewing, Devices, Calls, Asks
  <2> QED BY <1>8, <1>9, <2>1, <2>2, <2>4 DEF Renewed
<1>16. t.running /\ t.started # 0 => t.leaves = <<>>
  BY <1>1, <1>8 DEF Fits
<1> QED BY <1>4, <1>5, <1>8, <1>11, <1>12, <1>13, <1>14, <1>15, <1>16 DEF Fits, t, e, d

(* A screen takes its answer.                                                      *)
LEMMA AnsweredFits ==
  ASSUME IInv, NEW p \in Phones, Answer(p)
  PROVE  Answered(p) \in Sessions /\ Fits(device, Answered(p))
<1> DEFINE s == session[p]
           d == device
           t == Answered(p)
           done == [s EXCEPT !.call = NoCall]
           kind == s.call.op.kind
           seen == [id |-> s.call.id,
                    candidate |-> IF s.call.id = 0 THEN 0 ELSE s.call.candidate]
           shown == [done EXCEPT !.snapshot = seen, !.status = "ready"]
<1>1. /\ d \in Devices /\ s \in Sessions /\ Fits(d, s) /\ DeviceOK(d)
  BY DEF IInv, TypeOK
<1>2. /\ Waiting(s) /\ s.call.answer # "none" /\ s.call.age < Timeout
      /\ s.call \in Calls /\ s.call.answer \in Answers
      /\ kind \in Asks \cup {"state", "start", "leave"}
  BY <1>1, CallKinds DEF Answer, Calls, Requests
<1>3. /\ done \in Sessions /\ done.leaves = s.leaves /\ done.call = NoCall
      /\ done.running = s.running /\ done.snapshot = s.snapshot /\ done.queue = s.queue
      /\ done.started = s.started /\ done.left = s.left
  <2>1. done \in Sessions
    BY <1>1, SessionFields
  <2> QED BY <1>1, <2>1 DEF Sessions
<1>4. seen \in Snaps /\ seen.id = s.call.id
  BY <1>2 DEF Snaps, Calls
<1>5. /\ shown \in Sessions /\ shown.leaves = s.leaves /\ shown.call = NoCall
      /\ shown.running = s.running /\ shown.snapshot = seen /\ shown.queue = s.queue
      /\ shown.started = s.started /\ shown.left = s.left
  <2> HIDE DEF seen, done
  <2>1. \A n \in Snaps : [done EXCEPT !.snapshot = n, !.status = "ready"] \in Sessions
    BY <1>3 DEF Sessions
  <2>2. shown \in Sessions
    BY <1>4, <2>1
  <2> QED BY <1>3, <2>2 DEF Sessions
<1>6. NoCall.op.kind = "none" /\ NoCall.id = 0
  BY DEF NoCall, Op
<1>7. t = IF kind = "leave" THEN done
          ELSE CASE s.call.answer = "ended" -> [Ended(done, "rejected") EXCEPT !.snapshot = NoSnap]
                 [] s.call.answer = "refused" ->
                      SchedulePoll([done EXCEPT !.status = "rejected",
                                      !.started = IF kind = "start" THEN 0 ELSE @])
                 [] s.call.answer = "ok" /\ kind = "save" -> Ended(shown, "saved")
                 [] s.call.answer = "ok" /\ kind = "cancel" -> Ended(shown, "cancelled")
                 [] OTHER -> SchedulePoll([shown EXCEPT
                               !.started = IF kind = "start" THEN s.call.id ELSE @])
  BY DEF Answered, Leaving
<1> HIDE DEF s, t, d, done, seen, shown
<1>8. /\ Known(d, s) /\ Dropped(d, s) /\ Told(d, s) /\ Begun(d, s.call) /\ InTurn(s)
      /\ s.running /\ s.started # 0 => s.leaves = <<>>
  BY <1>1 DEF Fits
(* An answer to a cancel ends the wait; any other finds no cancel waiting.         *)
<1>9. CASE kind = "leave"
  <2>1. t = done
    BY <1>7, <1>9
  <2>2. Known(d, done)
    BY <1>1, <1>3, <1>6, <1>8 DEF Known, Waiting, Devices
  <2>3. Dropped(d, done)
    BY <1>2, <1>3, <1>8, <1>9 DEF Dropped, Told, Cancelling, Leaving
  <2>4. InTurn(done) /\ Told(d, done) /\ Begun(d, done.call)
    BY <1>3, <1>6 DEF InTurn, Told, Waiting, Begun
  <2>5. ~Runs(d, done)
    <3>1. ASSUME Runs(d, s) PROVE FALSE
      BY <1>1, <1>2, <1>9, <3>1 DEF Fits, Renewed, Renewing, Asks
    <3> QED BY <1>3, <3>1 DEF Runs
  <2> QED BY <1>3, <1>8, <2>1, <2>2, <2>3, <2>4, <2>5 DEF Fits, t, d, done
<1>10. kind # "leave" => s.leaves = <<>> /\ Len(s.leaves) = 0 /\ s.call.id \notin s.left
                         /\ \A id \in s.left : d.id # id
  BY <1>2, <1>8 DEF InTurn, Told, Dropped, Cancelling, Leaving
<1>11. ASSUME kind # "leave", NEW u \in Sessions,
              u.leaves = s.leaves, u.call = NoCall, u.left = s.left,
              u.started \in {0, s.started} \/ u.started = s.call.id,
              u.snapshot \in {NoSnap, s.snapshot, seen},
              Runs(d, u) => Renewed(d, u)
       PROVE  Fits(d, u)
  <2>1. Known(d, u)
    BY <1>1, <1>4, <1>6, <1>8, <1>11, <1>10 DEF Known, Waiting, NoSnap, Devices
  <2>2. \A id \in s.left : u.snapshot.id # id
    BY <1>1, <1>4, <1>8, <1>10, <1>11 DEF Known, Dropped, NoSnap, None, Devices
  <2>3. Dropped(d, u)
    BY <1>10, <1>11, <2>2 DEF Dropped
  <2>4. InTurn(u) /\ Told(d, u) /\ Begun(d, u.call)
    BY <1>6, <1>11 DEF InTurn, Told, Waiting, Begun
  <2> QED BY <1>10, <1>11, <2>1, <2>3, <2>4 DEF Fits
<1>12. CASE kind # "leave" /\ s.call.answer = "ended"
  <2>1. t = [done EXCEPT !.running = FALSE, !.status = "rejected", !.timer = None,
                         !.queue = <<>>, !.snapshot = NoSnap]
    BY <1>3, <1>7, <1>12 DEF Ended, Sessions
  <2>2. \A n \in Snaps, q \in Seq(Wishes), m \in {None} \cup 0..Interval :
          [done EXCEPT !.running = FALSE, !.status = "rejected", !.timer = m,
                       !.queue = q, !.snapshot = n] \in Sessions
    BY <1>3 DEF Sessions
  <2>3. NoSnap \in Snaps /\ <<>> \in Seq(Wishes) /\ None \in {None} \cup 0..Interval
    BY DEF NoSnap, Snaps, None
  <2>4. t \in Sessions
    BY <2>1, <2>2, <2>3
  <2>5. /\ t.leaves = s.leaves /\ t.call = NoCall /\ t.left = s.left /\ t.started = s.started
        /\ t.snapshot = NoSnap /\ t.running = FALSE
    BY <1>3, <2>1 DEF Sessions
  <2> QED BY <1>11, <1>12, <2>4, <2>5 DEF Runs, t, d
<1>13. CASE kind # "leave" /\ s.call.answer = "refused"
  <2> DEFINE started == IF kind = "start" THEN 0 ELSE s.started
  <2>1. t = [done EXCEPT !.status = "rejected", !.started = started, !.timer = Interval]
    BY <1>3, <1>7, <1>13 DEF SchedulePoll, Sessions
  <2>2. started \in Nat /\ Interval \in {None} \cup 0..Interval
    BY <1>1, TimesAssumption DEF Sessions
  <2> HIDE DEF started
  <2>3. \A n \in Nat, m \in {None} \cup 0..Interval :
          [done EXCEPT !.status = "rejected", !.started = n, !.timer = m] \in Sessions
    BY <1>3 DEF Sessions
  <2>4. t \in Sessions
    BY <2>1, <2>2, <2>3
  <2>5. /\ t.leaves = s.leaves /\ t.call = NoCall /\ t.left = s.left /\ t.started = started
        /\ t.snapshot = s.snapshot /\ t.running = s.running /\ t.timer = Interval
    BY <1>3, <2>1 DEF Sessions
  <2>6. ASSUME Runs(d, t) PROVE Renewed(d, t)
    <3>1. kind # "start" /\ Runs(d, s)
      BY <2>5, <2>6 DEF Runs, started
    <3>2. Renewed(d, s) /\ Renewing(d, s.call)
      BY <1>1, <1>2, <3>1 DEF Fits, Renewed
    <3>3. d.idle <= OneCall
      BY <1>1, <1>2, <3>1, <3>2, TimesAssumption DEF Renewing, OneCall, Devices, Calls
    <3>4. d.idle <= OneCall + Interval /\ d.idle + Interval <= OneCall + Interval
          /\ Interval # None
      BY <1>1, <3>3, TimesAssumption DEF OneCall, Devices, None
    <3> QED BY <2>5, <3>2, <3>4 DEF Renewed, Waiting
  <2> QED BY <1>11, <1>13, <2>4, <2>5, <2>6 DEF started, t, d
<1>14. CASE kind # "leave" /\ s.call.answer = "ok" /\ kind \in {"save", "cancel"}
  <2> DEFINE status == IF kind = "save" THEN "saved" ELSE "cancelled"
  <2>1. t = [shown EXCEPT !.running = FALSE, !.status = status, !.timer = None, !.queue = <<>>]
    BY <1>7, <1>14 DEF Ended
  <2>2. \A q \in Seq(Wishes), m \in {None} \cup 0..Interval :
          [shown EXCEPT !.running = FALSE, !.status = status, !.timer = m, !.queue = q] \in Sessions
    BY <1>5 DEF Sessions
  <2>3. <<>> \in Seq(Wishes) /\ None \in {None} \cup 0..Interval
    OBVIOUS
  <2> HIDE DEF status
  <2>4. t \in Sessions
    BY <2>1, <2>2, <2>3
  <2>5. /\ t.leaves = s.leaves /\ t.call = NoCall /\ t.left = s.left /\ t.started = s.started
        /\ t.snapshot = seen /\ t.running = FALSE
    BY <1>5, <2>1 DEF Sessions
  <2> QED BY <1>11, <1>14, <2>4, <2>5 DEF Runs, t, d
<1>15. CASE kind # "leave" /\ s.call.answer = "ok" /\ kind \notin {"save", "cancel"}
  <2> DEFINE started == IF kind = "start" THEN s.call.id ELSE s.started
  <2>1. t = [shown EXCEPT !.started = started, !.timer = Interval]
    BY <1>5, <1>7, <1>15 DEF SchedulePoll, Sessions
  <2>2. started \in Nat /\ Interval \in {None} \cup 0..Interval
    BY <1>1, <1>2, TimesAssumption DEF Sessions, Calls
  <2> HIDE DEF started
  <2>3. \A n \in Nat, m \in {None} \cup 0..Interval :
          [shown EXCEPT !.started = n, !.timer = m] \in Sessions
    BY <1>5 DEF Sessions
  <2>4. t \in Sessions
    BY <2>1, <2>2, <2>3
  <2>5. /\ t.leaves = s.leaves /\ t.call = NoCall /\ t.left = s.left /\ t.started = started
        /\ t.snapshot = seen /\ t.running = s.running /\ t.timer = Interval
    BY <1>5, <2>1 DEF Sessions
  <2>6. ASSUME Runs(d, t) PROVE Renewed(d, t)
    <3>1. d.idle <= OneCall /\ s.call.id = d.id
      <4>1. CASE kind = "start"
        BY <1>1, <1>2, <1>8, <1>15, <2>5, <2>6, <4>1, TimesAssumption
           DEF started, Runs, Begun, OneCall, Devices, Calls
      <4>2. CASE kind # "start"
        <5>1. Runs(d, s)
          BY <2>5, <2>6, <4>2 DEF Runs, started
        <5>2. Renewing(d, s.call)
          BY <1>1, <1>2, <5>1 DEF Fits, Renewed
        <5> QED BY <1>1, <1>2, <1>15, <4>2, <5>2, TimesAssumption
                DEF Renewing, OneCall, Devices, Calls
      <4> QED BY <4>1, <4>2
    <3>2. d.idle <= OneCall + Interval /\ d.idle + Interval <= OneCall + Interval
          /\ Interval # None
      BY <1>1, <3>1, TimesAssumption DEF OneCall, Devices, None
    <3> QED BY <1>4, <1>10, <1>15, <2>5, <3>1, <3>2 DEF Renewed, Waiting
  <2> QED BY <1>11, <1>15, <2>4, <2>5, <2>6 DEF started, t, d
<1> QED BY <1>2, <1>9, <1>12, <1>13, <1>14, <1>15 DEF Answers

(* A cancel that is lost is not counted on any more.                               *)
LEMMA LostLeaveFits ==
  ASSUME NEW d \in Devices, DeviceOK(d), NEW s \in Sessions, Fits(d, s),
         Waiting(s), Leaving(s.call.op)
  PROVE  LET t == [s EXCEPT !.call = NoCall, !.left = @ \ {s.call.op.id}]
         IN t \in Sessions /\ Fits(d, t)
<1> DEFINE left == s.left \ {s.call.op.id}
           t == [s EXCEPT !.call = NoCall, !.left = left]
<1>1. t \in Sessions
  <2>1. \A a \in SUBSET (Nat \ {0}) : [s EXCEPT !.call = NoCall, !.left = a] \in Sessions
    BY DEF Sessions
  <2>2. left \in SUBSET (Nat \ {0})
    BY DEF Sessions
  <2> QED BY <2>1, <2>2
<1>2. /\ t.running = s.running /\ t.snapshot = s.snapshot /\ t.leaves = s.leaves
      /\ t.call = NoCall /\ t.started = s.started /\ t.left = left
  BY DEF Sessions
<1>3. NoCall.op.kind = "none" /\ NoCall.id = 0
  BY DEF NoCall, Op
<1> HIDE DEF t
<1>4. Known(d, t)
  BY <1>2, <1>3 DEF Fits, Known, Waiting, Devices
<1>5. Dropped(d, t)
  BY <1>2 DEF Fits, Dropped, Cancelling
<1>6. InTurn(t) /\ Told(d, t) /\ Begun(d, t.call)
  BY <1>2, <1>3 DEF InTurn, Told, Waiting, Begun
<1>7. ~Runs(d, s)
  BY CallKinds DEF Fits, Renewed, Renewing, Leaving, Asks
<1>8. ~Runs(d, t)
  BY <1>2, <1>7 DEF Runs
<1> QED BY <1>1, <1>2, <1>4, <1>5, <1>6, <1>8 DEF Fits, t

(* Time passes: a lease runs on by as much as a call or a timer does.               *)
LEMMA TickFits ==
  ASSUME IInv, Tick
  PROVE  /\ device' \in Devices /\ DeviceOK(device') /\ session' \in [Phones -> Sessions]
         /\ \A p \in Phones : Fits(device', session'[p])
<1> DEFINE d == device
           e == device'
<1>1. d \in Devices /\ DeviceOK(d) /\ session \in [Phones -> Sessions]
  BY DEF IInv, TypeOK
<1>2. /\ e \in Devices /\ DeviceOK(e) /\ e.cals = d.cals
      /\ \/ e.id = 0
         \/ e.id = d.id /\ d.id # 0 /\ e.idle = d.idle + 1
  <2>1. CASE d.id = 0
    BY <1>1, <2>1 DEF Tick
  <2>2. CASE d.id # 0
    <3>1. e = [d EXCEPT !.idle = d.idle + 1, !.id = IF d.idle + 1 >= Lease THEN 0 ELSE d.id]
      BY <1>1, <2>2 DEF Tick, Devices
    <3>2. d.idle + 1 \in Nat /\ (IF d.idle + 1 >= Lease THEN 0 ELSE d.id) \in Nat
      BY <1>1 DEF Devices
    <3>3. \A n \in Nat, m \in Nat : [d EXCEPT !.idle = n, !.id = m] \in Devices
      BY <1>1 DEF Devices
    <3>4. e \in Devices
      BY <3>1, <3>2, <3>3
    <3> QED BY <1>1, <2>2, <3>1, <3>4, TimesAssumption DEF DeviceOK, Devices
  <2> QED BY <2>1, <2>2
<1> SUFFICES ASSUME NEW p \in Phones
             PROVE  session'[p] \in Sessions /\ Fits(device', session'[p])
  <2>1. session' = [p \in Phones |-> session'[p]]
    BY DEF Tick
  <2> QED BY <1>2, <2>1
<1> DEFINE s == session[p]
           t == session'[p]
           timer == IF s.timer = None THEN None ELSE s.timer - 1
           age == IF Waiting(s) THEN s.call.age + 1 ELSE 0
           c == [s.call EXCEPT !.age = age]
<1>3. s \in Sessions /\ Fits(d, s)
  BY DEF IInv, TypeOK
<1>4. s.timer # 0 /\ (Queued(s) => Waiting(s))
  BY DEF Tick
<1>5. t = [s EXCEPT !.timer = timer, !.call = c]
  BY <1>1 DEF Tick, Sessions
<1>6. /\ c.op = s.call.op /\ c.answer = s.call.answer /\ c.id = s.call.id
      /\ Waiting(s) => c \in Calls /\ c.age = s.call.age + 1 /\ s.call.age \in Nat
      /\ ~Waiting(s) => c = NoCall
  <2>1. CASE Waiting(s)
    <3>1. s.call \in Calls /\ s.call.age + 1 \in Nat /\ age = s.call.age + 1
      BY <1>3, <2>1, CallKinds
    <3>2. \A n \in Nat : [s.call EXCEPT !.age = n] \in Calls
      BY <3>1 DEF Calls
    <3>3. c \in Calls
      BY <3>1, <3>2
    <3> QED BY <2>1, <3>1, <3>3, <1>3, CallKinds DEF Calls
  <2>2. CASE ~Waiting(s)
    BY <2>2 DEF Waiting, NoCall
  <2> QED BY <2>1, <2>2
<1>7. /\ timer \in {None} \cup 0..Interval
      /\ s.timer = None => timer = None
      /\ s.timer # None => timer = s.timer - 1 /\ timer # None /\ s.timer \in 0..Interval
  BY <1>3, <1>4, TimesAssumption DEF Sessions, None
<1> HIDE DEF s, t, d, e, c, timer
<1>8. t \in Sessions
  <2>1. c \in Calls \cup {NoCall}
    BY <1>6
  <2>2. \A m \in {None} \cup 0..Interval, a \in Calls \cup {NoCall} :
          [s EXCEPT !.timer = m, !.call = a] \in Sessions
    BY <1>3 DEF Sessions
  <2> QED BY <1>5, <1>7, <2>1, <2>2
<1>9. /\ t.running = s.running /\ t.snapshot = s.snapshot /\ t.leaves = s.leaves
      /\ t.call = c /\ t.started = s.started /\ t.left = s.left /\ t.timer = timer
      /\ t.queue = s.queue
  BY <1>3, <1>5 DEF Sessions
<1>10. Waiting(t) <=> Waiting(s)
  <2>1. Waiting(s) => s.call.op.kind # "none"
    BY <1>3, CallKinds
  <2> QED BY <1>6, <1>9, <2>1 DEF Waiting, NoCall, Op
<1>11. Known(e, t)
  BY <1>2, <1>3, <1>6, <1>9, <1>10 DEF Fits, Known
<1>12. Dropped(e, t)
  <2>1. \A id \in s.left : e.id = id => d.id = id
    BY <1>1, <1>2, <1>3 DEF Fits, Known, Devices
  <2> QED BY <1>3, <1>6, <1>9, <1>10, <2>1 DEF Fits, Dropped, Cancelling
<1>13. Told(e, t)
  <2>1. Waiting(s) /\ Leaving(s.call.op) => s.call.op.id # 0
    BY <1>1, <1>3 DEF Fits, Known, Devices
  <2> QED BY <1>2, <1>3, <1>6, <1>9, <1>10, <2>1 DEF Fits, Told
<1>14. InTurn(t) /\ (t.running /\ t.started # 0 => t.leaves = <<>>)
  BY <1>3, <1>6, <1>9, <1>10 DEF Fits, InTurn
<1>15. Begun(e, c)
  <2>1. c.op.kind = "start" => Waiting(s)
    BY <1>3, <1>6, CallKinds
  <2> QED BY <1>1, <1>2, <1>3, <1>6, <2>1 DEF Fits, Begun, Devices
<1>16. ASSUME Runs(e, t) PROVE Renewed(e, t)
  <2>1. Runs(d, s) /\ Renewed(d, s) /\ e.id = d.id /\ e.idle = d.idle + 1
    BY <1>2, <1>3, <1>9, <1>16 DEF Fits, Runs
  <2>2. CASE Waiting(s)
    <3>1. Renewing(d, s.call)
      BY <2>1, <2>2 DEF Renewed
    <3>2. Renewing(e, c)
      BY <1>1, <1>6, <2>1, <2>2, <3>1, TimesAssumption DEF Renewing, Devices, OneCall
    <3> QED BY <1>9, <1>10, <2>1, <2>2, <3>2 DEF Renewed
  <2>3. CASE ~Waiting(s)
    <3>1. s.queue = <<>>
      BY <1>4, <2>3 DEF Queued
    <3>2. s.timer # None /\ d.idle + s.timer <= OneCall + Interval
      BY <2>1, <2>3, <3>1 DEF Renewed
    <3>3. timer # None /\ e.idle + timer <= OneCall + Interval
      BY <1>1, <1>7, <2>1, <3>2, TimesAssumption DEF Devices, OneCall
    <3> QED BY <1>9, <1>10, <2>1, <2>3, <3>1, <3>3 DEF Renewed
  <2> QED BY <2>2, <2>3
<1> QED BY <1>2, <1>8, <1>9, <1>11, <1>12, <1>13, <1>14, <1>15, <1>16 DEF Fits, t, e

-----------------------------------------------------------------------------
(* A step of one screen, and of the machine at most.                               *)
LEMMA OneScreen ==
  ASSUME IInv, NEW p \in Phones,
         device' \in Devices, DeviceOK(device'), Moves(device, device'),
         session' = [session EXCEPT ![p] = session'[p]],
         session'[p] \in Sessions, Fits(device', session'[p]),
         orphans' \subseteq Requests
  PROVE  IInv'
<1>1. session' \in [Phones -> Sessions]
  BY DEF IInv, TypeOK
<1>2. ASSUME NEW q \in Phones PROVE Fits(device', session'[q])
  <2>1. CASE q = p
    BY <2>1
  <2>2. CASE q # p
    <3>1. session'[q] = session[q] /\ session[q] \in Sessions /\ Fits(device, session[q])
      BY <2>2 DEF IInv, TypeOK
    <3> QED BY <3>1, FitsMoved DEF IInv, TypeOK
  <2> QED BY <2>1, <2>2
<1> QED BY <1>1, <1>2 DEF IInv, TypeOK

(* The machine moves and no screen does.                                          *)
LEMMA NoScreen ==
  ASSUME IInv, device' \in Devices, DeviceOK(device'), Moves(device, device'),
         UNCHANGED session, orphans' \subseteq Requests
  PROVE  IInv'
  BY FitsMoved DEF IInv, TypeOK

(* An aborted request, or a cancel that is let go of, is one the machine may serve. *)
LEMMA Abandoned ==
  ASSUME NEW s \in Sessions
  PROVE  /\ Aborted(s) \subseteq Requests
         /\ Range(s.leaves) \subseteq Requests
         /\ Leaving(s.call.op) => s.call.op \in Requests
<1>1. Aborted(s) \subseteq Requests
  BY CallKinds DEF Aborted, Calls
<1>2. Range(s.leaves) \subseteq Requests
  <2>1. s.leaves \in Seq(Cancels)
    BY DEF Sessions
  <2>2. \A i \in DOMAIN s.leaves : s.leaves[i] \in Cancels
    BY <2>1
  <2>3. Cancels \subseteq Requests
    BY DEF Cancels, Requests, Asks
  <2> QED BY <2>2, <2>3 DEF Range
<1>3. Leaving(s.call.op) => s.call.op \in Requests
  <2>1. Leaving(s.call.op) => Waiting(s)
    BY CallKinds DEF Leaving
  <2> QED BY <2>1, CallKinds DEF Calls
<1> QED BY <1>1, <1>2, <1>3

(* A step that leaves the machine alone.                                          *)
LEMMA Stays == ASSUME IInv, UNCHANGED device
               PROVE  device' \in Devices /\ DeviceOK(device') /\ Moves(device, device')
  BY DEF IInv, TypeOK, Moves

(* IInv is inductive: one step of the proof for every action of the screens and of *)
(* the machine.                                                                    *)
THEOREM InvHolds == Spec => []IInv
<1>1. Init => IInv
  <2> SUFFICES ASSUME Init PROVE IInv
    OBVIOUS
  <2>1. device \in Devices /\ DeviceOK(device)
    <3>1. First \in Int
      BY CandidatesAssumption
    <3>2. device.id = 0 /\ device.cals = 0 /\ device.idle = 0
      BY DEF Init
    <3>3. device \in Devices
      BY <3>1 DEF Init, Devices
    <3> QED BY <3>2, <3>3 DEF DeviceOK
  <2>2. NoSession \in Sessions /\ Fits(device, NoSession)
    BY <2>1, NewSession
  <2> QED BY <2>1, <2>2 DEF Init, IInv, TypeOK
<1>2. IInv /\ [Next]_vars => IInv'
  <2> SUFFICES ASSUME IInv, [Next]_vars PROVE IInv'
    OBVIOUS
  <2> USE DEF vars
  <2>1. /\ device \in Devices /\ DeviceOK(device) /\ orphans \subseteq Requests
        /\ session \in [Phones -> Sessions]
        /\ \A p \in Phones : session[p] \in Sessions /\ Fits(device, session[p])
    BY DEF IInv, TypeOK
  <2>2. ASSUME NEW p \in Phones, Open(p) PROVE IInv'
    <3>1. /\ session' = [session EXCEPT ![p] = Start(p, [NoSession EXCEPT !.open = TRUE])]
          /\ UNCHANGED <<device, orphans>>
      BY <2>2 DEF Open
    <3>2. /\ [NoSession EXCEPT !.open = TRUE] \in Sessions
          /\ Fits(device, [NoSession EXCEPT !.open = TRUE])
      BY <2>1, NewSession
    <3> HIDE DEF NoSession
    <3>3. session'[p] = Start(p, [NoSession EXCEPT !.open = TRUE])
      BY <2>1, <3>1
    <3>4. session'[p] \in Sessions /\ Fits(device', session'[p])
      BY <2>1, <3>1, <3>2, <3>3, StartFits
    <3> QED BY <2>1, <3>1, <3>3, <3>4, OneScreen, Stays
  <2>3. ASSUME NEW p \in Phones, Close(p) PROVE IInv'
    <3> DEFINE s == session[p]
               l == IF s.running THEN Leave(p, s, "cancelled") ELSE [session |-> s, sent |-> {}]
    <3>1. l.session \in Sessions /\ l.sent = {}
      BY <2>1, LeaveFits
    <3>2. /\ session' = [session EXCEPT ![p] = NoSession] /\ UNCHANGED device
          /\ orphans' = orphans \cup Aborted(s) \cup l.sent \cup Range(l.session.leaves)
               \cup (IF Leaving(l.session.call.op) /\ l.session.call.answer = "none"
                     THEN {l.session.call.op} ELSE {})
      BY <2>3 DEF Close
    <3>3. orphans' \subseteq Requests
      <4> HIDE DEF l
      <4> QED BY <2>1, <3>1, <3>2, Abandoned
    <3>4. NoSession \in Sessions /\ Fits(device, NoSession)
      BY <2>1, NewSession
    <3>5. session'[p] = NoSession
      BY <2>1, <3>2
    <3> QED BY <2>1, <3>2, <3>3, <3>4, <3>5, OneScreen, Stays
  <2>4. ASSUME NEW p \in Phones, Background(p) PROVE IInv'
    <3> DEFINE s == session[p]
               l == IF s.running THEN Leave(p, s, "cancelled") ELSE [session |-> s, sent |-> {}]
    <3>1. l.session \in Sessions /\ Fits(device, l.session) /\ l.sent = {}
      BY <2>1, LeaveFits
    <3>2. /\ session' = [session EXCEPT ![p] = [l.session EXCEPT !.active = FALSE]]
          /\ orphans' = orphans \cup l.sent \cup (IF s.running THEN Aborted(s) ELSE {})
          /\ UNCHANGED device
      BY <2>4 DEF Background
    <3> HIDE DEF l
    <3>3. orphans' \subseteq Requests
      BY <2>1, <3>1, <3>2, Abandoned
    <3>4. session'[p] = [l.session EXCEPT !.active = FALSE]
      BY <2>1, <3>2
    <3>5. session'[p] \in Sessions /\ Fits(device, session'[p])
      BY <2>1, <3>1, <3>4, ActiveFits
    <3> QED BY <2>1, <3>2, <3>3, <3>4, <3>5, OneScreen, Stays
  <2>5. ASSUME NEW p \in Phones, Foreground(p) PROVE IInv'
    <3> DEFINE s == [session[p] EXCEPT !.active = TRUE]
    <3>1. s \in Sessions /\ Fits(device, s)
      BY <2>1, ActiveFits
    <3>2. session' = [session EXCEPT ![p] = Start(p, s)] /\ UNCHANGED <<device, orphans>>
      BY <2>5 DEF Foreground
    <3> HIDE DEF s
    <3>3. session'[p] = Start(p, s)
      BY <2>1, <3>2
    <3>4. session'[p] \in Sessions /\ Fits(device, session'[p])
      BY <2>1, <3>1, <3>3, StartFits
    <3> QED BY <2>1, <3>2, <3>3, <3>4, OneScreen, Stays
  <2>6. ASSUME NEW p \in Phones, NEW kind \in {"start", "candidate", "save", "cancel"},
               NEW candidate \in Int, Mutate(p, kind, candidate)
        PROVE  IInv'
    <3> DEFINE t == Enqueue([session[p] EXCEPT !.timer = None], Op(p, kind, 0, candidate))
    <3>1. session' = [session EXCEPT ![p] = t] /\ UNCHANGED <<device, orphans>>
      BY <2>6 DEF Mutate
    <3>2. Op(p, kind, 0, candidate) \in Wishes
      BY DEF Op, Wishes
    <3>3. t \in Sessions /\ Fits(device, t)
      BY <2>1, <3>2, EnqueueFits
    <3> HIDE DEF t
    <3>4. session'[p] = t
      BY <2>1, <3>1
    <3> QED BY <2>1, <3>1, <3>3, <3>4, OneScreen, Stays
  <2>7. ASSUME NEW p \in Phones, PressStart(p) PROVE IInv'
    BY <2>6, <2>7 DEF PressStart
  <2>8. ASSUME NEW p \in Phones, PressStep(p) PROVE IInv'
    <3>1. PICK c \in Low..High : Mutate(p, "candidate", c)
      BY <2>8 DEF PressStep
    <3> QED BY <2>6, <3>1
  <2>9. ASSUME NEW p \in Phones, ConfirmSave(p) \/ PressCancel(p) PROVE IInv'
    BY <2>6, <2>9 DEF ConfirmSave, PressCancel
  <2>10. ASSUME NEW p \in Phones, Begin(p) PROVE IInv'
    <3>1. UNCHANGED <<device, orphans>>
      BY <2>10 DEF Begin
    <3> QED BY <2>1, <2>10, <3>1, BeginFits, OneScreen, Stays
  <2>11. ASSUME NEW p \in Phones, ServeCall(p) PROVE IInv'
    <3>1. UNCHANGED orphans
      BY <2>11 DEF ServeCall
    <3> QED BY <2>1, <2>11, <3>1, ServeCallFits, OneScreen
  <2>12. ASSUME NEW p \in Phones, Answer(p) PROVE IInv'
    <3>1. session' = [session EXCEPT ![p] = Answered(p)] /\ UNCHANGED <<device, orphans>>
      BY <2>12 DEF Answer
    <3>2. session'[p] = Answered(p)
      BY <2>1, <3>1
    <3>3. Answered(p) \in Sessions /\ Fits(device, Answered(p))
      BY <2>12, AnsweredFits
    <3> QED BY <2>1, <3>1, <3>2, <3>3, OneScreen, Stays
  <2>13. ASSUME NEW p \in Phones, Lost(p) PROVE IInv'
    <3> DEFINE s == session[p]
               l == Leave(p, s, "disconnected")
               t == [s EXCEPT !.call = NoCall, !.left = @ \ {s.call.op.id}]
    <3>1. CASE Leaving(s.call.op)
      <4>1. /\ session' = [session EXCEPT ![p] = t]
            /\ orphans' = orphans \cup (IF s.call.answer = "none" THEN {s.call.op} ELSE {})
            /\ UNCHANGED device
        BY <2>1, <2>13, <3>1 DEF Lost, Sessions
      <4>2. orphans' \subseteq Requests
        BY <2>1, <3>1, <4>1, Abandoned
      <4>3. Waiting(s)
        BY <2>13 DEF Lost
      <4>4. t \in Sessions /\ Fits(device, t)
        BY <2>1, <3>1, <4>3, LostLeaveFits
      <4> HIDE DEF t
      <4>5. session'[p] = t
        BY <2>1, <4>1
      <4> QED BY <2>1, <4>1, <4>2, <4>4, <4>5, OneScreen, Stays
    <3>2. CASE ~Leaving(s.call.op)
      <4>1. /\ session' = [session EXCEPT ![p] = l.session] /\ UNCHANGED device
            /\ orphans' = orphans \cup Aborted(s) \cup l.sent
        BY <2>13, <3>2 DEF Lost, Left
      <4>2. l.session \in Sessions /\ Fits(device, l.session) /\ l.sent = {}
        BY <2>1, LeaveFits
      <4> HIDE DEF l
      <4>3. orphans' \subseteq Requests
        BY <2>1, <4>1, <4>2, Abandoned
      <4>4. session'[p] = l.session
        BY <2>1, <4>1
      <4> QED BY <2>1, <4>1, <4>2, <4>3, <4>4, OneScreen, Stays
    <3> QED BY <3>1, <3>2
  <2>14. ASSUME NEW p \in Phones, PollDue(p) PROVE IInv'
    <3> DEFINE t == Enqueue([session[p] EXCEPT !.timer = None], Op(p, "poll", 0, 0))
    <3>1. session' = [session EXCEPT ![p] = t] /\ UNCHANGED <<device, orphans>>
      BY <2>14 DEF PollDue
    <3>2. Op(p, "poll", 0, 0) \in Wishes
      BY DEF Op, Wishes
    <3>3. t \in Sessions /\ Fits(device, t)
      BY <2>1, <3>2, EnqueueFits
    <3> HIDE DEF t
    <3>4. session'[p] = t
      BY <2>1, <3>1
    <3> QED BY <2>1, <3>1, <3>3, <3>4, OneScreen, Stays
  <2>15. CASE ServeOrphan
    <3>1. PICK op \in orphans, eligible \in BOOLEAN :
            orphans' = orphans \ {op} /\ device' = Serve(op, eligible).device
      BY <2>15 DEF ServeOrphan
    <3>2. UNCHANGED session
      BY <2>15 DEF ServeOrphan
    <3>3. device' \in Devices /\ DeviceOK(device') /\ Moves(device, device')
      BY <2>1, <3>1, ServeMoves
    <3> QED BY <2>1, <3>1, <3>2, <3>3, NoScreen
  <2>16. CASE LoseOrphan
    <3>1. UNCHANGED <<device, session>> /\ orphans' \subseteq Requests
      BY <2>1, <2>16 DEF LoseOrphan
    <3> QED BY <3>1, NoScreen, Stays
  <2>17. CASE Conflict
    <3>1. device' = [device EXCEPT !.id = 0, !.idle = 0] /\ UNCHANGED <<session, orphans>>
      BY <2>17 DEF Conflict
    <3>2. device' \in Devices /\ DeviceOK(device') /\ Moves(device, device')
      BY <2>1, <3>1 DEF Devices, DeviceOK, Moves
    <3> QED BY <2>1, <3>1, <3>2, NoScreen
  <2>18. CASE Tick
    <3>1. UNCHANGED orphans
      BY <2>18 DEF Tick
    <3> QED BY <2>1, <2>18, <3>1, TickFits DEF IInv, TypeOK
  <2>19. CASE UNCHANGED vars
    BY <2>19 DEF IInv, TypeOK
  <2> QED BY <2>2, <2>3, <2>4, <2>5, <2>7, <2>8, <2>9, <2>10, <2>11, <2>12, <2>13, <2>14,
             <2>15, <2>16, <2>17, <2>18, <2>19 DEF Next
<1> QED BY <1>1, <1>2, PTL DEF Spec

(* Whatever does not let time pass leaves the lease as it is or gives it anew.     *)
LEMMA OnlyTimePasses ==
  ASSUME IInv, Next
  PROVE  Tick \/ Moves(device, device')
<1>1. /\ device \in Devices /\ DeviceOK(device) /\ orphans \subseteq Requests
  BY DEF IInv, TypeOK
<1>2. ASSUME UNCHANGED device PROVE Moves(device, device')
  BY <1>2, Stays
<1>3. ASSUME NEW p \in Phones, Open(p) \/ Close(p) \/ Background(p) \/ Foreground(p)
      PROVE  Moves(device, device')
  BY <1>2, <1>3 DEF Open, Close, Background, Foreground
<1>4. ASSUME NEW p \in Phones,
             PressStart(p) \/ PressStep(p) \/ ConfirmSave(p) \/ PressCancel(p)
      PROVE  Moves(device, device')
  BY <1>2, <1>4 DEF PressStart, PressStep, ConfirmSave, PressCancel, Mutate
<1>5. ASSUME NEW p \in Phones, Begin(p) \/ Answer(p) \/ Lost(p) \/ PollDue(p)
      PROVE  Moves(device, device')
  BY <1>2, <1>5 DEF Begin, Answer, Lost, PollDue
<1>6. ASSUME NEW p \in Phones, ServeCall(p) PROVE Moves(device, device')
  BY <1>6, ServeCallFits
<1>7. CASE ServeOrphan
  <2>1. PICK op \in orphans, eligible \in BOOLEAN : device' = Serve(op, eligible).device
    BY <1>7 DEF ServeOrphan
  <2> QED BY <1>1, <2>1, ServeMoves
<1>8. CASE LoseOrphan
  BY <1>2, <1>8 DEF LoseOrphan
<1>9. CASE Conflict
  BY <1>1, <1>9 DEF Conflict, Moves, Devices
<1> QED BY <1>3, <1>4, <1>5, <1>6, <1>7, <1>8, <1>9 DEF Next

(* A screen that comes back shows nothing that its own leaving has cancelled: for  *)
(* any number of phones, candidates and operations that wait.                      *)
THEOREM ResumedHolds == Spec => []ResumedIsFresh
<1>1. IInv => ResumedIsFresh
  BY DEF IInv, Fits, Dropped, ResumedIsFresh, Holds
<1> QED BY <1>1, InvHolds, PTL

(* A lease does not run out under the screen that started the calibration while no *)
(* call times out: for every poll interval and timeout that fit into the lease as  *)
(* the assumption says.                                                            *)
THEOREM LeaseHolds == Spec => LeaseIsKept
<1> DEFINE Kept ==
      device.id # 0 /\ device'.idle = Lease =>
        \A p \in Phones : session[p].started = device.id /\ session'[p].call.age < Timeout =>
                            ~Holds(p, device.id)
<1>1. IInv /\ [Next]_vars => [Kept]_vars
  <2> SUFFICES ASSUME IInv, Next, device.id # 0, device'.idle = Lease,
                      NEW p \in Phones, session[p].started = device.id,
                      session'[p].call.age < Timeout, Holds(p, device.id)
               PROVE  FALSE
    OBVIOUS
  <2> DEFINE s == session[p]
  <2>1. /\ device \in Devices /\ DeviceOK(device) /\ s \in Sessions /\ Fits(device, s)
        /\ session \in [Phones -> Sessions] /\ orphans \subseteq Requests
    BY DEF IInv, TypeOK
  <2>2. Tick
    <3>1. device.idle < Lease /\ device.idle \in Nat /\ Lease # 0
      BY <2>1, TimesAssumption DEF DeviceOK, Devices
    <3>2. ~Moves(device, device')
      BY <3>1 DEF Moves
    <3> QED BY <3>2, OnlyTimePasses
  <2>3. Runs(device, s) /\ Renewed(device, s)
    BY <2>1 DEF Holds, Runs, Fits
  <2>4. device'.idle = device.idle + 1
    BY <2>1, <2>2 DEF Tick, Devices
  <2>5. s.timer # 0 /\ (Queued(s) => Waiting(s)) /\ s.timer \in {None} \cup 0..Interval
    BY <2>1, <2>2 DEF Tick, Sessions
  <2>6. CASE Waiting(s)
    <3>1. Renewing(device, s.call) /\ s.call.age \in Nat
      BY <2>1, <2>3, <2>6, CallKinds DEF Renewed
    <3>2. session'[p].call.age = s.call.age + 1
      <4>1. session'[p].call = [s.call EXCEPT !.age = s.call.age + 1]
        BY <2>1, <2>2, <2>6 DEF Tick, Sessions
      <4> QED BY <2>1, <2>6, <4>1, CallKinds DEF Calls
    <3>3. device.idle <= OneCall + Interval + s.call.age
      BY <2>1, <3>1, TimesAssumption DEF Renewing, OneCall, Devices
    <3> QED BY <2>1, <2>4, <3>1, <3>2, <3>3, TimesAssumption DEF OneCall, Devices
  <2>7. CASE ~Waiting(s)
    <3>1. device.idle + s.timer <= OneCall + Interval /\ s.timer \in 1..Interval
      BY <2>3, <2>5, <2>7 DEF Renewed, Queued
    <3> QED BY <2>1, <2>4, <3>1, TimesAssumption DEF OneCall, Devices
  <2> QED BY <2>6, <2>7
<1> QED BY <1>1, InvHolds, PTL DEF Spec, LeaseIsKept

=============================================================================
