------------------------ MODULE FirmwareUpdateProofs ------------------------
(* For any number of people, any length of image and any number of faults: what  *)
(* the tool reports accepted is its own image, and a machine has a whole image   *)
(* to run.                                                                       *)
(*                                                                               *)
(* The argument has two halves.  RunsAreSound follows a run through its requests:*)
(* after the proof it only ever speaks to the machine it has paired with, so     *)
(* that the one "ok" an upload gets is that of Finish, which has selected the    *)
(* image.  AlwaysConfirmed follows the slots: while the running image is not     *)
(* confirmed the other one is, and nothing is received that could erase it; so   *)
(* that wherever the power is cut, the bootloader has a confirmed image to fall  *)
(* back to, whatever it makes of the slot it is told to boot.                    *)
EXTENDS FirmwareUpdate, TLAPS

(* What holds of person t's run s when the images in done have been selected.    *)
Sound(t, s, done) ==
  /\ s.stage # "idle" => s.step \in {"start", "proof", "complete", "upload"}
  /\ s.stage = "connect" => s.sent = 0
  /\ s.stage = "write" => s.sent < Length(s.step)
  /\ Pinned(s.step) => s.peer = Machine
  /\ Pinned(s.step) /\ s.stage # "connect" => s.host = Machine
  /\ s.step = "upload" /\ s.answer = "ok" => <<t, s.run>> \in done
  /\ s.step = "accepted" => <<t, s.run>> \in done
RunsAreSound == \A t \in Tools : Sound(t, tool[t], committed)

(* An image the bootloader would run whatever happened before.                   *)
Confirmed(s) == slot[s] # Partial /\ mark[s] = "valid"
AlwaysConfirmed ==
  /\ phase = "boot" => \E s \in Slots : Confirmed(s)
  /\ phase # "boot" => slot[running] # Partial /\ mark[running] \in {"pending", "valid"}
  /\ phase # "boot" /\ mark[running] = "pending" => Confirmed(Other(running))
  /\ Serving => phase = "up" /\ mark[running] = "valid"
  /\ ~Serving => upload.got = 0

IInv == TypeOK /\ RunsAreSound /\ AlwaysConfirmed

(* An image is no marker.                                                        *)
LEMMA ImageIsWhole ==
  ASSUME NEW i \in Images
  PROVE  i # Partial /\ i # Nobody
  BY DEF Images, Partial, Nobody

LEMMA RunIsRun ==
  ASSUME NEW n \in Nat
  PROVE  /\ Run(n) \in Runs /\ Run(n).run = n /\ Run(n).stage = "idle" /\ Run(n).step = "code"
         /\ Run(n).answer = "none" /\ Run(n).codes = 0
  <1>1. 0 \in 0..Chunks
    BY SizesAssumption
  <1>2. QED
    BY <1>1 DEF Run, Runs

LEMMA NoUploadIsUpload ==
  NoUpload \in [active : BOOLEAN, by : Images \cup {Nobody}, got : 0..Chunks]
  <1>1. 0 \in 0..Chunks
    BY SizesAssumption
  <1>2. QED
    BY <1>1 DEF NoUpload

LEMMA InitInv == Init => IInv
  <1> SUFFICES ASSUME Init PROVE IInv
    OBVIOUS
  <1> DEFINE r == [Run(0) EXCEPT !.step = "failed"]
  <1>1. r \in Runs /\ r.stage = "idle" /\ r.step = "failed"
    BY RunIsRun DEF Runs, Ended
  <1>2. tool \in [Tools -> Runs]
    BY <1>1 DEF Init
  <1>3. TypeOK
    <2>1. left \in [Bounds -> Nat]
      BY SizesAssumption DEF Init
    <2>2. slot \in [Slots -> Images \cup {Factory, Partial}]
      BY DEF Init
    <2>3. QED
      BY <1>2, <2>1, <2>2, NoUploadIsUpload DEF Init, TypeOK, Slots
  <1>4. RunsAreSound
    BY <1>1 DEF Init, RunsAreSound, Sound, Pinned
  <1>5. AlwaysConfirmed
    BY DEF Init, AlwaysConfirmed, Slots, Factory, Partial, Serving, NoUpload
  <1>6. QED
    BY <1>3, <1>4, <1>5 DEF IInv

-----------------------------------------------------------------------------
(* A sound run put in the place of one keeps the runs sound.                     *)
LEMMA PutKeeps ==
  ASSUME IInv, NEW t \in Tools, NEW s \in Runs, Sound(t, s, committed), Put(t, s), UNCHANGED committed
  PROVE  tool' \in [Tools -> Runs] /\ RunsAreSound'
  <1>1. tool' \in [Tools -> Runs]
    BY DEF IInv, TypeOK, Put
  <1>2. \A u \in Tools : Sound(u, tool[u], committed) /\ tool'[u] = (IF u = t THEN s ELSE tool[u])
    BY DEF IInv, TypeOK, Put, RunsAreSound
  <1>3. \A u \in Tools : Sound(u, tool'[u], committed')
    BY <1>2 DEF Sound
  <1>4. QED
    BY <1>1, <1>3 DEF RunsAreSound

(* The runs that end, and the requests that begin.                               *)
LEMMA EndsIsSound ==
  ASSUME NEW t \in Tools, NEW s \in Runs, NEW step \in {"code"} \cup Ended,
         step = "accepted" => <<t, s.run>> \in committed
  PROVE  Ends(s, step) \in Runs /\ Sound(t, Ends(s, step), committed)
  <1> DEFINE q == Run(s.run)
             r == Ends(s, step)
  <1>1. s.run \in Nat /\ s.codes \in Nat
    BY DEF Runs
  <1>2. q \in Runs /\ q.stage = "idle" /\ q.run = s.run
    BY <1>1, RunIsRun
  <1>3. r = [q EXCEPT !.step = step, !.codes = IF step = "code" THEN s.codes ELSE 0]
    BY DEF Ends
  <1>4. r \in Runs /\ r.stage = "idle" /\ r.step = step /\ r.run = s.run
    <2>1. (IF step = "code" THEN s.codes ELSE 0) \in Nat
      BY <1>1
    <2>2. QED
      BY <1>2, <1>3, <2>1 DEF Runs, Ended
  <1>5. Sound(t, r, committed)
    BY <1>4 DEF Sound, Pinned, Ended
  <1>6. QED
    BY <1>4, <1>5

LEMMA RequestIsSound ==
  ASSUME NEW t \in Tools, NEW s \in Runs, NEW step \in {"start", "proof", "complete", "upload"},
         Pinned(step) => s.peer = Machine
  PROVE  /\ Request(s, step) \in Runs /\ Sound(t, Request(s, step), committed)
         /\ Request(s, step).step = step
  <1> DEFINE r == Request(s, step)
  <1>1. 0 \in 0..Chunks
    BY SizesAssumption
  <1>2. r \in Runs
    BY <1>1 DEF Request, Runs
  <1>3. r.step = step /\ r.stage = "connect" /\ r.sent = 0 /\ r.answer = "none" /\ r.peer = s.peer
    BY DEF Request, Runs
  <1>4. Sound(t, r, committed)
    BY <1>3 DEF Sound
  <1>5. QED
    BY <1>2, <1>3, <1>4

LEMMA LengthBounds == ASSUME NEW step PROVE Length(step) \in 1..Chunks
  BY SizesAssumption DEF Length

LEMMA WorksKeeps ==
  ASSUME IInv, NEW t \in Tools, Works(t)
  PROVE  tool' \in [Tools -> Runs] /\ RunsAreSound'
  <1> DEFINE s == tool[t]
  <1>1. s \in Runs /\ Sound(t, s, committed) /\ UNCHANGED committed
    BY DEF IInv, TypeOK, RunsAreSound, Works, slots
  <1>2. SUFFICES \E r \in Runs : Sound(t, r, committed) /\ Put(t, r)
    BY <1>1, PutKeeps
  <1>3. CASE Connect(t)
    <2>1. PICK host \in {Machine, Stranger} :
            Put(t, IF Pinned(s.step) /\ host # s.peer THEN Ends(s, "failed")
                   ELSE [s EXCEPT !.stage = "write", !.host = host])
      BY <1>3 DEF Connect
    <2>2. CASE Pinned(s.step) /\ host # s.peer
      BY <1>1, <2>1, <2>2, EndsIsSound DEF Ended
    <2>3. CASE ~(Pinned(s.step) /\ host # s.peer)
      <3>1. [s EXCEPT !.stage = "write", !.host = host] \in Runs
        BY <1>1 DEF Runs
      <3>2. Sound(t, [s EXCEPT !.stage = "write", !.host = host], committed)
        BY <1>1, <1>3, <2>3, LengthBounds DEF Runs, Sound, Connect, Pinned, Length
      <3>3. QED
        BY <2>1, <2>3, <3>1, <3>2
    <2>4. QED
      BY <2>2, <2>3
  <1>4. CASE ConnectFails(t)
    <2>1. CASE s.tries < Connections
      <3>1. [s EXCEPT !.tries = @ + 1] \in Runs /\ Sound(t, [s EXCEPT !.tries = @ + 1], committed)
        BY <1>1 DEF Runs, Sound
      <3>2. QED
        BY <1>4, <2>1, <3>1 DEF ConnectFails
    <2>2. CASE ~(s.tries < Connections)
      BY <1>1, <1>4, <2>2, EndsIsSound DEF Ended, ConnectFails
    <2>3. QED
      BY <2>1, <2>2
  <1>5. CASE Write(t)
    <2> DEFINE r == [s EXCEPT !.sent = @ + 1,
                              !.stage = IF s.sent + 1 = Length(s.step) THEN "read" ELSE @]
    <2>1. s.sent \in 0..Chunks /\ s.sent < Length(s.step) /\ Length(s.step) \in 1..Chunks
      BY <1>1, <1>5, LengthBounds DEF Write, Sound, Runs
    <2>2. s.sent + 1 \in 0..Chunks
      BY <2>1, SizesAssumption
    <2>3. r \in Runs
      BY <1>1, <2>2 DEF Runs
    <2>4. Sound(t, r, committed)
      <3>1. /\ r.step = s.step /\ r.peer = s.peer /\ r.host = s.host /\ r.answer = s.answer
            /\ r.run = s.run /\ r.sent = s.sent + 1
            /\ r.stage = IF s.sent + 1 = Length(s.step) THEN "read" ELSE "write"
        BY <1>1, <1>5 DEF Runs, Write
      <3>2. r.stage = "write" => r.sent < Length(r.step)
        BY <2>1, <3>1, SizesAssumption
      <3>3. QED
        BY <1>1, <1>5, <3>1, <3>2 DEF Sound, Write
    <2>5. QED
      BY <1>5, <2>3, <2>4 DEF Write
  <1>6. CASE WriteFails(t) \/ ReadFails(t)
    BY <1>1, <1>6, EndsIsSound DEF Ended, WriteFails, ReadFails
  <1>7. CASE Read(t)
    <2>1. CASE s.answer = "ok"
      <3>1. Put(t, Understood(s)) /\ s.stage = "read"
        BY <1>7, <2>1 DEF Read
      <3>2. CASE s.step = "start"
        <4>1. Understood(s) = [Request(s, "proof") EXCEPT !.peer = s.host]
          BY <3>2 DEF Understood
        <4>2. Understood(s) \in Runs /\ Sound(t, Understood(s), committed)
          <5> DEFINE q == Request(s, "proof")
                     r == [q EXCEPT !.peer = s.host]
          <5>1. q \in Runs /\ Sound(t, q, committed) /\ q.step = "proof"
            BY <1>1, RequestIsSound DEF Pinned
          <5>2. /\ r \in Runs /\ r.step = q.step /\ r.stage = q.stage /\ r.sent = q.sent
                /\ r.answer = q.answer
            BY <1>1, <5>1 DEF Runs
          <5>3. Sound(t, r, committed)
            BY <5>1, <5>2 DEF Sound, Pinned
          <5>4. QED
            BY <4>1, <5>2, <5>3
        <4>3. QED
          BY <3>1, <4>2
      <3>3. CASE s.step = "proof"
        <4>1. Understood(s) = IF Proved(s) THEN Request(s, "complete") ELSE Ends(s, "failed")
          BY <3>3 DEF Understood
        <4>2. Proved(s) => s.peer = Machine
          BY DEF Proved
        <4>3. QED
          BY <1>1, <3>1, <4>1, <4>2, EndsIsSound, RequestIsSound DEF Ended
      <3>4. CASE s.step = "complete"
        <4>1. Understood(s) = Request(s, "upload") /\ s.peer = Machine
          BY <1>1, <3>4 DEF Understood, Sound, Pinned
        <4>2. QED
          BY <1>1, <3>1, <4>1, RequestIsSound
      <3>5. CASE s.step = "upload"
        <4>1. Understood(s) = Ends(s, "accepted") /\ <<t, s.run>> \in committed
          BY <1>1, <2>1, <3>5 DEF Understood, Sound
        <4>2. Ends(s, "accepted") \in Runs /\ Sound(t, Ends(s, "accepted"), committed)
          BY <1>1, <4>1, EndsIsSound DEF Ended
        <4>3. QED
          BY <3>1, <4>1, <4>2
      <3>6. QED
        BY <1>1, <3>1, <3>2, <3>3, <3>4, <3>5 DEF Sound
    <2>2. CASE s.answer # "ok"
      <3>1. Put(t, Ends(s, "code")) \/ Put(t, Ends(s, "failed"))
        BY <1>7, <2>2 DEF Read
      <3>2. QED
        BY <1>1, <3>1, EndsIsSound DEF Ended
    <2>3. QED
      BY <2>1, <2>2
  <1>8. QED
    BY <1>3, <1>4, <1>5, <1>6, <1>7 DEF Works

LEMMA TypesKeeps ==
  ASSUME IInv, NEW t \in Tools, Types(t)
  PROVE  tool' \in [Tools -> Runs] /\ RunsAreSound' /\ left' \in [Bounds -> Nat]
  <1> DEFINE s == tool[t]
  <1>1. s \in Runs /\ left \in [Bounds -> Nat] /\ UNCHANGED committed
    BY DEF IInv, TypeOK, Types, slots
  <1>2. CASE EnterCode(t) /\ UNCHANGED left
    <2>1. PICK right \in BOOLEAN :
            Put(t, [Request(s, "start") EXCEPT !.codes = @ + 1, !.right = right])
      BY <1>2 DEF EnterCode
    <2> DEFINE r == [Request(s, "start") EXCEPT !.codes = @ + 1, !.right = right]
    <2>2. r \in Runs /\ Sound(t, r, committed)
      <3> DEFINE q == Request(s, "start")
      <3>1. q \in Runs /\ Sound(t, q, committed) /\ q.step = "start"
        BY <1>1, RequestIsSound DEF Pinned
      <3>2. /\ r \in Runs /\ r.step = q.step /\ r.stage = q.stage /\ r.sent = q.sent
            /\ r.answer = q.answer
        <4>1. q.codes + 1 \in Nat
          BY <3>1 DEF Runs
        <4>2. QED
          BY <3>1, <4>1 DEF Runs
      <3>3. Sound(t, r, committed)
        BY <3>1, <3>2 DEF Sound, Pinned
      <3>4. QED
        BY <3>2, <3>3
    <2>3. QED
      BY <1>1, <1>2, <2>1, <2>2, PutKeeps
  <1>3. CASE Cancel(t) /\ UNCHANGED left
    BY <1>1, <1>3, EndsIsSound, PutKeeps DEF Ended, Cancel
  <1>4. CASE StartRun(t)
    <2>1. left' \in [Bounds -> Nat]
      BY <1>1, <1>4 DEF StartRun, Bounds
    <2>2. Run(s.run + 1) \in Runs /\ Sound(t, Run(s.run + 1), committed)
      BY <1>1, SizesAssumption DEF Run, Runs, Sound, Pinned, Ended
    <2>3. QED
      BY <1>1, <1>4, <2>1, <2>2, PutKeeps DEF StartRun
  <1>5. QED
    BY <1>2, <1>3, <1>4 DEF Types

(* An answer that is no "ok" to an upload leaves a run sound.                    *)
LEMMA AnswerIsSound ==
  ASSUME NEW t \in Tools, NEW s \in Runs, Sound(t, s, committed),
         NEW answer \in {"ok", "refused", "invalid_pairing_code", "closed"},
         answer = "ok" => s.step # "upload"
  PROVE  [s EXCEPT !.answer = answer] \in Runs /\ Sound(t, [s EXCEPT !.answer = answer], committed)
  BY DEF Runs, Sound

LEMMA AnswersKeeps ==
  ASSUME IInv, NEW t \in Tools, Answers(t)
  PROVE  tool' \in [Tools -> Runs] /\ RunsAreSound'
  <1> DEFINE s == tool[t]
  <1>1. s \in Runs /\ Sound(t, s, committed) /\ UNCHANGED committed
    BY DEF IInv, TypeOK, RunsAreSound, Answers, slots
  <1>2. CASE s.host = Stranger /\ Put(t, [s EXCEPT !.answer = "ok"])
    <2>1. s.step # "upload"
      BY <1>1, <1>2 DEF Answers, Sound, Pinned, Machine, Stranger
    <2>2. QED
      BY <1>1, <1>2, <2>1, AnswerIsSound, PutKeeps
  <1>3. CASE /\ s.step # "upload"
             /\ \E answer \in {"refused", IF s.step = "proof" /\ ~s.right
                                          THEN "invalid_pairing_code" ELSE "ok"} :
                  Put(t, [s EXCEPT !.answer = answer])
    BY <1>1, <1>3, AnswerIsSound, PutKeeps
  <1>4. QED
    BY <1>2, <1>3 DEF Answers

-----------------------------------------------------------------------------
(* What every answer that is no acceptance does to the runs.                     *)
LEMMA ReplyKeeps ==
  ASSUME IInv, NEW t \in Tools, NEW answer \in {"refused", "closed"}, Reply(t, answer),
         UNCHANGED committed
  PROVE  tool' \in [Tools -> Runs] /\ RunsAreSound'
  <1>1. tool[t] \in Runs /\ Sound(t, tool[t], committed)
    BY DEF IInv, TypeOK, RunsAreSound
  <1>2. CASE tool' = tool
    BY <1>2 DEF IInv, TypeOK, RunsAreSound, Sound
  <1>3. CASE tool' = [tool EXCEPT ![t].answer = answer]
    BY <1>1, <1>3, AnswerIsSound, PutKeeps DEF Put
  <1>4. QED
    BY <1>2, <1>3 DEF Reply

(* Nothing is erased while the fall-back is needed.                              *)
LEMMA BeginKeeps ==
  ASSUME IInv, NEW t \in Tools, Begin(t)
  PROVE  IInv'
  <1> DEFINE erased == [slot EXCEPT ![Target] = Partial]
  <1>1. UNCHANGED <<mark, boot, running, committed, phase, leaving, workflow, left>>
    BY DEF Begin, BeginIf
  <1>2. tool' \in [Tools -> Runs] /\ RunsAreSound'
    <2>1. tool[t] \in Runs /\ Sound(t, tool[t], committed)
      BY DEF IInv, TypeOK, RunsAreSound
    <2>2. CASE tool' = tool
      BY <1>1, <2>2 DEF IInv, TypeOK, RunsAreSound, Sound
    <2>3. CASE tool' = [tool EXCEPT ![t].answer = "refused"]
      BY <1>1, <2>1, <2>3, AnswerIsSound, PutKeeps DEF Put
    <2>4. QED
      BY <2>2, <2>3 DEF Begin, BeginIf
  <1>3. phase = "up" /\ ~Serving /\ Target \in Slots /\ Target # running
    BY DEF Begin, BeginIf, IInv, TypeOK, Target, Other, Slots
  <1>4. \/ slot' = slot
        \/ slot' = erased /\ mark[running] # "pending"
    BY DEF Begin, BeginIf
  <1>5. \/ upload' = upload
        \/ upload' = [active |-> TRUE, by |-> Image(t), got |-> 0] /\ mark[running] # "pending"
    BY DEF Begin, BeginIf
  <1>6. slot' \in [Slots -> Images \cup {Factory, Partial}] /\ slot'[running] = slot[running]
    BY <1>3, <1>4 DEF IInv, TypeOK
  <1>7. /\ upload' \in [active : BOOLEAN, by : Images \cup {Nobody}, got : 0..Chunks]
        /\ ~Serving' => upload'.got = 0
    <2>1. CASE upload' = upload
      BY <2>1 DEF IInv, TypeOK, AlwaysConfirmed, Serving
    <2>2. CASE upload' = [active |-> TRUE, by |-> Image(t), got |-> 0]
      <3>1. Image(t) \in Images /\ 0 \in 0..Chunks
        BY SizesAssumption DEF IInv, TypeOK, Runs, Image, Images
      <3>2. QED
        BY <2>2, <3>1
    <2>3. QED
      BY <1>5, <2>1, <2>2
  <1>8. permit' \in BOOLEAN
    BY DEF Begin, BeginIf, IInv, TypeOK
  <1>9. TypeOK'
    BY <1>1, <1>2, <1>6, <1>7, <1>8 DEF IInv, TypeOK
  <1>10. AlwaysConfirmed'
    <2>1. mark[running] = "pending" => slot' = slot
      BY <1>4
    <2>2. Serving' => mark[running] = "valid"
      BY <1>3, <1>5 DEF IInv, AlwaysConfirmed, Serving
    <2>3. QED
      BY <1>1, <1>3, <1>6, <1>7, <2>1, <2>2 DEF IInv, AlwaysConfirmed, Confirmed, Other
  <1>11. QED
    BY <1>2, <1>9, <1>10 DEF IInv

(* Receiving, and failing to.                                                    *)
LEMMA ReceivingKeeps ==
  ASSUME IInv, NEW t \in Tools, Receive(t) \/ WriteRefused(t) \/ Abandon(t)
  PROVE  IInv'
  <1>1. UNCHANGED <<slots, phase, leaving, control, left>>
    BY DEF Receive, WriteRefused, Abandon
  <1>2. tool' \in [Tools -> Runs] /\ RunsAreSound'
    <2>1. CASE tool' = tool
      BY <1>1, <2>1 DEF IInv, TypeOK, RunsAreSound, Sound, slots
    <2>2. CASE Reply(t, "refused") \/ Reply(t, "closed")
      BY <1>1, <2>2, ReplyKeeps DEF slots
    <2>3. QED
      BY <2>1, <2>2 DEF Receive, WriteRefused, Abandon
  <1>3. /\ upload' \in [active : BOOLEAN, by : Images \cup {Nobody}, got : 0..Chunks]
        /\ Serving' => Serving
        /\ ~Serving' => upload'.got = 0
    <2>1. CASE Receive(t)
      <3>1. Image(t) \in Images /\ tool[t].sent \in 0..Chunks
        BY DEF IInv, TypeOK, Runs, Image, Images
      <3>2. Serving
        BY <2>1, <3>1, ImageIsWhole DEF Receive, Arrives, Serving
      <3>3. upload.got \in 0..Chunks /\ upload.got < tool[t].sent
        BY <2>1 DEF Receive, Arrives, IInv, TypeOK
      <3>4. upload.got + 1 \in 0..Chunks
        BY <3>1, <3>3, SizesAssumption
      <3>5. upload' \in [active : BOOLEAN, by : Images \cup {Nobody}, got : 0..Chunks]
            /\ upload'.by = upload.by
        BY <2>1, <3>4 DEF Receive, IInv, TypeOK
      <3>6. QED
        BY <3>2, <3>5 DEF Serving
    <2>2. CASE WriteRefused(t) \/ Abandon(t)
      <3>1. upload' = NoUpload
        BY <2>2 DEF WriteRefused, Abandon
      <3>2. QED
        BY <3>1, NoUploadIsUpload DEF NoUpload, Serving
    <2>3. QED
      BY <2>1, <2>2
  <1>4. TypeOK'
    BY <1>1, <1>2, <1>3 DEF IInv, TypeOK, slots, control
  <1>5. AlwaysConfirmed'
    BY <1>1, <1>3 DEF IInv, AlwaysConfirmed, Confirmed, slots
  <1>6. QED
    BY <1>2, <1>4, <1>5 DEF IInv

(* What finish() answers "ok" to, it has selected.                               *)
LEMMA FinishKeeps ==
  ASSUME IInv, NEW t \in Tools, Finish(t)
  PROVE  IInv'
  <1>1. UNCHANGED <<running, phase, control, left>> /\ upload' = NoUpload
    BY DEF Finish
  <1>2. upload.by \in Images /\ Serving
    <2>1. upload.got # 0 /\ upload.by \in Images \cup {Nobody}
      BY SizesAssumption DEF Finish, IInv, TypeOK
    <2>2. QED
      BY <2>1 DEF IInv, AlwaysConfirmed, Serving
  <1>3. Target \in Slots /\ Target # running /\ running \in Slots /\ mark[running] = "valid"
    BY <1>2 DEF IInv, TypeOK, AlwaysConfirmed, Target, Other, Slots
  <1>4. CASE Select /\ Reply(t, "ok") /\ leaving' = TRUE
    <2>1. /\ slot' \in [Slots -> Images \cup {Factory, Partial}]
          /\ mark' \in [Slots -> {"new", "pending", "valid", "invalid"}]
          /\ boot' \in Slots /\ committed' \subseteq Images /\ committed \subseteq committed'
          /\ slot'[running] = slot[running] /\ mark'[running] = mark[running]
      BY <1>2, <1>3, <1>4 DEF Select, IInv, TypeOK
    <2>2. \A u \in Tools, r \in Runs : Sound(u, r, committed) => Sound(u, r, committed')
      BY <2>1 DEF Sound
    <2>3. tool' \in [Tools -> Runs] /\ RunsAreSound'
      <3>1. CASE tool' = tool
        BY <2>2, <3>1 DEF IInv, TypeOK, RunsAreSound
      <3>2. CASE tool' = [tool EXCEPT ![t].answer = "ok"] /\ Image(t) = upload.by
        <4> DEFINE r == [tool[t] EXCEPT !.answer = "ok"]
        <4>1. tool[t] \in Runs /\ Sound(t, tool[t], committed)
          BY DEF IInv, TypeOK, RunsAreSound
        <4>2. <<t, tool[t].run>> \in committed'
          BY <1>4, <3>2 DEF Select, Image
        <4>3. r \in Runs /\ Sound(t, r, committed')
          BY <2>1, <4>1, <4>2 DEF Sound, Runs
        <4>4. \A u \in Tools : tool'[u] \in Runs /\ Sound(u, tool'[u], committed')
          BY <2>2, <3>2, <4>3 DEF IInv, TypeOK, RunsAreSound
        <4>5. QED
          BY <3>2, <4>3, <4>4 DEF IInv, TypeOK, RunsAreSound
      <3>3. QED
        BY <1>4, <3>1, <3>2 DEF Reply
    <2>4. TypeOK'
      BY <1>1, <1>4, <2>1, <2>3, NoUploadIsUpload DEF IInv, TypeOK, control
    <2>5. AlwaysConfirmed'
      BY <1>1, <1>2, <1>3, <2>1 DEF IInv, AlwaysConfirmed, Serving, NoUpload
    <2>6. QED
      BY <2>3, <2>4, <2>5 DEF IInv
  <1>5. CASE Reply(t, "refused") /\ UNCHANGED <<slot, mark, boot, committed, leaving>>
    <2>1. tool' \in [Tools -> Runs] /\ RunsAreSound'
      BY <1>5, ReplyKeeps
    <2>2. TypeOK'
      BY <1>1, <1>5, <2>1, NoUploadIsUpload DEF IInv, TypeOK, control
    <2>3. AlwaysConfirmed'
      BY <1>1, <1>5 DEF IInv, AlwaysConfirmed, Confirmed, Serving, NoUpload
    <2>4. QED
      BY <2>1, <2>2, <2>3 DEF IInv
  <1>6. QED
    BY <1>4, <1>5 DEF Finish

-----------------------------------------------------------------------------
(* Going down answers nothing with "ok".                                         *)
LEMMA GoDownKeeps ==
  ASSUME IInv, GoDown, UNCHANGED committed
  PROVE  tool' \in [Tools -> Runs] /\ RunsAreSound' /\ ~Serving' /\ upload'.got = 0
  <1>1. \A t \in Tools : tool[t] \in Runs /\ Sound(t, tool[t], committed)
    BY DEF IInv, TypeOK, RunsAreSound
  <1>2. \A t \in Tools : \/ tool'[t] = tool[t]
                         \/ tool'[t] = [tool[t] EXCEPT !.answer = "closed"]
    BY DEF GoDown
  <1>3. \A t \in Tools : [tool[t] EXCEPT !.answer = "closed"] \in Runs
                           /\ Sound(t, [tool[t] EXCEPT !.answer = "closed"], committed)
    BY <1>1, AnswerIsSound
  <1>4. \A t \in Tools : tool'[t] \in Runs /\ Sound(t, tool'[t], committed')
    BY <1>1, <1>2, <1>3
  <1>5. tool' \in [Tools -> Runs]
    BY <1>4 DEF GoDown
  <1>6. QED
    BY <1>4, <1>5 DEF RunsAreSound, GoDown, NoUpload, Serving

(* The machine's other steps.                                                    *)
LEMMA MachineKeeps ==
  ASSUME IInv, Order \/ WorkflowEnds \/ Reboot \/ Cut \/ Boots \/ Stops
  PROVE  IInv'
  <1>1. CASE Order \/ WorkflowEnds \/ Stops \/ Start
    <2>1. UNCHANGED <<tool, slots, upload>>
      BY <1>1 DEF Order, WorkflowEnds, Stops, Start
    <2>2. left' \in [Bounds -> Nat]
      BY <1>1 DEF Order, WorkflowEnds, Stops, Start, IInv, TypeOK, Bounds
    <2>3. phase' \in {"init", "up", "dead"} /\ leaving' \in BOOLEAN /\ workflow' \in BOOLEAN
          /\ permit' \in BOOLEAN /\ phase # "boot"
      BY <1>1 DEF Order, WorkflowEnds, Stops, Start, IInv, TypeOK, control
    <2>4. Serving => phase' = phase
      BY <1>1 DEF Order, WorkflowEnds, Stops, Start, IInv, AlwaysConfirmed
    <2>5. TypeOK'
      BY <2>1, <2>2, <2>3 DEF IInv, TypeOK, slots
    <2>6. RunsAreSound'
      BY <2>1 DEF IInv, RunsAreSound, Sound, slots
    <2>7. AlwaysConfirmed'
      BY <2>1, <2>3, <2>4 DEF IInv, AlwaysConfirmed, Confirmed, Serving, slots
    <2>8. QED
      BY <2>5, <2>6, <2>7 DEF IInv
  <1>2. CASE Reboot \/ Cut
    <2>1. GoDown /\ UNCHANGED slots /\ left' \in [Bounds -> Nat]
      BY <1>2 DEF Reboot, Cut, IInv, TypeOK, Bounds
    <2>2. tool' \in [Tools -> Runs] /\ RunsAreSound' /\ ~Serving' /\ upload'.got = 0
      BY <2>1, GoDownKeeps DEF slots
    <2>3. TypeOK'
      BY <2>1, <2>2, NoUploadIsUpload DEF GoDown, IInv, TypeOK, slots
    <2>4. \E s \in Slots : Confirmed(s)
      BY DEF IInv, TypeOK, AlwaysConfirmed, Confirmed, Other, Slots
    <2>5. AlwaysConfirmed'
      BY <2>1, <2>2, <2>4 DEF AlwaysConfirmed, Confirmed, GoDown, slots
    <2>6. QED
      BY <2>2, <2>3, <2>5 DEF IInv
  <1>3. CASE Load
    <2> DEFINE next == IF Bootable(boot) THEN boot ELSE Other(boot)
    <2>1. /\ phase = "boot" /\ phase' = "init" /\ running' = next /\ boot' = next
          /\ mark' = [s \in Slots |-> CASE mark[s] = "pending" -> "invalid"
                                        [] s = next /\ mark[s] = "new" -> "pending"
                                        [] OTHER -> mark[s]]
          /\ UNCHANGED <<tool, slot, committed, upload, leaving, control, left>>
      BY <1>3 DEF Load
    <2>2. PICK c \in Slots : Confirmed(c)
      BY <2>1 DEF IInv, AlwaysConfirmed
    <2>3. next \in Slots /\ (~Bootable(boot) => next = c)
      BY <2>2 DEF IInv, TypeOK, Bootable, Confirmed, Other, Slots
    <2>4. slot[next] # Partial /\ mark[next] \in {"new", "valid"}
      BY <2>2, <2>3 DEF Bootable, Confirmed
    <2>5. mark'[next] \in {"pending", "valid"} /\ mark'[c] \in {"pending", "valid"}
          /\ (mark'[next] = "pending" => mark[next] = "new") /\ (c # next => mark'[c] = "valid")
      BY <2>1, <2>2, <2>3, <2>4 DEF Confirmed
    <2>6. mark'[next] = "pending" => c = Other(next)
      BY <2>2, <2>3, <2>5 DEF Confirmed, Other, Slots
    <2>7. TypeOK'
      BY <2>1, <2>3 DEF IInv, TypeOK, control
    <2>8. RunsAreSound'
      BY <2>1 DEF IInv, RunsAreSound, Sound
    <2>9. AlwaysConfirmed'
      <3>1. slot'[running'] # Partial /\ mark'[running'] \in {"pending", "valid"}
        BY <2>1, <2>4, <2>5
      <3>2. mark'[running'] = "pending" => slot'[Other(running')] # Partial
                                           /\ mark'[Other(running')] = "valid"
        BY <2>1, <2>2, <2>3, <2>5, <2>6 DEF Confirmed, Other, Slots
      <3>3. ~Serving' /\ upload'.got = 0
        BY <2>1 DEF IInv, AlwaysConfirmed, Serving
      <3>4. QED
        BY <2>1, <3>1, <3>2, <3>3 DEF AlwaysConfirmed, Confirmed, Other
    <2>10. QED
      BY <2>7, <2>8, <2>9 DEF IInv
  <1>4. CASE Confirm
    <2>1. /\ phase = "up" /\ mark' = [mark EXCEPT ![running] = "valid"]
          /\ UNCHANGED <<tool, slot, boot, running, committed, phase, upload, leaving, control, left>>
      BY <1>4 DEF Confirm
    <2>2. TypeOK' /\ mark'[running] = "valid"
      BY <2>1 DEF IInv, TypeOK, control
    <2>3. RunsAreSound'
      BY <2>1 DEF IInv, RunsAreSound, Sound
    <2>4. AlwaysConfirmed'
      BY <2>1, <2>2 DEF IInv, AlwaysConfirmed, Serving
    <2>5. QED
      BY <2>2, <2>3, <2>4 DEF IInv
  <1>5. CASE StartFails
    <2>1. /\ phase # "boot" /\ mark[running] = "pending" /\ GoDown /\ boot' = Other(running)
          /\ mark' = [mark EXCEPT ![running] = "invalid"]
          /\ UNCHANGED <<slot, running, committed, left>>
      BY <1>5 DEF StartFails, RollBack
    <2>2. tool' \in [Tools -> Runs] /\ RunsAreSound' /\ ~Serving' /\ upload'.got = 0
      BY <2>1, GoDownKeeps
    <2>3. Other(running) \in Slots /\ Other(running) # running /\ Confirmed(Other(running))
      BY <2>1 DEF IInv, TypeOK, AlwaysConfirmed, Other, Slots
    <2>4. TypeOK'
      BY <2>1, <2>2, <2>3, NoUploadIsUpload DEF GoDown, IInv, TypeOK
    <2>5. slot'[Other(running)] # Partial /\ mark'[Other(running)] = "valid"
      BY <2>1, <2>3 DEF Confirmed, IInv, TypeOK
    <2>6. AlwaysConfirmed'
      BY <2>1, <2>2, <2>3, <2>5 DEF AlwaysConfirmed, Confirmed, GoDown
    <2>7. QED
      BY <2>2, <2>4, <2>6 DEF IInv
  <1>6. QED
    BY <1>1, <1>2, <1>3, <1>4, <1>5 DEF Boots

(* A step of the tool or of the pairing routes leaves the machine alone.         *)
LEMMA ToolKeeps ==
  ASSUME IInv, NEW t \in Tools, Works(t) \/ Types(t) \/ Answers(t)
  PROVE  IInv'
  <1>1. UNCHANGED <<slots, phase, upload, leaving, control>>
    BY DEF Works, Types, Answers
  <1>2. tool' \in [Tools -> Runs] /\ RunsAreSound'
    BY WorksKeeps, TypesKeeps, AnswersKeeps
  <1>3. left' \in [Bounds -> Nat]
    BY TypesKeeps DEF Works, Answers, IInv, TypeOK
  <1>4. TypeOK'
    BY <1>1, <1>2, <1>3 DEF IInv, TypeOK, slots, control
  <1>5. AlwaysConfirmed'
    BY <1>1 DEF IInv, AlwaysConfirmed, Confirmed, Serving, slots
  <1>6. QED
    BY <1>2, <1>4, <1>5 DEF IInv

LEMMA NextInv == IInv /\ [Next]_vars => IInv'
  <1> SUFFICES ASSUME IInv, [Next]_vars PROVE IInv'
    OBVIOUS
  <1>1. CASE \E t \in Tools : Works(t) \/ Types(t) \/ Answers(t)
    BY <1>1, ToolKeeps
  <1>2. CASE \E t \in Tools : Handles(t)
    BY <1>2, BeginKeeps, ReceivingKeeps, FinishKeeps DEF Handles
  <1>3. CASE Order \/ WorkflowEnds \/ Reboot \/ Cut \/ Boots \/ Stops
    BY <1>3, MachineKeeps
  <1>4. CASE UNCHANGED vars
    <2>1. UNCHANGED <<tool, slot, mark, boot, running, committed, phase, upload, leaving,
                      workflow, permit, left>>
      BY <1>4 DEF vars, slots, control
    <2>2. TypeOK' /\ RunsAreSound'
      BY <2>1 DEF IInv, TypeOK, RunsAreSound, Sound
    <2>3. AlwaysConfirmed'
      BY <2>1 DEF IInv, AlwaysConfirmed, Confirmed, Serving
    <2>4. QED
      BY <2>2, <2>3 DEF IInv
  <1>5. QED
    BY <1>1, <1>2, <1>3, <1>4 DEF Next

LEMMA SpecInv == Spec => []IInv
  BY InitInv, NextInv, PTL DEF Spec

-----------------------------------------------------------------------------
(* Every variable holds what it should.                                          *)
THEOREM TypeCorrect == Spec => []TypeOK
  <1>1. IInv => TypeOK
    BY DEF IInv
  <1>2. QED
    BY <1>1, SpecInv, PTL

(* What the tool reports accepted is its own image, selected by the machine it   *)
(* has paired with.                                                              *)
THEOREM AcceptedUpdateIsCommitted == Spec => []AcceptedIsCommitted
  <1>1. IInv => AcceptedIsCommitted
    BY DEF IInv, RunsAreSound, Sound, AcceptedIsCommitted, Image
  <1>2. QED
    BY <1>1, SpecInv, PTL

(* Wherever the power is cut, a whole image runs, and one that is not confirmed  *)
(* has a whole confirmed one to go back to.                                      *)
THEOREM ThereIsAFallback == Spec => []FallbackIsWhole
  <1>1. IInv => FallbackIsWhole
    BY DEF IInv, AlwaysConfirmed, Confirmed, FallbackIsWhole
  <1>2. QED
    BY <1>1, SpecInv, PTL
=============================================================================
