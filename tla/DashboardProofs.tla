--------------------------- MODULE DashboardProofs ---------------------------
(* For any number of presses, losses, restarts and interruptions, and whatever   *)
(* the machine serves late: a start that is pressed again begins no second shot. *)
(*                                                                               *)
(* The argument joins the phone and the machine.  On the phone, the keys an      *)
(* unanswered start was asked with are one key, the one that is kept (OneKey):   *)
(* a kept key is dropped only together with its press, when that is answered,    *)
(* when another boot is seen, or when the screen is left.  On the wire, a key    *)
(* has one meaning: no start in flight has the key that is kept and asks for     *)
(* something else (OneMeaning), which needs that new keys are new.  And the      *)
(* machine, once the press has begun an activity, remembers its start: it runs   *)
(* it, or ran it last in its slot and runs nothing else of that slot now         *)
(* (Remembers), so that serving it again begins nothing.                         *)
EXTENDS Dashboard, TLAPS

PhoneFields == {"app", "freshness", "shown", "boot", "polling", "timer", "retried", "paused",
                "pending", "kept"}
PressFields == {"selection", "asked", "poured"}
Shapes ==
  /\ DOMAIN p = PhoneFields /\ DOMAIN p.kept = Slots /\ DOMAIN press = Slots
  /\ \A s \in Slots : DOMAIN press[s] = PressFields /\ press[s].poured \in {0, 1}
  /\ DOMAIN machine = {"boot", "set", "run", "last"} /\ DOMAIN machine.last = Slots
  /\ keys \in Nat

OneKey(s) ==
  /\ press[s].asked = {} => press[s].poured = 0
  /\ press[s].asked # {} =>
       /\ p.kept[s] # None
       /\ press[s].asked = {p.kept[s].key} /\ p.kept[s].selection = press[s].selection
KeptStart(s) ==
  p.kept[s] # None =>
    /\ p.kept[s].kind = "start" /\ Slot(p.kept[s].selection) = s
    /\ p.kept[s].key \in Nat /\ p.kept[s].key <= keys
Remembers(s) ==
  press[s].poured = 1 =>
    \/ machine.run = p.kept[s]
    \/ /\ machine.last[s] = p.kept[s]
       /\ machine.run = None \/ Slot(machine.run.selection) # s
EachSlot == \A s \in Slots : OneKey(s) /\ KeptStart(s) /\ Remembers(s)

Plain(command) == command.kind \in {"poll", "set", "stop"}
OneMeaning(command) ==
  /\ command.kind = "start" /\ command.key \in Nat /\ command.key <= keys
  /\ LET kept == p.kept[Slot(command.selection)]
     IN kept # None /\ kept.key = command.key => kept = command
IsRequest(r) == DOMAIN r = {"to", "command"}
WireInv == \A r \in wire : IsRequest(r) /\ (Plain(r.command) \/ OneMeaning(r.command))

NothingKeptAway == p.app = "blurred" => \A s \in Slots : p.kept[s] = None

IInv == Shapes /\ EachSlot /\ WireInv /\ NothingKeptAway

LEMMA NewSessionsShape ==
  /\ DOMAIN NewSessions = PhoneFields /\ NewSessions.kept = [s \in Slots |-> None]
  /\ NewSessions.app = "active"
  BY DEF NewSessions, PhoneFields

LEMMA SlotIsOne == \A selection : Slot(selection) \in Slots
  BY DEF Slot, Slots

LEMMA InitInv == Init => IInv
  <1> SUFFICES ASSUME Init PROVE IInv
    OBVIOUS
  <1>1. Shapes
    BY NewSessionsShape DEF Init, Shapes, Unasked, PressFields, Booted
  <1>2. EachSlot
    BY NewSessionsShape DEF Init, EachSlot, OneKey, KeptStart, Remembers, Unasked
  <1>3. WireInv
    BY DEF Init, WireInv, IsRequest, Plain, Polls, Request, Poll
  <1>4. NothingKeptAway
    BY NewSessionsShape DEF Init, NothingKeptAway
  <1>5. QED
    BY <1>1, <1>2, <1>3, <1>4 DEF IInv

-----------------------------------------------------------------------------
(* Requests are lost or aborted, and what is sent starts nothing.                *)
NothingStarted ==
  \A r \in wire' : IsRequest(r) /\ (Plain(r.command) \/ \E q \in wire : q.command = r.command)

LEMMA PollsStartNothing ==
  ASSUME IInv
  PROVE  \A r \in Polls(wire) :
           IsRequest(r) /\ (Plain(r.command) \/ \E q \in wire : q.command = r.command)
  BY DEF IInv, WireInv, IsRequest, Polls, Request, Poll, Plain

LEMMA OrphansStartNothing ==
  ASSUME IInv
  PROVE  \A gone : \A r \in Orphans(wire, gone) :
           IsRequest(r) /\ \E q \in wire : q.command = r.command
  BY DEF IInv, WireInv, IsRequest, Orphans, Request

LEMMA AbortStartsNothing ==
  ASSUME IInv, NEW gone, Abort(gone, {})
  PROVE  NothingStarted
  BY OrphansStartNothing DEF Abort, NothingStarted

LEMMA PerformSends ==
  ASSUME IInv, NEW command, NEW s, Perform(command, s)
  PROVE  \A r \in wire' :
           IsRequest(r) /\ (r.command = command \/ \E q \in wire : q.command = r.command)
  <1>1. wire' = {Stale(r) : r \in wire} \cup {Request("command", command)}
    BY DEF Perform
  <1>2. \A r \in wire : Stale(r) = r \/ Stale(r) = [r EXCEPT !.to = "stale"]
    BY DEF Stale
  <1>3. \A r \in wire : IsRequest(Stale(r)) /\ Stale(r).command = r.command
    BY <1>2 DEF IInv, WireInv, IsRequest
  <1>4. QED
    BY <1>1, <1>3 DEF Request, IsRequest

(* A step of the phone that presses nothing: each key stays with its press, or   *)
(* both are dropped.                                                             *)
LEMMA PhoneKeeps ==
  ASSUME IInv, NothingStarted, UNCHANGED <<machine, keys>>,
         DOMAIN p' = PhoneFields, DOMAIN p'.kept = Slots, DOMAIN press' = Slots,
         \A s \in Slots : \/ p'.kept[s] = p.kept[s] /\ press'[s] = press[s]
                          \/ p'.kept[s] = None /\ press'[s] = Unasked,
         p'.app = "blurred" => p.app = "blurred" \/ \A s \in Slots : p'.kept[s] = None
  PROVE  IInv'
  <1>1. Shapes'
    BY DEF IInv, Shapes, Unasked, PressFields
  <1>2. ASSUME NEW s \in Slots PROVE (OneKey(s) /\ KeptStart(s) /\ Remembers(s))'
    <2>1. CASE p'.kept[s] = p.kept[s] /\ press'[s] = press[s]
      BY <2>1 DEF IInv, EachSlot, OneKey, KeptStart, Remembers
    <2>2. CASE p'.kept[s] = None /\ press'[s] = Unasked
      BY <2>2 DEF OneKey, KeptStart, Remembers, Unasked
    <2>3. QED
      BY <2>1, <2>2
  <1>3. WireInv'
    <2> SUFFICES ASSUME NEW r \in wire', ~Plain(r.command) PROVE OneMeaning(r.command)'
      BY DEF NothingStarted, WireInv, IsRequest, Plain
    <2>1. OneMeaning(r.command)
      BY DEF NothingStarted, IInv, WireInv
    <2>2. Slot(r.command.selection) \in Slots
      BY SlotIsOne
    <2>3. QED
      BY <2>1, <2>2 DEF OneMeaning
  <1>4. NothingKeptAway'
    BY DEF IInv, NothingKeptAway
  <1>5. QED
    BY <1>1, <1>2, <1>3, <1>4 DEF IInv, EachSlot

(* One that drops nothing.                                                       *)
LEMMA KeepsKeys ==
  ASSUME IInv, NothingStarted, UNCHANGED <<machine, keys, press>>,
         DOMAIN p' = PhoneFields, p'.kept = p.kept, p'.app = "blurred" => p.app = "blurred"
  PROVE  IInv'
  BY PhoneKeeps DEF IInv, Shapes

-----------------------------------------------------------------------------
(* The machine ends its activity, or changes a setting.                          *)
LEMMA EndedKeeps ==
  ASSUME IInv, NEW s \in Slots
  PROVE  press[s].poured = 1 =>
           \/ Ended(machine).run = p.kept[s]
           \/ /\ Ended(machine).last[s] = p.kept[s]
              /\ Ended(machine).run = None \/ Slot(Ended(machine).run.selection) # s
  <1> SUFFICES ASSUME press[s].poured = 1, machine.run # None
               PROVE  Ended(machine).run = None /\ Ended(machine).last[s] = p.kept[s]
    BY DEF IInv, EachSlot, Remembers, Ended
  <1>1. p.kept[s] # None /\ Slot(p.kept[s].selection) = s
    BY DEF IInv, EachSlot, OneKey, KeptStart
  <1>2. /\ Ended(machine).run = None
        /\ Ended(machine).last = [machine.last EXCEPT ![Slot(machine.run.selection)] = machine.run]
    BY DEF Ended, IInv, Shapes
  <1>3. CASE machine.run = p.kept[s]
    BY <1>1, <1>2, <1>3 DEF IInv, Shapes
  <1>4. CASE machine.run # p.kept[s]
    <2>1. machine.last[s] = p.kept[s] /\ Slot(machine.run.selection) # s
      BY <1>4 DEF IInv, EachSlot, Remembers
    <2>2. QED
      BY <1>2, <2>1 DEF IInv, Shapes
  <1>5. QED
    BY <1>3, <1>4

LEMMA EndedShape ==
  ASSUME IInv
  PROVE  /\ DOMAIN Ended(machine) = {"boot", "set", "run", "last"}
         /\ DOMAIN Ended(machine).last = Slots
  BY DEF IInv, Shapes, Ended

(* What a step may leave of the machine: what it was, or its activity over.      *)
Quiet(m) ==
  /\ DOMAIN m = {"boot", "set", "run", "last"}
  /\ \/ m.run = machine.run /\ m.last = machine.last
     \/ m.run = Ended(machine).run /\ m.last = Ended(machine).last

LEMMA MachineKeeps ==
  ASSUME IInv, Quiet(machine'), \A r \in wire' : r \in wire, UNCHANGED <<p, keys, press>>
  PROVE  IInv'
  <1>1. Shapes'
    BY EndedShape DEF IInv, Shapes, Quiet
  <1>2. EachSlot'
    <2> SUFFICES ASSUME NEW s \in Slots PROVE (OneKey(s) /\ KeptStart(s) /\ Remembers(s))'
      BY DEF EachSlot
    <2>1. (OneKey(s) /\ KeptStart(s))'
      BY DEF IInv, EachSlot, OneKey, KeptStart
    <2>2. Remembers(s)'
      <3>1. CASE machine'.run = machine.run /\ machine'.last = machine.last
        BY <3>1 DEF IInv, EachSlot, Remembers
      <3>2. CASE machine'.run = Ended(machine).run /\ machine'.last = Ended(machine).last
        BY <3>2, EndedKeeps DEF Remembers
      <3>3. QED
        BY <3>1, <3>2 DEF Quiet
    <2>3. QED
      BY <2>1, <2>2
  <1>3. WireInv'
    BY DEF IInv, WireInv, IsRequest, OneMeaning, Plain
  <1>4. QED
    BY <1>1, <1>2, <1>3 DEF IInv, NothingKeptAway

(* A machine that restarts forgets, and what a press has begun is not counted.   *)
LEMMA RestartKeeps ==
  ASSUME IInv, Restart
  PROVE  IInv'
  <1>1. UNCHANGED <<p, keys, wire>>
    BY DEF Restart
  <1>2. /\ DOMAIN machine' = {"boot", "set", "run", "last"} /\ DOMAIN machine'.last = Slots
        /\ DOMAIN press' = Slots
        /\ \A s \in Slots : /\ DOMAIN press'[s] = PressFields /\ press'[s].poured = 0
                            /\ press'[s].asked = press[s].asked
                            /\ press'[s].selection = press[s].selection
    BY DEF Restart, Booted, IInv, Shapes, PressFields
  <1>3. Shapes'
    BY <1>1, <1>2 DEF IInv, Shapes
  <1>4. EachSlot'
    BY <1>1, <1>2 DEF IInv, EachSlot, OneKey, KeptStart, Remembers
  <1>5. QED
    BY <1>1, <1>3, <1>4 DEF IInv, WireInv, IsRequest, OneMeaning, Plain, NothingKeptAway

-----------------------------------------------------------------------------
(* The machine serves a start: one it remembers begins nothing.                  *)
LEMMA AfterIs ==
  ASSUME IInv, NEW r \in wire, NEW m \in After(r.command)
  PROVE  \/ Quiet(m) /\ (m.run = machine.run \/ m.run = None)
         \/ /\ OneMeaning(r.command) /\ machine.run = None
            /\ r.command # machine.last[Slot(r.command.selection)]
            /\ DOMAIN m = {"boot", "set", "run", "last"}
            /\ m.run = r.command /\ m.last = machine.last
  <1> DEFINE c == r.command
  <1>1. DOMAIN machine = {"boot", "set", "run", "last"}
    BY DEF IInv, Shapes
  <1>2. CASE c.kind = "poll"
    BY <1>1, <1>2 DEF After, Quiet
  <1>3. CASE c.kind = "set"
    BY <1>1, <1>3 DEF After, Quiet
  <1>4. CASE c.kind = "stop"
    <2>1. m = machine \/ m = Ended(machine)
      BY <1>4 DEF After
    <2>2. Ended(machine).run = None
      BY <1>1 DEF Ended
    <2>3. QED
      BY <1>1, <2>1, <2>2, EndedShape DEF Quiet
  <1>5. CASE c.kind = "start"
    <2>1. OneMeaning(c)
      BY <1>5 DEF IInv, WireInv, Plain
    <2>2. CASE c \in {machine.run, machine.last[Slot(c.selection)]}
      BY <1>1, <1>5, <2>2 DEF After, Quiet
    <2>3. CASE c \notin {machine.run, machine.last[Slot(c.selection)]}
      <3>1. /\ machine.run = None
            /\ \/ m = [machine EXCEPT !.run = c, !.set["steam"] = FALSE]
               \/ m = [machine EXCEPT !.run = c]
        BY <1>5, <2>3 DEF After
      <3>2. QED
        BY <1>1, <2>1, <2>3, <3>1
    <2>4. QED
      BY <2>2, <2>3
  <1>6. QED
    BY <1>2, <1>3, <1>4, <1>5 DEF IInv, WireInv, Plain, OneMeaning

LEMMA ServeKeeps ==
  ASSUME IInv, NEW r, Serve(r)
  PROVE  IInv'
  <1>1. r \in wire /\ wire' = wire \ {r} /\ UNCHANGED <<p, keys>>
    BY DEF Serve
  <1>2. CASE UNCHANGED <<machine, press>>
    BY <1>1, <1>2, MachineKeeps DEF Quiet, IInv, Shapes
  <1>3. ASSUME NEW m \in After(r.command), machine' = m, Poured(r.command, m) PROVE IInv'
    <2> DEFINE c == r.command
               slot == Slot(c.selection)
    <2>1. CASE Quiet(m) /\ (m.run = machine.run \/ m.run = None)
      <3>1. c # None
        BY <1>1 DEF IInv, WireInv, Plain, OneMeaning, None
      <3>2. UNCHANGED press
        BY <1>3, <2>1, <3>1 DEF Poured
      <3>3. QED
        BY <1>1, <1>3, <2>1, <3>2, MachineKeeps
    <2>2. CASE /\ OneMeaning(c) /\ machine.run = None /\ c # machine.last[slot]
               /\ DOMAIN m = {"boot", "set", "run", "last"}
               /\ m.run = c /\ m.last = machine.last
      <3>1. slot \in Slots /\ c # None
        BY <2>2, SlotIsOne DEF OneMeaning, None
      <3> DEFINE mine == c.key \in press[slot].asked
                 poured == IF mine THEN press[slot].poured + 1 ELSE 0
      <3>2. press' = [press EXCEPT ![slot].poured = poured]
        BY <1>3, <2>2, <3>1 DEF Poured
      <3>3. mine => press[slot].poured = 0 /\ p.kept[slot] = c
        <4> SUFFICES ASSUME mine PROVE press[slot].poured = 0 /\ p.kept[slot] = c
          OBVIOUS
        <4>1. OneKey(slot) /\ Remembers(slot) /\ press[slot].poured \in {0, 1}
          BY <3>1 DEF IInv, EachSlot, Shapes
        <4>2. p.kept[slot] # None /\ p.kept[slot].key = c.key
          BY <4>1 DEF OneKey
        <4>3. p.kept[slot] = c
          BY <2>2, <4>2 DEF OneMeaning
        <4>4. QED
          BY <2>2, <3>1, <4>1, <4>3 DEF Remembers
      <3>4. poured \in {0, 1} /\ (poured = 1 => mine)
        BY <3>3
      <3> HIDE DEF mine, poured
      <3>5. /\ DOMAIN press' = Slots
            /\ \A s \in Slots : DOMAIN press'[s] = PressFields
            /\ press'[slot].poured = poured
            /\ \A s \in Slots : /\ press'[s].asked = press[s].asked
                                /\ press'[s].selection = press[s].selection
            /\ \A s \in Slots \ {slot} : press'[s] = press[s]
        BY <3>1, <3>2 DEF IInv, Shapes, PressFields
      <3>6. Shapes'
        BY <1>1, <1>3, <2>2, <3>4, <3>5 DEF IInv, Shapes
      <3>7. ASSUME NEW s \in Slots PROVE (OneKey(s) /\ KeptStart(s) /\ Remembers(s))'
        <4>1. KeptStart(s)'
          BY <1>1 DEF IInv, EachSlot, KeptStart
        <4>2. CASE s = slot
          <5>1. OneKey(s)'
            BY <1>1, <3>4, <3>5, <4>2 DEF IInv, EachSlot, OneKey, mine
          <5>2. Remembers(s)'
            BY <1>1, <1>3, <2>2, <3>3, <3>4, <3>5, <4>2 DEF Remembers
          <5>3. QED
            BY <4>1, <5>1, <5>2
        <4>3. CASE s # slot
          <5>1. press'[s] = press[s] /\ p' = p /\ OneKey(s) /\ Remembers(s)
            BY <1>1, <3>5, <4>3 DEF IInv, EachSlot
          <5>2. press[s].poured = 1 => machine.last[s] = p.kept[s]
            BY <2>2, <5>1 DEF OneKey, Remembers
          <5>3. OneKey(s)'
            BY <5>1 DEF OneKey
          <5>4. Remembers(s)'
            BY <1>3, <2>2, <4>3, <5>1, <5>2 DEF Remembers
          <5>5. QED
            BY <4>1, <5>3, <5>4
        <4>4. QED
          BY <4>2, <4>3
      <3>8. WireInv'
        BY <1>1 DEF IInv, WireInv, IsRequest, OneMeaning, Plain
      <3>9. QED
        BY <1>1, <3>6, <3>7, <3>8 DEF IInv, EachSlot, NothingKeptAway
    <2>3. QED
      BY <1>1, <1>3, <2>1, <2>2, AfterIs
  <1>4. QED
    BY <1>2, <1>3 DEF Serve

-----------------------------------------------------------------------------
(* A snapshot is shown; one of another boot drops the keys and the presses.      *)
LEMMA PollShownKeeps ==
  ASSUME IInv, PollShown
  PROVE  IInv'
  <1>1. PICK state : Snapshot(state)
    BY DEF PollShown
  <1> DEFINE restarted == p.boot \notin {0, state.boot}
             kept == IF restarted THEN [s \in Slots |-> None] ELSE p.kept
  <1>2. /\ DOMAIN p' = PhoneFields /\ p'.app = p.app /\ p'.kept = kept
        /\ press' = IF restarted THEN [s \in Slots |-> Unasked] ELSE press
    BY <1>1 DEF Snapshot, Waits, IInv, Shapes, PhoneFields
  <1>3. NothingStarted /\ UNCHANGED <<machine, keys>>
    BY DEF PollShown, NothingStarted, IInv, WireInv
  <1>4. QED
    BY <1>2, <1>3, PhoneKeeps DEF IInv, Shapes

(* A start: under the key that is kept, or under a new one for a new press.      *)
LEMMA SendStartKeeps ==
  ASSUME IInv, NEW selection, SendStart(selection), p.app = "active"
  PROVE  IInv'
  <1> DEFINE slot == Slot(selection)
             again == p.kept[slot] # None /\ p.kept[slot].selection = selection
             start == IF again THEN p.kept[slot] ELSE Start(keys + 1, selection)
             same == press[slot].selection = selection
             asked == {start.key} \cup (IF same THEN press[slot].asked ELSE {})
             poured == IF same THEN press[slot].poured ELSE 0
  <1>1. slot \in Slots /\ keys \in Nat
    BY SlotIsOne DEF IInv, Shapes
  <1>2. keys' = (IF again THEN keys ELSE keys + 1) /\ keys' \in Nat /\ keys <= keys'
    BY <1>1 DEF SendStart
  <1>3. /\ start # None /\ start.kind = "start" /\ start.selection = selection
        /\ start.key \in Nat /\ start.key <= keys'
    <2>1. CASE again
      BY <1>1, <1>2, <2>1 DEF IInv, EachSlot, KeptStart
    <2>2. CASE ~again
      BY <1>1, <1>2, <2>2 DEF Start, None
    <2>3. QED
      BY <2>1, <2>2
  <1>4. /\ DOMAIN p' = PhoneFields /\ p'.app = "active" /\ UNCHANGED machine
        /\ p'.kept = [p.kept EXCEPT ![slot] = start]
        /\ \A r \in wire' :
             IsRequest(r) /\ (r.command = start \/ \E q \in wire : q.command = r.command)
    <2>1. CASE p.pending = None
      <3>1. Perform(start, [p EXCEPT !.kept[slot] = start])
        BY <2>1 DEF SendStart
      <3>2. \A r \in wire' :
              IsRequest(r) /\ (r.command = start \/ \E q \in wire : q.command = r.command)
        BY <3>1, PerformSends
      <3> HIDE DEF start
      <3>3. QED
        BY <3>1, <3>2 DEF Perform, Waits, IInv, Shapes, PhoneFields
    <2>2. CASE p.pending # None
      BY <2>2 DEF SendStart, IInv, Shapes, WireInv, PhoneFields
    <2>3. QED
      BY <2>1, <2>2
  <1>5. press' = [press EXCEPT ![slot] = [selection |-> selection, asked |-> asked, poured |-> poured]]
    BY DEF SendStart
  <1>6. /\ asked = {start.key} /\ poured \in {0, 1}
        /\ poured = 1 => press[slot].poured = 1 /\ start = p.kept[slot]
    <2>1. OneKey(slot) /\ press[slot].poured \in {0, 1}
      BY <1>1 DEF IInv, EachSlot, Shapes
    <2>2. same /\ press[slot].asked # {} => again /\ press[slot].asked = {start.key}
      BY <2>1 DEF OneKey
    <2>3. QED
      BY <2>1, <2>2 DEF OneKey
  <1>7. \A s \in Slots \ {slot} : press'[s] = press[s] /\ p'.kept[s] = p.kept[s]
    BY <1>4, <1>5 DEF IInv, Shapes
  <1>8. /\ press'[slot] = [selection |-> selection, asked |-> asked, poured |-> poured]
        /\ p'.kept[slot] = start
    BY <1>1, <1>4, <1>5 DEF IInv, Shapes
  <1>9. again => start = p.kept[slot]
    OBVIOUS
  <1>10. ~again => start.key = keys + 1
    BY DEF Start
  <1> HIDE DEF start, asked, poured, same
  <1>11. Shapes'
    <2>1. \A s \in Slots : DOMAIN press'[s] = PressFields /\ press'[s].poured \in {0, 1}
      BY <1>6, <1>7, <1>8 DEF IInv, Shapes, PressFields
    <2>2. QED
      BY <1>2, <1>4, <1>5, <2>1 DEF IInv, Shapes
  <1>12. ASSUME NEW s \in Slots PROVE (OneKey(s) /\ KeptStart(s) /\ Remembers(s))'
    <2>1. CASE s = slot
      <3>1. OneKey(s)'
        BY <1>3, <1>6, <1>8, <2>1 DEF OneKey
      <3>2. KeptStart(s)'
        BY <1>3, <1>8, <2>1 DEF KeptStart
      <3>3. Remembers(s)'
        BY <1>1, <1>4, <1>6, <1>8, <2>1 DEF IInv, EachSlot, Remembers
      <3>4. QED
        BY <3>1, <3>2, <3>3
    <2>2. CASE s # slot
      <3>1. press'[s] = press[s] /\ p'.kept[s] = p.kept[s] /\ machine' = machine
        BY <1>4, <1>7, <2>2
      <3>2. OneKey(s) /\ KeptStart(s) /\ Remembers(s)
        BY DEF IInv, EachSlot
      <3>3. QED
        BY <1>1, <1>2, <3>1, <3>2 DEF OneKey, KeptStart, Remembers
    <2>3. QED
      BY <2>1, <2>2
  <1>13. WireInv'
    <2> SUFFICES ASSUME NEW r \in wire', ~Plain(r.command) PROVE OneMeaning(r.command)'
      BY <1>4 DEF WireInv, IsRequest, Plain
    <2> DEFINE c == r.command
    <2>1. CASE c = start
      BY <1>3, <1>8, <2>1 DEF OneMeaning
    <2>2. CASE c # start
      <3>1. OneMeaning(c)
        BY <1>4, <2>2 DEF IInv, WireInv
      <3>2. c.kind = "start" /\ c.key \in Nat /\ c.key <= keys'
        BY <1>1, <1>2, <3>1 DEF OneMeaning
      <3>3. Slot(c.selection) # slot => p'.kept[Slot(c.selection)] = p.kept[Slot(c.selection)]
        BY <1>7, SlotIsOne
      <3>4. Slot(c.selection) = slot => start.key # c.key
        <4>1. CASE again
          BY <1>9, <2>2, <3>1, <4>1 DEF OneMeaning
        <4>2. CASE ~again
          BY <1>1, <1>10, <3>1, <4>2 DEF OneMeaning
        <4>3. QED
          BY <4>1, <4>2
      <3>5. QED
        BY <1>8, <3>1, <3>2, <3>3, <3>4 DEF OneMeaning
    <2>3. QED
      BY <2>1, <2>2
  <1>14. QED
    BY <1>4, <1>11, <1>12, <1>13 DEF IInv, EachSlot, NothingKeptAway

(* A command that starts nothing.                                                *)
LEMMA PerformKeeps ==
  ASSUME IInv, NEW command, Plain(command), Perform(command, p), UNCHANGED <<keys, press>>
  PROVE  IInv'
  <1>1. DOMAIN p' = PhoneFields /\ p'.kept = p.kept /\ p'.app = p.app /\ UNCHANGED machine
    BY DEF Perform, Waits, IInv, Shapes, PhoneFields
  <1>2. NothingStarted
    BY PerformSends DEF NothingStarted
  <1>3. QED
    BY <1>1, <1>2, KeepsKeys

LEMMA PressKeeps ==
  ASSUME IInv, Press
  PROVE  IInv'
  <1>1. CASE PressHeater \/ PressMode \/ ConfirmTargets \/ ConfirmDismiss
    <2>1. PICK setting, on : Perform(Set(setting, on), p) /\ UNCHANGED <<keys, press>>
      BY <1>1 DEF PressHeater, PressMode, ConfirmTargets, ConfirmDismiss, Change
    <2>2. QED
      BY <2>1, PerformKeeps DEF Set, Plain
  <1>2. CASE StopCooldown \/ StopShot
    <2>1. PICK slot : Perform(Stop(slot), p) /\ UNCHANGED <<keys, press>>
      BY <1>2 DEF StopCooldown, StopShot, SendStop
    <2>2. QED
      BY <2>1, PerformKeeps DEF Stop, Plain
  <1>3. CASE StartCooldown \/ \E selection \in Shots \cap world.presses : StartShot(selection)
    BY <1>3, SendStartKeeps DEF StartCooldown, StartShot, CanPress, Live
  <1>4. QED
    BY <1>1, <1>2, <1>3 DEF Press

-----------------------------------------------------------------------------
(* The key of a command and its press are dropped together.                      *)
LEMMA SettledKeeps ==
  ASSUME IInv, NothingStarted, UNCHANGED <<machine, keys>>,
         DOMAIN p' = PhoneFields, p'.app = p.app,
         p'.kept = Forgets(p, p.pending).kept, Settled(p.pending)
  PROVE  IInv'
  <1>1. CASE p.pending.kind = "set"
    BY <1>1, KeepsKeys DEF Forgets, Settled
  <1>2. CASE p.pending.kind # "set"
    <2> DEFINE slot == SlotOf(p.pending)
    <2>1. p'.kept = [p.kept EXCEPT ![slot] = None] /\ press' = [press EXCEPT ![slot] = Unasked]
      BY <1>2 DEF Forgets, Settled, IInv, Shapes, PhoneFields
    <2> HIDE DEF slot
    <2>2. /\ DOMAIN p'.kept = Slots /\ DOMAIN press' = Slots
          /\ \A s \in Slots : \/ p'.kept[s] = p.kept[s] /\ press'[s] = press[s]
                              \/ p'.kept[s] = None /\ press'[s] = Unasked
      BY <2>1 DEF IInv, Shapes
    <2>3. QED
      BY <2>2, PhoneKeeps
  <1>3. QED
    BY <1>1, <1>2

(* Whatever the screen shows, only Forgets changes what is kept.                 *)
LEMMA ResumesKeeps ==
  ASSUME IInv, NEW s, DOMAIN s = PhoneFields, Resumes(s)
  PROVE  DOMAIN p' = PhoneFields /\ p'.kept = s.kept /\ p'.app = s.app /\ NothingStarted
  <1>1. NothingStarted
    BY OrphansStartNothing DEF Resumes, NothingStarted, IsRequest, Polls, Request, Poll, Plain
  <1>2. QED
    BY <1>1 DEF Resumes, PhoneFields

LEMMA ForgetsShape ==
  ASSUME IInv
  PROVE  DOMAIN Forgets(p, p.pending) = PhoneFields /\ Forgets(p, p.pending).app = p.app
  BY DEF IInv, Shapes, Forgets, PhoneFields

LEMMA AcknowledgedShape ==
  ASSUME IInv, NEW state
  PROVE  /\ DOMAIN Acknowledged(state) = PhoneFields /\ Acknowledged(state).app = p.app
         /\ Acknowledged(state).kept = Forgets(p, p.pending).kept
  <1> DEFINE s == Forgets(p, p.pending)
             cooling == p.pending.kind # "set" /\ SlotOf(p.pending) = "cooldown" /\ state.run # None
             first == [s EXCEPT !.shown.run = state.run, !.shown.set["steam"] = @ /\ ~cooling]
             second == [s EXCEPT !.shown.set = state.set]
             third == [s EXCEPT !.shown.set[p.pending.setting] = state.set[p.pending.setting]]
  <1>1. DOMAIN s = PhoneFields /\ s.app = p.app
    BY ForgetsShape
  <1>2. Acknowledged(state) = first \/ Acknowledged(state) = second \/ Acknowledged(state) = third
    BY DEF Acknowledged
  <1> HIDE DEF s, cooling
  <1>3. /\ DOMAIN first = PhoneFields /\ first.app = s.app /\ first.kept = s.kept
        /\ DOMAIN second = PhoneFields /\ second.app = s.app /\ second.kept = s.kept
        /\ DOMAIN third = PhoneFields /\ third.app = s.app /\ third.kept = s.kept
    BY <1>1 DEF PhoneFields
  <1>4. QED
    BY <1>1, <1>2, <1>3 DEF s

LEMMA CommandAnsweredKeeps ==
  ASSUME IInv, CommandAnswered
  PROVE  IInv'
  <1>0. UNCHANGED <<machine, keys>>
    BY DEF CommandAnswered
  <1>1. CASE \E state : Resumes(Acknowledged(state)) /\ Settled(p.pending)
    <2>1. PICK state : Resumes(Acknowledged(state)) /\ Settled(p.pending)
      BY <1>1
    <2>2. QED
      BY <1>0, <2>1, AcknowledgedShape, ResumesKeeps, SettledKeeps
  <1>2. CASE Resumes(Disconnected) /\ UNCHANGED press
    <2>1. DOMAIN Disconnected = PhoneFields /\ Disconnected.kept = p.kept /\ Disconnected.app = p.app
      BY DEF Disconnected, IInv, Shapes, PhoneFields
    <2>2. QED
      BY <1>0, <1>2, <2>1, ResumesKeeps, KeepsKeys
  <1>3. CASE Resumes(Forgets(p, p.pending)) /\ Settled(p.pending)
    BY <1>0, <1>3, ForgetsShape, ResumesKeeps, SettledKeeps
  <1>4. CASE Resumes(p) /\ UNCHANGED press
    BY <1>0, <1>4, ResumesKeeps, KeepsKeys DEF IInv, Shapes
  <1>5. QED
    BY <1>1, <1>2, <1>3, <1>4 DEF CommandAnswered

LEMMA CommandLostKeeps ==
  ASSUME IInv, CommandLost
  PROVE  IInv'
  <1>1. DOMAIN Disconnected = PhoneFields /\ Disconnected.kept = p.kept /\ Disconnected.app = p.app
    BY DEF Disconnected, IInv, Shapes, PhoneFields
  <1>2. QED
    BY <1>1, ResumesKeeps, KeepsKeys DEF CommandLost

-----------------------------------------------------------------------------
(* The screen is left, and comes back with new sessions.                         *)
LEMMA BlurKeeps ==
  ASSUME IInv, Blur
  PROVE  IInv'
  <1>1. DOMAIN p' = PhoneFields /\ p'.kept = [s \in Slots |-> None]
    BY NewSessionsShape DEF Blur, PhoneFields
  <1>2. press' = [s \in Slots |-> Unasked] /\ UNCHANGED <<machine, keys>>
    BY DEF Blur
  <1>3. NothingStarted
    BY AbortStartsNothing DEF Blur
  <1>4. QED
    BY <1>1, <1>2, <1>3, PhoneKeeps

LEMMA FocusKeeps ==
  ASSUME IInv, Focus
  PROVE  IInv'
  <1>1. p.app = "blurred" /\ p' = NewSessions /\ UNCHANGED <<machine, keys, press>>
    BY DEF Focus
  <1>2. DOMAIN p'.kept = Slots /\ \A s \in Slots : p'.kept[s] = p.kept[s]
    BY <1>1, NewSessionsShape DEF IInv, NothingKeptAway
  <1>3. NothingStarted
    BY PollsStartNothing DEF Focus, NothingStarted
  <1>4. QED
    BY <1>1, <1>2, <1>3, NewSessionsShape, PhoneKeeps DEF IInv, Shapes

(* Timers, polls that fail, the foreground and the background.                   *)
LEMMA PollingKeeps ==
  ASSUME IInv, PollTimer \/ PollRefused \/ PollLost \/ Background \/ Foreground
  PROVE  IInv'
  <1>1. /\ DOMAIN p' = PhoneFields /\ p'.kept = p.kept
        /\ p'.app = "blurred" => p.app = "blurred"
    BY DEF PollTimer, PollRefused, PollLost, Background, Foreground, BlankedBy, Waits, IInv, Shapes,
           PhoneFields
  <1>2. UNCHANGED <<machine, keys, press>>
    BY DEF PollTimer, PollRefused, PollLost, Background, Foreground
  <1>3. NothingStarted
    <2>1. CASE PollTimer \/ Foreground
      BY <2>1, PollsStartNothing DEF PollTimer, Foreground, NothingStarted
    <2>2. CASE PollRefused
      BY <2>2 DEF PollRefused, NothingStarted, IInv, WireInv
    <2>3. CASE PollLost \/ Background
      BY <2>3, AbortStartsNothing DEF PollLost, Background
    <2>4. QED
      BY <2>1, <2>2, <2>3
  <1>4. QED
    BY <1>1, <1>2, <1>3, KeepsKeys

(* What other screens and nobody ask.                                            *)
LEMMA OthersKeep ==
  ASSUME IInv, OtherAsks \/ \E to \in {"other", "stale"} : OtherHeard(to) \/ Lost(to)
  PROVE  IInv'
  <1>1. UNCHANGED <<p, machine, keys, press>>
    BY DEF OtherAsks, OtherHeard, Lost
  <1>2. NothingStarted
    <2>1. CASE OtherAsks
      BY <2>1 DEF OtherAsks, NothingStarted, IInv, WireInv, IsRequest, Request, Poll, Plain
    <2>2. CASE \E to : OtherHeard(to)
      BY <2>2 DEF OtherHeard, NothingStarted, IInv, WireInv
    <2>3. CASE \E to : Lost(to)
      BY <2>3, AbortStartsNothing DEF Lost
    <2>4. QED
      BY <2>1, <2>2, <2>3
  <1>3. QED
    BY <1>1, <1>2, KeepsKeys DEF IInv, Shapes

(* An activity or steam ends by itself, and a fault is latched.                  *)
LEMMA MachineAloneKeeps ==
  ASSUME IInv, EndsByItself \/ Fault
  PROVE  IInv'
  <1>1. UNCHANGED <<p, wire, keys, press>>
    BY DEF EndsByItself, Fault
  <1>2. \/ machine' = Ended(machine) \/ machine' = [machine EXCEPT !.set["steam"] = FALSE]
        \/ machine' = [machine EXCEPT !.set["fault"] = TRUE]
    BY DEF EndsByItself, Fault
  <1>3. Quiet(machine')
    BY <1>2, EndedShape DEF Quiet, IInv, Shapes
  <1>4. QED
    BY <1>1, <1>3, MachineKeeps

LEMMA NextInv == IInv /\ [Next]_vars => IInv'
  <1> SUFFICES ASSUME IInv, [Next]_vars PROVE IInv'
    OBVIOUS
  <1>1. CASE \E r \in wire : Serve(r)
    BY <1>1, ServeKeeps
  <1>2. CASE EndsByItself \/ Fault \/ Restart
    BY <1>2, MachineAloneKeeps, RestartKeeps
  <1>3. CASE OtherAsks \/ \E to \in {"other", "stale"} : OtherHeard(to) \/ Lost(to)
    BY <1>3, OthersKeep
  <1>4. CASE PollShown \/ Press \/ CommandAnswered \/ CommandLost \/ Blur \/ Focus
    BY <1>4, PollShownKeeps, PressKeeps, CommandAnsweredKeeps, CommandLostKeeps, BlurKeeps, FocusKeeps
  <1>5. CASE PollTimer \/ PollRefused \/ PollLost \/ Background \/ Foreground
    BY <1>5, PollingKeeps
  <1>6. CASE UNCHANGED vars
    BY <1>6, KeepsKeys DEF vars, NothingStarted, IInv, WireInv, Shapes
  <1>7. QED
    BY <1>1, <1>2, <1>3, <1>4, <1>5, <1>6 DEF Next

LEMMA SpecInv == Spec => []IInv
  BY InitInv, NextInv, PTL DEF Spec

(* A start that is pressed again begins one shot or cooldown and no second one,  *)
(* as long as the machine neither restarts unseen nor serves an older start of   *)
(* the slot in between.                                                          *)
THEOREM StartsAreOnce == Spec => []StartedOnce
  <1>1. IInv => StartedOnce
    BY DEF IInv, Shapes, StartedOnce
  <1>2. QED
    BY <1>1, SpecInv, PTL
=============================================================================
