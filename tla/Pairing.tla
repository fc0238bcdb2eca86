------------------------------- MODULE Pairing -------------------------------
(* Pairing: phones, each with PairingScreen, the services it calls, discovery    *)
(* and secure storage, and the machines' pairing routes as the simulator         *)
(* implements them.  The routes and the services run between awaits, so that an  *)
(* attempt to pair is a chain of steps that interleaves with the other attempts, *)
(* with rotation of the pairing code, with machines that change their address    *)
(* and with everything the user may press.  SRP is ideal: a proof holds exactly  *)
(* when the code typed is the code its session was created with.  An attempt     *)
(* draws a new client identifier, which also names the token it may be given.    *)
EXTENDS Integers, FiniteSets, Sequences

CONSTANTS
  Phones, Devices, Codes,
  FactoryCodes,          \* the code of each machine at first
  Nobody,                \* no machine at an address
  Unknown,               \* the identity of a machine entered by hand
  MaxClients,            \* credentials a machine keeps
  MaxSessions,           \* pairing sessions a machine keeps
  Worlds                 \* the phones, the machines' addresses, the way machines are
                         \* found and the bounds on events a behaviour may have

ASSUME PairingLimitsAssumption ==
  {MaxClients, MaxSessions} \subseteq Nat \ {0}

VARIABLES
  holder,                \* the machine at each address
  code,                  \* pairingCode of each machine
  clients,               \* clients of each machine, in the order of the array
  sessions,              \* stage of each attempt's session, "none" when deleted
  late,                  \* sessions past expiresAtUptimeMs
  attempt,               \* the attempts so far
  phone,                 \* the state of each phone
  left,                  \* what is left of the bounds
  world                  \* the one this behaviour happens in
machineVars == <<holder, code, clients, sessions, late>>
pairingVars == <<holder, code, clients, sessions, late, attempt, phone, left, world>>

Absent == [device |-> Nobody]
Addresses == DOMAIN holder
Attempts == 1..Len(attempt)
SessionsOf(d) == {n \in Attempts : sessions[n] # "none" /\ attempt[n].device = d}
Accepts(d, n) == \E i \in DOMAIN clients[d] : clients[d][i] = n
At(n) == holder[attempt[n].at]

Proves(n) == attempt[n].typed = attempt[n].code   \* the SRP proof of the client holds
To(n, pc) == attempt' = [attempt EXCEPT ![n].pc = pc]
(* A deleted session, or one that its deadline has passed, refuses the request.  *)
Refuses(n) == sessions[n] = "none" \/ n \in late
Drop(n) == sessions' = [sessions EXCEPT ![n] = "none"]

-----------------------------------------------------------------------------
(* POST /pairing/sessions: the limit is checked, the body is awaited, the code   *)
(* is read, the SRP session is awaited and the session is kept.                  *)
StartCheck(n) ==
  /\ attempt[n].pc = "start" /\ At(n) # Nobody
  /\ LET d == At(n)
         open == SessionsOf(d) \ late
     IN /\ sessions' = [i \in DOMAIN sessions |->
                          IF i \in SessionsOf(d) \cap late THEN "none" ELSE sessions[i]]
        /\ attempt' = [attempt EXCEPT
             ![n].device = d,
             ![n].pc = IF Cardinality(open) >= MaxSessions THEN "refused" ELSE "checked"]
  /\ UNCHANGED <<holder, code, clients, late, phone, left, world>>
StartCreate(n) ==
  /\ attempt[n].pc = "checked"
  /\ attempt' = [attempt EXCEPT ![n].pc = "created", ![n].code = code[attempt[n].device]]
  /\ UNCHANGED <<machineVars, phone, left, world>>
StartKeep(n) ==
  /\ attempt[n].pc = "created"
  /\ sessions' = [sessions EXCEPT ![n] = "proof"]
  /\ To(n, "started")
  /\ UNCHANGED <<holder, code, clients, late, phone, left, world>>

(* POST .../proof: the session's stage is checked, the proof is awaited.         *)
ProofCheck(n) ==
  /\ attempt[n].pc = "proof" /\ At(n) # Nobody
  /\ IF At(n) # attempt[n].device THEN To(n, "refused") /\ UNCHANGED sessions
     ELSE IF Refuses(n) THEN Drop(n) /\ To(n, "refused")
     ELSE To(n, "proving") /\ UNCHANGED sessions
  /\ UNCHANGED <<holder, code, clients, late, phone, left, world>>
ProofVerify(n) ==
  /\ attempt[n].pc = "proving"
  /\ IF Proves(n)
     THEN /\ sessions' = [sessions EXCEPT ![n] = IF @ = "none" THEN @ ELSE "complete"]
          /\ To(n, "proved")
     ELSE Drop(n) /\ To(n, "refused")
  /\ UNCHANGED <<holder, code, clients, late, phone, left, world>>

(* POST .../complete: the binding is awaited, the session is deleted and a place *)
(* is made among the clients, the token's hash is awaited and the client added.  *)
CompleteCheck(n) ==
  /\ attempt[n].pc = "complete" /\ At(n) # Nobody
  /\ IF At(n) # attempt[n].device THEN To(n, "refused") /\ UNCHANGED sessions
     ELSE IF Refuses(n) THEN Drop(n) /\ To(n, "refused")
     ELSE To(n, "completing") /\ UNCHANGED sessions
  /\ UNCHANGED <<holder, code, clients, late, phone, left, world>>
CompleteIssue(n) ==
  /\ attempt[n].pc = "completing"
  /\ Drop(n)
  /\ clients' = [clients EXCEPT ![attempt[n].device] = IF Len(@) = MaxClients THEN Tail(@) ELSE @]
  /\ To(n, "issued")
  /\ UNCHANGED <<holder, code, late, phone, left, world>>
CompletePush(n) ==
  /\ attempt[n].pc = "issued"
  /\ clients' = [clients EXCEPT ![attempt[n].device] = Append(@, n)]
  /\ To(n, "completed")
  /\ UNCHANGED <<holder, code, sessions, late, phone, left, world>>
(* GET /state behind requireBearer, with the certificate pinned. *)
StateAnswer(n) ==
  /\ attempt[n].pc = "state" /\ At(n) # Nobody
  /\ To(n, IF At(n) = attempt[n].device /\ Accepts(At(n), n) THEN "stated" ELSE "refused")
  /\ UNCHANGED <<machineVars, phone, left, world>>
Route(n) ==
  \/ StartCheck(n) \/ StartCreate(n) \/ StartKeep(n) \/ ProofCheck(n) \/ ProofVerify(n)
  \/ CompleteCheck(n) \/ CompleteIssue(n) \/ CompletePush(n) \/ StateAnswer(n)

-----------------------------------------------------------------------------
(* The screen of a phone.  "native" is whose scan NativeDeviceDiscovery runs:    *)
(* a new scan stops the active one, whoever started it.                          *)
Credential(n) == [device |-> attempt[n].device, client |-> n, at |-> attempt[n].at]
Candidate(d, a) == [device |-> d, at |-> a]
Launched(stored) ==
  [busy |-> TRUE, restore |-> "load", selected |-> Absent, paired |-> Absent, store |-> stored,
   scanning |-> FALSE, native |-> "none", found |-> {}, recovered |-> Nobody, op |-> 0,
   forget |-> "none"]
Scan(s, who) == [s EXCEPT !.native = who]
Browse(s) == Scan([s EXCEPT !.scanning = TRUE], "browse")
StopBrowsing(s) ==
  [s EXCEPT !.scanning = FALSE, !.native = IF @ = "browse" THEN "none" ELSE @]
Set(p, s) == phone' = [phone EXCEPT ![p] = s]
Restored(s) == [s EXCEPT !.restore = "done", !.busy = FALSE]
Connected(p, a) ==                     \* the stored credential is accepted there
  LET c == phone[p].store IN holder[a] = c.device /\ Accepts(c.device, c.client)
Rejected(p, a) == holder[a] # Nobody /\ ~Connected(p, a)

(* restoreSelectedDevice: load, connect where the machine was, else find it.     *)
Load(p) ==
  /\ phone[p].restore = "load"
  /\ Set(p, IF phone[p].store = Absent THEN Browse(Restored(phone[p]))
            ELSE [phone[p] EXCEPT !.restore = "connect"])
Connect(p) ==
  LET s == phone[p] IN
  /\ s.restore = "connect"
  /\ \/ Connected(p, s.store.at) /\ Set(p, [Restored(s) EXCEPT !.paired = s.store])
     \/ Rejected(p, s.store.at) /\ Set(p, [Restored(s) EXCEPT
          !.selected = Candidate(s.store.device, s.store.at)])
     \/ Set(p, Scan([s EXCEPT !.restore = "find"], "find"))
Discover(p) ==
  LET s == phone[p] IN
  /\ s.native # "none"
  /\ \E a \in Addresses :
       LET seen == [s EXCEPT !.found = {c \in @ : c.device # holder[a]} \cup {Candidate(holder[a], a)}]
       IN /\ holder[a] # Nobody
          /\ Set(p, IF s.native = "find" /\ holder[a] = s.store.device
                    THEN [seen EXCEPT !.restore = "reconnect", !.native = "none", !.recovered = a]
                    ELSE seen)
FindEndsWithScan(p) ==                 \* mutant: only its own scan ends the search
  /\ phone[p].restore = "find" /\ phone[p].native = "find"
  /\ Set(p, Browse(Restored(phone[p])))
FindEnds(p) ==                         \* the time is up, or the scan fails
  /\ phone[p].restore = "find"
  /\ Set(p, Browse(Restored(phone[p])))
ReconnectUnsaved(p) ==                 \* mutant: the new address is not saved
  LET s == phone[p] IN
  /\ s.restore = "reconnect"
  /\ Connected(p, s.recovered)
  /\ Set(p, [Restored(s) EXCEPT !.paired = [s.store EXCEPT !.at = s.recovered]])
Reconnect(p) ==
  LET s == phone[p]
      updated == [s.store EXCEPT !.at = s.recovered]
  IN
  /\ s.restore = "reconnect"
  /\ \/ /\ Connected(p, s.recovered)
        /\ \/ Set(p, [Restored(s) EXCEPT !.store = updated, !.paired = updated])
           \/ Set(p, Browse(Restored(s)))        \* it cannot be saved
     \/ Rejected(p, s.recovered) /\ Set(p, [Restored(s) EXCEPT
          !.selected = Candidate(s.store.device, s.recovered)])
     \/ Set(p, Browse(Restored(s)))
Restoring(p) ==
  /\ p \in world.phones
  /\ Load(p) \/ Connect(p) \/ FindEnds(p) \/ Reconnect(p)
  /\ UNCHANGED <<machineVars, attempt, left, world>>

(* What the user presses.  Only a press that is not disabled by "busy" waits.    *)
Idle(p) == phone[p].paired = Absent /\ phone[p].selected = Absent
Search(p) == Idle(p) /\ ~phone[p].scanning /\ Set(p, Browse(phone[p]))
ScanEnds(p) == phone[p].scanning /\ Set(p, StopBrowsing(phone[p]))
Select(p) ==
  /\ Idle(p)
  /\ \E c \in phone[p].found : Set(p, [StopBrowsing(phone[p]) EXCEPT !.selected = c])
EnterAddress(p) ==
  /\ Idle(p) /\ ~phone[p].busy
  /\ \E a \in Addresses :
       Set(p, [StopBrowsing(phone[p]) EXCEPT !.selected = Candidate(Unknown, a)])
ChooseAnother(p) ==
  /\ phone[p].paired = Absent /\ phone[p].selected # Absent /\ ~phone[p].busy
  /\ Set(p, Browse([phone[p] EXCEPT !.selected = Absent]))
(* forgetDevice: the screen is busy and awaits the deletion; while it does the   *)
(* dashboard is still shown, and so it is for good when the deletion fails.      *)
Forget(p) ==
  /\ phone[p].paired # Absent /\ phone[p].forget \in {"none", "failed"}
  /\ Set(p, [phone[p] EXCEPT !.busy = TRUE, !.forget = "clearing"])
Clear(p) ==                            \* repository.clear: nobody catches what it throws
  /\ phone[p].forget = "clearing"
  /\ \/ Set(p, [phone[p] EXCEPT !.store = Absent, !.forget = "cleared"])
     \/ Set(p, [phone[p] EXCEPT !.forget = "failed"])
Forgotten(p) ==
  /\ phone[p].forget = "cleared"
  /\ Set(p, Browse([phone[p] EXCEPT
       !.paired = Absent, !.selected = Absent, !.found = {}, !.busy = FALSE, !.forget = "none"]))
Forgetting(p) ==
  /\ p \in world.phones
  /\ Clear(p) \/ Forgotten(p)
  /\ UNCHANGED <<machineVars, attempt, left, world>>
Press(p) ==
  /\ p \in world.phones
  /\ \/ world.scans /\ (Search(p) \/ ScanEnds(p) \/ Select(p) \/ Discover(p))
     \/ ~world.scans /\ EnterAddress(p)
     \/ ChooseAnother(p) \/ Forget(p)
  /\ UNCHANGED <<machineVars, attempt, left, world>>

(* authenticateAndSave: an attempt goes from answer to request until it fails.   *)
Pair(p) ==
  LET s == phone[p] IN
  /\ p \in world.phones
  /\ s.paired = Absent /\ s.selected # Absent /\ ~s.busy /\ left.attempts > 0
  /\ \E typed \in Codes :
       attempt' = Append(attempt, [phone |-> p, expect |-> s.selected.device, at |-> s.selected.at,
                                   typed |-> typed, code |-> typed, device |-> Nobody,
                                   pc |-> "start"])
  /\ sessions' = Append(sessions, "none")
  /\ Set(p, [s EXCEPT !.busy = TRUE, !.op = Len(attempt) + 1])
  /\ left' = [left EXCEPT !.attempts = @ - 1]
  /\ UNCHANGED <<holder, code, clients, late, world>>
Waits(p) == phone[p].op # 0
Request(p) == attempt[phone[p].op].pc
Failed(p) == Set(p, [phone[p] EXCEPT !.busy = FALSE, !.op = 0])
Abandoned(n) ==                        \* its route, if it was sent, still runs
  attempt' = [attempt EXCEPT ![n].pc =
    IF @ \in {"started", "proved", "completed", "state", "stated", "refused"} THEN "over" ELSE @]
StartAnsweredByAny(p) ==               \* mutant: the identity is not compared
  /\ Waits(p) /\ Request(p) = "started"
  /\ To(phone[p].op, "proof") /\ UNCHANGED phone
StartAnswered(p) ==
  /\ Waits(p) /\ Request(p) = "started"
  /\ LET a == attempt[phone[p].op]
     IN IF a.expect \in {Unknown, a.device} THEN To(phone[p].op, "proof") /\ UNCHANGED phone
        ELSE Failed(p) /\ Abandoned(phone[p].op)
ProofAnswered(p) ==
  Waits(p) /\ Request(p) = "proved" /\ To(phone[p].op, "complete") /\ UNCHANGED phone
TokenAnswered(p) ==
  Waits(p) /\ Request(p) = "completed" /\ To(phone[p].op, "state") /\ UNCHANGED phone
Save(p) ==
  LET c == Credential(phone[p].op) IN
  /\ Waits(p) /\ Request(p) = "stated"
  /\ Set(p, [phone[p] EXCEPT !.store = c, !.paired = c, !.busy = FALSE, !.op = 0])
  /\ To(phone[p].op, "over")
(* A refusal, a request that times out, a proof or a write that fails.           *)
RequestFails(p) == Waits(p) /\ Failed(p) /\ Abandoned(phone[p].op)
Pairs(p) ==
  /\ StartAnswered(p) \/ ProofAnswered(p) \/ TokenAnswered(p) \/ Save(p) \/ RequestFails(p)
  /\ UNCHANGED <<machineVars, left, world>>

(* The world: the app is killed, the code rotates, a session ages, a machine     *)
(* takes another address or leaves the network.                                  *)
Restart(p) ==
  /\ p \in world.phones
  /\ left.restarts > 0
  /\ Set(p, Launched(phone[p].store))
  /\ IF Waits(p) THEN Abandoned(phone[p].op) ELSE UNCHANGED attempt
  /\ left' = [left EXCEPT !.restarts = @ - 1]
  /\ UNCHANGED <<machineVars, world>>
Rotate(d) ==
  /\ left.rotations > 0
  /\ \E next \in Codes \ {code[d]} : code' = [code EXCEPT ![d] = next]
  /\ clients' = [clients EXCEPT ![d] = <<>>]
  /\ sessions' = [n \in DOMAIN sessions |-> IF attempt[n].device = d THEN "none" ELSE sessions[n]]
  /\ left' = [left EXCEPT !.rotations = @ - 1]
  /\ UNCHANGED <<holder, late, attempt, phone, world>>
Expire(n) ==
  /\ left.expiries > 0 /\ sessions[n] # "none" /\ n \notin late
  /\ late' = late \cup {n}
  /\ left' = [left EXCEPT !.expiries = @ - 1]
  /\ UNCHANGED <<holder, code, clients, sessions, attempt, phone, world>>
Move ==
  /\ left.moves > 0
  /\ holder' \in [Addresses -> Devices \cup {Nobody}] \ {holder}
  /\ \A a, b \in Addresses : a # b /\ holder'[a] = holder'[b] => holder'[a] = Nobody
  /\ left' = [left EXCEPT !.moves = @ - 1]
  /\ UNCHANGED <<code, clients, sessions, late, attempt, phone, world>>

PairingInit ==
  /\ world \in Worlds
  /\ holder = world.leases /\ code = FactoryCodes
  /\ clients = [d \in Devices |-> <<>>]
  /\ sessions = <<>> /\ late = {} /\ attempt = <<>>
  /\ phone = [p \in Phones |-> Launched(Absent)]
  /\ left = world.bounds
PairingNext ==
  \/ \E n \in Attempts : Route(n) \/ Expire(n)
  \/ \E p \in Phones : Restoring(p) \/ Press(p) \/ Forgetting(p) \/ Pair(p) \/ Pairs(p) \/ Restart(p)
  \/ \E d \in Devices : Rotate(d)
  \/ Move
PairingSpec == PairingInit /\ [][PairingNext]_pairingVars
(* Requests and searches have time limits, and a phone's own steps are run.      *)
PairingFairSpec ==
  PairingSpec /\ \A p \in Phones :
    WF_pairingVars(Restoring(p)) /\ WF_pairingVars(Pairs(p)) /\ WF_pairingVars(Forgetting(p))

-----------------------------------------------------------------------------
(* A phone keeps only a credential of the machine its user chose, wherever the   *)
(* machines have moved while it paired; a machine entered by hand may be any.    *)
PairsTheChosen ==
  \A p \in Phones : LET c == phone[p].store IN
    c # Absent => attempt[c.client].expect \in {Unknown, c.device}

(* The credential a dashboard runs on is the one the next launch will find,      *)
(* but between the deletion of a forgotten one and the dashboard's leaving.      *)
PairedIsStored ==
  \A p \in Phones : phone[p].paired # Absent =>
    phone[p].store = phone[p].paired \/ phone[p].forget = "cleared"

(* A phone that is busy, restoring, pairing or forgetting, is at some time idle: *)
(* whoever took over its scan, and wherever the machine has gone.  One case is   *)
(* known: a deletion that fails leaves the screen busy under the dashboard.      *)
BusyEnds ==
  \A p \in Phones : (p \in world.phones /\ phone[p].busy) ~>
    (~phone[p].busy \/ phone[p].forget = "failed")

=============================================================================
