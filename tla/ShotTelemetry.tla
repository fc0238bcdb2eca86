---------------------------- MODULE ShotTelemetry ----------------------------
(* How a shot gets into the phone's history: the machine captures samples into  *)
(* a ring, streams them in pages to its one subscriber, and the phone's         *)
(* ExtractionStreamSession merges, stores and acknowledges them, while the      *)
(* effects of useScale record what the one-Hertz poll says of the same shot.    *)
(* The session's generation is modelled by what it tells apart: of each call,   *)
(* whether it is the current one.  Left out: a machine without the stream, the  *)
(* ring's overrun (a shot and its settling fit), weights, and the retry delays. *)
(* A commit, from reading the cached trace to caching the new one, is one step.  *)
EXTENDS Integers, FiniteSets, Sequences, FiniteSetsExt

CONSTANTS
  PageSize,      \* samples of a page
  Null,
  MaxBoots, MaxShots, MaxSamples, MaxSaving,
                 \* bounds: boots, shots of a boot, samples of a shot, recordings at once
  Worlds         \* bounds: what a behaviour has of stops, kills, losses, ...

ASSUME PageAssumption == PageSize \in Nat \ {0} /\ Null # "stopped"
ASSUME BoundsAssumption ==
  MaxBoots \in Nat \ {0} /\ {MaxShots, MaxSamples, MaxSaving} \subseteq Nat
ASSUME WorldsAssumption ==
  Worlds \subseteq [shots : Nat, samples : Nat, records : BOOLEAN, cycles : Nat, drops : Nat,
                    stops : Nat, kills : Nat, failures : Nat, clears : Nat]

VARIABLES
  machine,   \* its boot, and the shot it retains: id 0 is none
  stream,    \* the one subscription it serves
  phone,     \* session, React state and poll of the app
  calls,     \* the app's stream requests, aborted ones that still run included
  saving,    \* recordings of polled states that are under way
  store,     \* the history database
  world
vars == <<machine, stream, phone, calls, saving, store, world>>

Boots == 1..MaxBoots
Shots == 1..MaxShots
Keys == Boots \X Shots                    \* a trace is stored by boot and shot
RecordKeys == (0..MaxBoots) \X Shots      \* a record also as pending: boot 0
NoCursor == [boot |-> 0, id |-> 0, after |-> 0]
NoTrace == [key |-> <<0, 0>>, samples |-> {}, whole |-> FALSE]
NoPolled == <<0, "none">>
Free == [open |-> FALSE, heard |-> FALSE, cursor |-> NoCursor, cancelled |-> FALSE, leaked |-> FALSE]
Stored(key) == store.traces[key].samples
Cached(key) == store.traces[key].cache
Removed(key) == {key} \X Stored(key)             \* history: what was stored once
Dropped == [k \in Keys |-> [samples |-> {}, cache |-> {}]]
Latest(s) == IF s = {} THEN 0 ELSE Max(s)

NewPhone ==
  [foreground |-> TRUE, polled |-> NoPolled, shot |-> 0, armed |-> FALSE, ready |-> TRUE,
   cursor |-> NoCursor, trace |-> NoTrace, retry |-> FALSE,
   cut |-> FALSE]        \* history: disarmed by the shot, without the call that had more of it

Init ==
  /\ machine = [boot |-> 1, id |-> 0, latest |-> 0, status |-> "idle"]
  /\ stream = Free
  /\ phone = NewPhone
  /\ calls = {} /\ saving = {}
  /\ store = [traces |-> Dropped, newest |-> [i \in Shots |-> 0],
              records |-> [k \in RecordKeys |-> "none"], removed |-> {}]
  /\ world \in Worlds

May(what) == world[what] > 0 /\ world' = [world EXCEPT ![what] = @ - 1]
Key(page) == <<page.boot, page.id>>

-----------------------------------------------------------------------------
(* The machine's ring and its subscriber.                                       *)

(* getExtractionTelemetryPage, until nothing is left: the pages after a cursor,  *)
(* all of them marked terminal once the last sample has been captured.           *)
Pages(m, cursor) ==
  LET fits == cursor = NoCursor \/ (cursor.boot = m.boot /\ cursor.id = m.id)
      after == IF fits THEN cursor.after ELSE 0
      count == (m.latest - after + PageSize - 1) \div PageSize
  IN [i \in 1..count |->
        [boot |-> m.boot, id |-> m.id, first |-> after + (i - 1) * PageSize + 1,
         last |-> Min({after + i * PageSize, m.latest}), latest |-> m.latest,
         status |-> m.status,
         continuity |-> IF i > 1 THEN "continuous" ELSE IF cursor = NoCursor THEN "initial"
                        ELSE IF fits THEN "continuous" ELSE "reset"]]
After(page) == [boot |-> page.boot, id |-> page.id, after |-> page.last]
Terminal(page) == page.status = "terminal"
(* sendPage: a page as it goes into the event stream. *)
AsSent(page) ==
  [boot |-> page.boot, id |-> page.id, status |-> page.status, continuity |-> page.continuity,
   oldest |-> 1, latest |-> page.latest, cursor |-> After(page), more |-> page.last < page.latest,
   outcome |-> IF page.status = "running" THEN Null ELSE "stopped",
   samples |-> [n \in 1..(page.last - page.first + 1) |-> page.first + n - 1]]
DrainedAgain(m, cursor) ==             \* mutant: a sent page does not advance the cursor
  LET pages == Pages(m, cursor)
      done == pages # <<>> /\ m.status = "terminal"
  IN [pages |-> pages, over |-> done,
      stream |-> IF done THEN Free
                 ELSE [open |-> TRUE, heard |-> TRUE, cancelled |-> FALSE, leaked |-> FALSE,
                       cursor |-> cursor]]
(* drain: what it sends to the reading call, and the stream it leaves behind. *)
Drained(m, cursor) ==
  LET pages == Pages(m, cursor)
      done == pages # <<>> /\ m.status = "terminal"
  IN [pages |-> pages, over |-> done,
      stream |-> IF done THEN Free
                 ELSE [open |-> TRUE, heard |-> TRUE, cancelled |-> FALSE, leaked |-> FALSE,
                       cursor |-> IF pages = <<>> THEN cursor ELSE After(pages[Len(pages)])]]
Reading(c) == ~c.aborted /\ c.stage # "asked"
(* Every capture calls the listener.  A cancelled or leaked stream is still sent to. *)
Captured(m) ==
  /\ machine' = m
  /\ IF stream.open /\ stream.heard
     THEN LET d == Drained(m, stream.cursor) IN
          /\ stream' = IF d.over THEN Free
                       ELSE [d.stream EXCEPT !.cancelled = stream.cancelled, !.leaked = stream.leaked]
          /\ calls' = IF stream.cancelled \/ stream.leaked THEN calls
                      ELSE {IF Reading(c)
                            THEN [c EXCEPT !.pipe = @ \o d.pages, !.over = d.over] ELSE c : c \in calls}
     ELSE UNCHANGED <<stream, calls>>
  /\ UNCHANGED <<phone, saving, store>>

StartShot ==
  /\ machine.status # "running" /\ machine.id < MaxShots /\ May("shots")
  /\ Captured([machine EXCEPT !.id = @ + 1, !.latest = 1, !.status = "running"])
Capture ==
  /\ \/ machine.status = "running" /\ machine.latest < world.samples - 2
     \/ machine.status = "settling" /\ machine.latest < world.samples - 1
  /\ Captured([machine EXCEPT !.latest = @ + 1]) /\ UNCHANGED world
StopShot ==
  /\ machine.status = "running"
  /\ Captured([machine EXCEPT !.latest = @ + 1, !.status = "settling"]) /\ UNCHANGED world
Settled ==
  /\ machine.status = "settling"
  /\ Captured([machine EXCEPT !.latest = @ + 1, !.status = "terminal"]) /\ UNCHANGED world
(* Shots are counted from one again; listeners are forgotten, streams are not closed. *)
PowerCycle ==
  /\ machine.boot < MaxBoots /\ May("cycles")
  /\ machine' = [boot |-> machine.boot + 1, id |-> 0, latest |-> 0, status |-> "idle"]
  /\ stream' = [stream EXCEPT !.heard = FALSE]
  /\ UNCHANGED <<phone, calls, saving, store>>

(* A request is refused while another stream is open, and without telemetry. *)
Serve ==
  /\ \E c \in calls :
       /\ c.stage = "asked" /\ ~c.aborted
       /\ IF stream.open \/ machine.id = 0
          THEN /\ calls' = (calls \ {c}) \cup {[c EXCEPT !.stage = "reading", !.failed = TRUE]}
               /\ UNCHANGED stream
          ELSE LET d == Drained(machine, c.cursor) IN
               /\ stream' = d.stream
               /\ calls' = (calls \ {c}) \cup
                    {[c EXCEPT !.stage = "reading", !.pipe = d.pages, !.over = d.over]}
  /\ UNCHANGED <<machine, phone, saving, store, world>>
Release ==
  /\ stream.open /\ stream.cancelled /\ stream' = Free
  /\ UNCHANGED <<machine, phone, calls, saving, store, world>>
(* The connection of the reading call breaks: both ends notice. *)
Drop ==
  /\ May("drops")
  /\ \E c \in calls : /\ Reading(c) /\ ~c.failed
                      /\ calls' = (calls \ {c}) \cup {[c EXCEPT !.pipe = <<>>, !.failed = TRUE]}
  /\ stream' = IF stream.leaked THEN stream ELSE [stream EXCEPT !.cancelled = stream.open]
  /\ UNCHANGED <<machine, phone, saving, store>>

-----------------------------------------------------------------------------
(* The session.                                                                 *)

Alive == {c \in calls : ~c.aborted}          \* at most one: the abort controller's
Aborted == {[c EXCEPT !.aborted = TRUE, !.pipe = <<>>] : c \in {d \in calls : d.stage # "asked"}}
Cancelled == [stream EXCEPT !.cancelled = @ \/ (stream.open /\ ~stream.leaked /\ Alive # {})]
NewCall(cursor) ==
  [current |-> TRUE, aborted |-> FALSE, stage |-> "asked", cursor |-> cursor, pipe |-> <<>>,
   over |-> FALSE, failed |-> FALSE, chunk |-> <<>>, whole |-> FALSE, found |-> <<>>]
Superseded(cs) == {[c EXCEPT !.current = FALSE] : c \in cs}
(* connect, in a new generation. *)
Connects(p, cs) ==
  IF p.foreground /\ p.armed
  THEN phone' = p /\ calls' = Superseded(cs) \cup {NewCall(p.cursor)}
  ELSE phone' = p /\ calls' = Superseded(cs)
EnsureConnected(p, cs) ==
  IF p.foreground /\ p.ready /\ ~p.retry /\ \A c \in cs : c.aborted
  THEN Connects(p, cs) ELSE phone' = p /\ calls' = cs

(* observeExtraction of another shot than the session's; the trace is being loaded *)
(* until the session is ready.                                                     *)
Observed(p, id) ==
  IF id \in {0, p.shot} THEN p
  ELSE [p EXCEPT !.shot = id, !.cursor = NoCursor, !.ready = FALSE, !.trace = NoTrace,
                 !.armed = TRUE, !.cut = FALSE]
(* The effects of a poll's new state: it is recorded, and its shot is observed.  To *)
(* observe the same shot again changes nothing: a request is active or to be retried. *)
Poll ==
  LET state == <<machine.id, IF machine.status = "running" THEN "running" ELSE "idle">>
      p == Observed([phone EXCEPT !.polled = state], state[1]) IN
  /\ phone.foreground /\ phone.polled # state
  /\ world.records => Cardinality(saving) < MaxSaving
  /\ saving' = IF world.records
               THEN saving \cup {[state |-> state, stage |-> "mark", found |-> <<>>]} ELSE saving
  /\ phone' = p
  /\ IF p.shot = phone.shot THEN UNCHANGED <<calls, stream>>
     ELSE calls' = Aborted /\ stream' = Cancelled
  /\ UNCHANGED <<machine, store, world>>
(* loadTrace answers with the shot's newest trace, whatever boot it is of, and *)
(* caches what it has read.                                                    *)
LoadTrace ==
  /\ ~phone.ready
  /\ LET boot == store.newest[phone.shot]
         key == <<boot, phone.shot>>
         p == [phone EXCEPT !.ready = TRUE]
     IN IF boot = 0 THEN EnsureConnected([p EXCEPT !.trace = NoTrace], calls) /\ UNCHANGED store
        ELSE /\ EnsureConnected(
                  [p EXCEPT !.trace = [key |-> key, samples |-> Stored(key), whole |-> FALSE],
                            !.cursor = IF Stored(key) = {} THEN @
                                       ELSE [boot |-> boot, id |-> phone.shot,
                                             after |-> Latest(Stored(key))]], calls)
             /\ store' = [store EXCEPT !.traces[key].cache = Stored(key)]
  /\ UNCHANGED <<machine, stream, saving, world>>
Foreground ==
  /\ ~phone.foreground
  /\ LET p == [phone EXCEPT !.foreground = TRUE]
     IN IF p.ready THEN Connects(p, calls) ELSE phone' = p /\ UNCHANGED calls
  /\ UNCHANGED <<machine, stream, saving, store, world>>
Background ==
  /\ phone.foreground /\ May("stops")
  /\ phone' = [phone EXCEPT !.foreground = FALSE, !.retry = FALSE,
                           !.cut = @ \/ (~phone.armed /\ Alive # {})]
  /\ calls' = Superseded(Aborted) /\ stream' = Cancelled
  /\ UNCHANGED <<machine, saving, store>>

Becomes(c, d) == calls' = (calls \ {c}) \cup {d}
(* The reader takes the pages that have come as one chunk, in order. *)
Read ==
  /\ \E c \in calls : /\ Reading(c) /\ c.stage = "reading" /\ c.chunk = <<>> /\ c.pipe # <<>>
                      /\ \E n \in 1..MaxSamples :
                           /\ n <= Len(c.pipe)
                           /\ Becomes(c, [c EXCEPT !.chunk = SubSeq(c.pipe, 1, n),
                                                   !.pipe = SubSeq(c.pipe, n + 1, Len(c.pipe))])
  /\ UNCHANGED <<machine, stream, phone, saving, store, world>>

(* mergeExtractionTracePage: of the same trace, what is not newer than the page   *)
(* knows of; it is partial when it has a gap or the page was not asked for.       *)
Merge(trace, page) ==
  LET earlier == IF trace.key # Key(page) THEN {} ELSE {n \in trace.samples : n <= page.latest}
      samples == earlier \cup (page.first..page.last)
      gapless == \A n \in Min(samples)..Max(samples) : n \in samples
  IN [key |-> Key(page), samples |-> samples, whole |-> Terminal(page) /\ page.continuity # "reset" /\ gapless]
OnPageAcknowledges ==                  \* mutant: a page is acknowledged before it is stored
  /\ \E c \in calls :
       /\ c.stage = "reading" /\ c.chunk # <<>>
       /\ IF ~c.current THEN Becomes(c, [c EXCEPT !.chunk = <<>>]) /\ UNCHANGED phone
          ELSE LET merged == Merge(phone.trace, Head(c.chunk)) IN
               /\ phone' = [phone EXCEPT !.trace = merged, !.cursor = After(Head(c.chunk))]
               /\ Becomes(c, [c EXCEPT !.stage = "commit", !.whole = merged.whole])
  /\ UNCHANGED <<machine, stream, saving, store, world>>
(* onPage up to its first await; of an ended generation every page is dropped. *)
OnPage ==
  /\ \E c \in calls :
       /\ c.stage = "reading" /\ c.chunk # <<>>
       /\ IF ~c.current THEN Becomes(c, [c EXCEPT !.chunk = <<>>]) /\ UNCHANGED phone
          ELSE LET merged == Merge(phone.trace, Head(c.chunk)) IN
               /\ phone' = [phone EXCEPT !.trace = merged]
               /\ Becomes(c, [c EXCEPT !.stage = "commit", !.whole = merged.whole])
  /\ UNCHANGED <<machine, stream, saving, store, world>>
(* commitExtractionTracePage: the page is merged into the cached trace, else the  *)
(* stored one; a transaction removes what is newer than the result and what other *)
(* boots have of the shot's number, and writes the samples from the page's first. *)
Known(key) == IF Cached(key) # {} THEN Cached(key) ELSE Stored(key)
Committed(page, current) ==
  LET key == Key(page)
      trace == Merge([key |-> key, samples |-> Known(key)], page)
      stored == {n \in Stored(key) : \E m \in trace.samples : n <= m}
                \cup {n \in trace.samples : n >= page.first}
      others == {k \in Keys : k # key /\ k[2] = page.id}
      late == IF current THEN {} ELSE {key} \X (Stored(key) \ stored)         \* history
  IN [trace |-> trace,
      store |-> [store EXCEPT !.newest[page.id] = page.boot,
                   !.removed = @ \cup late \cup UNION {Removed(k) : k \in others},
                   !.traces = [k \in Keys |->
                      IF k = key THEN [samples |-> stored, cache |-> trace.samples]
                      ELSE IF k \in others THEN [@[k] EXCEPT !.samples = {}] ELSE @[k]]]]
Acknowledged(p, c, page) ==
  IF ~c.current THEN p
  ELSE [p EXCEPT !.cursor = After(page), !.armed = @ /\ ~Terminal(page),
                 !.cut = @ \/ (Terminal(page) /\ c.aborted)]
Done(c) == [c EXCEPT !.stage = "reading", !.chunk = Tail(@)]
Commit ==
  /\ \E c \in calls :
       LET page == Head(c.chunk)
           done == Committed(page, c.current)
           p == [phone EXCEPT !.trace = done.trace] IN
       /\ c.stage = "commit"
       /\ store' = done.store
       /\ IF Terminal(page) THEN phone' = p /\ Becomes(c, [c EXCEPT !.stage = "select"])
          ELSE phone' = Acknowledged(p, c, page) /\ Becomes(c, Done(c))
  /\ UNCHANGED <<machine, stream, saving, world>>

(* append reads which record it replaces, then replaces it in a transaction: its  *)
(* own, else the pending one of the shot; to insert a key that is there fails.    *)
FoundAnyBoot(key) ==                   \* mutant: a shot is looked up by its identifier alone
  LET same == {k \in RecordKeys : k[2] = key[2] /\ store.records[k] # "none"}
  IN IF same = {} THEN <<>> ELSE CHOOSE k \in same : \A l \in same : k[1] >= l[1]
Found(key) ==
  LET pending == <<0, key[2]>>
  IN IF store.records[key] # "none" THEN key
     ELSE IF store.records[pending] # "none" THEN pending ELSE <<>>
Conflicts(key, found) == store.records[key] # "none" /\ found # key
Appended(key, found, status) ==
  [store EXCEPT !.records = [k \in RecordKeys |->
      IF k = key THEN status ELSE IF k = found THEN "none" ELSE @[k]]]
SelectRecord ==
  /\ \E c \in calls : /\ c.stage = "select"
                      /\ Becomes(c, [c EXCEPT !.stage = "write", !.found = Found(Key(Head(c.chunk)))])
  /\ UNCHANGED <<machine, stream, phone, saving, store, world>>
WriteRecord ==
  /\ \E c \in calls :
       LET page == Head(c.chunk) IN
       /\ c.stage = "write" /\ ~Conflicts(Key(page), c.found)
       /\ store' = Appended(Key(page), c.found, IF c.whole THEN "complete" ELSE "incomplete")
       /\ phone' = Acknowledged(phone, c, page)
       /\ Becomes(c, [Done(c) EXCEPT !.found = <<>>])
  /\ UNCHANGED <<machine, stream, saving, world>>

(* A call's end: one that was cancelled is not retried, any other while it is     *)
(* current and the session armed.                                                 *)
RetryScheduled(c, lost) ==
  phone' = [phone EXCEPT !.retry = @ \/ (c.current /\ phone.armed),
                         !.cut = @ \/ (c.current /\ ~phone.armed /\ lost)]
Ends ==
  /\ \E c \in calls :
       /\ c.stage = "reading" /\ c.chunk = <<>>
       /\ calls' = calls \ {c}
       /\ \/ c.aborted /\ UNCHANGED phone
          \/ ~c.aborted /\ c.pipe = <<>> /\ (c.over \/ c.failed) /\ RetryScheduled(c, c.failed)
  /\ UNCHANGED <<machine, stream, saving, store, world>>
(* The database refuses: the page's error ends the call, and only its reader's     *)
(* lock is released, so the machine goes on with a stream that nobody reads.       *)
Breaks(c) ==
  /\ calls' = calls \ {c}
  /\ IF c.aborted THEN UNCHANGED <<phone, stream>>
     ELSE /\ RetryScheduled(c, TRUE)
          /\ stream' = [stream EXCEPT !.leaked = stream.open /\ ~stream.cancelled]
  /\ UNCHANGED <<machine, saving, store>>
StoreFails ==
  May("failures") /\ \E c \in calls : c.stage \in {"commit", "select", "write"} /\ Breaks(c)
InsertFails ==
  /\ \E c \in calls :
       c.stage = "write" /\ Conflicts(Key(Head(c.chunk)), c.found) /\ Breaks(c)
  /\ UNCHANGED world
Retry ==
  /\ phone.retry
  /\ Connects([phone EXCEPT !.retry = FALSE], calls)
  /\ UNCHANGED <<machine, stream, saving, store, world>>

-----------------------------------------------------------------------------
(* What a poll has found is recorded.                                           *)

(* markUnfinishedIncomplete: whatever else is still marked as running is over. *)
Mark ==
  /\ \E r \in saving :
       /\ r.stage = "mark"
       /\ store' = [store EXCEPT !.records = [k \in RecordKeys |->
                      IF @[k] = "running" /\ k[2] # r.state[1] THEN "incomplete" ELSE @[k]]]
       /\ saving' = (saving \ {r}) \cup
                    (IF r.state[1] = 0 THEN {} ELSE {[r EXCEPT !.stage = "select"]})
  /\ UNCHANGED <<machine, stream, phone, calls, world>>
SelectPending ==
  /\ \E r \in saving :
       /\ r.stage = "select"
       /\ saving' = (saving \ {r}) \cup
                    {[r EXCEPT !.stage = "write", !.found = Found(<<0, r.state[1]>>)]}
  /\ UNCHANGED <<machine, stream, phone, calls, store, world>>
WritePending ==
  /\ \E r \in saving :
       LET key == <<0, r.state[1]>> IN
       /\ r.stage = "write"
       /\ saving' = saving \ {r}
       /\ store' = IF Conflicts(key, r.found) THEN store
                   ELSE Appended(key, r.found,
                                 IF r.state[2] = "running" THEN "running" ELSE "incomplete")
  /\ UNCHANGED <<machine, stream, phone, calls, world>>

(* The app is killed and opened again, in one step; the database stays, its cache not. *)
Restart ==
  /\ May("kills")
  /\ phone' = NewPhone /\ calls' = {} /\ saving' = {}
  /\ stream' = [stream EXCEPT !.cancelled = @ \/ stream.open]
  /\ store' = [store EXCEPT !.traces = [k \in Keys |-> [@[k] EXCEPT !.cache = {}]]]
  /\ UNCHANGED machine
(* clearDevice: the history is cleared by the user, at any time. *)
Clear ==
  /\ May("clears")
  /\ store' = [traces |-> Dropped, newest |-> [i \in Shots |-> 0], records |-> [k \in RecordKeys |-> "none"],
               removed |-> store.removed \cup UNION {Removed(k) : k \in Keys}]
  /\ UNCHANGED <<machine, stream, phone, calls, saving>>

Session == LoadTrace \/ Read \/ OnPage \/ Commit \/ SelectRecord \/ WriteRecord
           \/ Ends \/ InsertFails \/ Retry
Next ==
  \/ StartShot \/ Capture \/ StopShot \/ Settled \/ PowerCycle \/ Serve \/ Release \/ Drop
  \/ Poll \/ LoadTrace \/ Foreground \/ Background \/ Read \/ OnPage \/ Commit \/ SelectRecord
  \/ WriteRecord \/ Ends \/ StoreFails \/ InsertFails \/ Retry \/ Mark \/ SelectPending
  \/ WritePending \/ Restart \/ Clear
Spec == Init /\ [][Next]_vars
FairSpec ==
  /\ Spec /\ WF_vars(StopShot \/ Settled) /\ WF_vars(Serve) /\ WF_vars(Release)
  /\ WF_vars(Poll) /\ WF_vars(Session)

-----------------------------------------------------------------------------
(* The stream is resumed after what is stored: every sample up to the cursor is *)
(* in the database, or was until the user cleared it, another boot's shot of the *)
(* same number took its place, or the late commit of a superseded call trimmed   *)
(* the trace to the older page it still had; what the current call commits       *)
(* loses nothing, whenever the app goes away, a connection drops or the          *)
(* database refuses.                                                             *)
Accounted(key, n) == n \in Stored(key) \/ <<key, n>> \in store.removed
CursorIsStored ==
  LET key == <<phone.cursor.boot, phone.cursor.id>>
  IN key \in Keys => \A n \in 1..phone.cursor.after : Accounted(key, n)

(* What the stream has recorded complete is not taken back by what a poll said of  *)
(* the shot, however late that is written and however the two writers interleave;   *)
(* a step that moves no call and does not clear is not the stream's nor the user's. *)
CompleteStays ==
  [][calls' = calls /\ world'.clears = world.clears =>
       \A k \in RecordKeys : store.records[k] = "complete" => store'.records[k] = "complete"]_vars

(* The observed shot's trace becomes whole, through lost connections, a busy       *)
(* machine, background and new shots, unless the machine is lost to the session (by  *)
(* a leaked stream, or a power cycle, after which a shot of the same number is taken *)
(* for the old one), or cut: a terminal page disarms the session, and no call is    *)
(* left to bring the rest.  That this happens is what Reconnects shows.             *)
Watching ==
  /\ phone.foreground /\ phone.shot = machine.id
  /\ ~phone.armed => phone.cursor.boot = machine.boot
  /\ ~stream.leaked /\ (stream.open => stream.heard)
Whole ==
  /\ machine.status = "terminal"
  /\ \A n \in 1..machine.latest : Accounted(<<machine.boot, machine.id>>, n)
(* What the documentation says of it: the session reconnects after transient failures. *)
Reconnects == []<>(~Watching \/ Whole)

(* What is sent fits the schema that the phone parses it with, and tells the shot *)
(* once and in order: a page goes on where the one before it ended, over page     *)
(* boundaries, new samples and a stream resumed at a cursor, unless it begins     *)
(* another shot.                                                                  *)
Schema == INSTANCE Contract WITH
  PageLimit <- PageSize, BrewRange <- {}, SteamRange <- {}, OffsetRange <- {},
  CandidateRange <- {}, Reference <- 0, MaxTimeout <- 0, MaxCompensation <- 0, Lease <- 0,
  PumpLimit <- 0, Stabilization <- 0, ShotLimit <- 0, Manual <- Null
PagesFit ==
  \A c \in calls :
    LET sent == c.chunk \o c.pipe IN
    /\ \A i \in DOMAIN sent : Schema!TelemetryPage(AsSent(sent[i]))
    /\ \A i \in 2..Len(sent) :
         IF Key(sent[i]) = Key(sent[i - 1]) THEN sent[i].first = sent[i - 1].last + 1
         ELSE sent[i].continuity = "reset" /\ sent[i].first = 1
=============================================================================
