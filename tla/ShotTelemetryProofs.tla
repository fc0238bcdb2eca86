------------------------ MODULE ShotTelemetryProofs ------------------------
(* For any page size, number of boots, shots and samples, and for any worlds of   *)
(* failures: the cursor a stream is resumed at has everything before it stored,    *)
(* the pages a call receives fit the schema and tell the shot once and in order,   *)
(* and a record that is complete stays so.                                        *)
(*                                                                               *)
(* The argument follows the pages.  The machine cuts them so that each goes on     *)
(* where the one before it ended (PagesFollow), a subscribed stream goes on where  *)
(* the pages of its one reader end (Resumes), and a call commits its pages in      *)
(* order, each after everything before it is accounted for (InStore).  The cursor  *)
(* is set to a page that has just been stored (AcknowledgedKeeps), and what is     *)
(* accounted for stays so (Grows): samples leave the database by a clearing, for   *)
(* another boot's shot, or by the late commit of a call whose generation has ended. *)
(* That the commit of a current call removes none of its shot, though it deletes   *)
(* what is newer than its page, is Ordered: the machine tells its pages in order,   *)
(* what the database has came of pages, and a later page goes to the current call   *)
(* only, so that nothing stored is newer than what that call has still to commit.   *)
(* A call whose generation has ended may commit late; its invariant therefore does *)
(* not speak of the phone's cursor or boot.                                       *)
(*                                                                               *)
(* What each step makes of a call, of the database and of the pending records is   *)
(* proved apart, then put together step by step (NextCore).                       *)
EXTENDS ShotTelemetry, SequenceTheorems, WellFoundedInduction, NaturalsInduction, TLAPS

(* What the variables hold. *)
TelemetryStatuses == {"running", "settling", "terminal"}
Pending == {"commit", "select", "write"}
PageSet ==
  {g \in [boot : Boots, id : Shots, first : Nat, last : Nat, latest : Nat,
          status : TelemetryStatuses, continuity : {"initial", "continuous", "reset"}] :
     1 <= g.first /\ g.first <= g.last /\ g.last <= g.latest /\ g.last - g.first < PageSize}
Cursors == [boot : 0..MaxBoots, id : 0..MaxShots, after : Nat]
CallSet ==
  [current : BOOLEAN, aborted : BOOLEAN, stage : {"asked", "reading"} \cup Pending,
   cursor : Cursors, pipe : Seq(PageSet), over : BOOLEAN, failed : BOOLEAN,
   chunk : Seq(PageSet), whole : BOOLEAN, found : RecordKeys \cup {<<>>}]
RecordStatuses == {"none", "running", "incomplete", "complete"}
(* What the machine tells of its shot: an idle one has not begun any. *)
Told(m) ==
  /\ m \in [boot : Boots, id : 0..MaxShots, latest : Nat, status : TelemetryStatuses \cup {"idle"}]
  /\ IF m.status = "idle" THEN m.latest = 0 ELSE m.id \in Shots
StreamSet == [open : BOOLEAN, heard : BOOLEAN, cursor : Cursors, cancelled : BOOLEAN, leaked : BOOLEAN]
PhoneFields ==
  {"foreground", "polled", "shot", "armed", "ready", "cursor", "trace", "retry", "cut"}
(* The phone's trace is shown only, and nothing depends on it. *)
PhoneTyped(p) ==
  /\ DOMAIN p = PhoneFields /\ p.cursor \in Cursors
  /\ p.foreground \in BOOLEAN /\ p.retry \in BOOLEAN
  /\ p.shot \in 0..MaxShots /\ (~p.ready => p.shot \in Shots)
StoreSet ==
  [traces : [Keys -> [samples : SUBSET Nat, cache : SUBSET Nat]],
   newest : [Shots -> 0..MaxBoots], records : [RecordKeys -> RecordStatuses],
   removed : SUBSET (Keys \X Nat)]
StoreTyped == store \in StoreSet
SavingTyped ==
  saving \subseteq [state : (0..MaxShots) \X {"running", "idle"},
                    stage : {"mark", "select", "write"}, found : RecordKeys \cup {<<>>}]
WorldTyped ==
  world \in [shots : Nat, samples : Nat, records : BOOLEAN, cycles : Nat, drops : Nat,
             stops : Nat, kills : Nat, failures : Nat, clears : Nat]
-----------------------------------------------------------------------------
(* The pages of a call in the order the reader meets them: those of its chunk,   *)
(* then those still in the response.                                             *)
Sent(c) == c.chunk \o c.pipe
Follows(g, h) ==
  IF Key(h) = Key(g) THEN h.first = g.last + 1 ELSE h.continuity = "reset" /\ h.first = 1
Fits(s) == \A i \in 2..Len(s) : Follows(s[i - 1], s[i])
(* Everything before a page, or up to a cursor, is accounted for. *)
UpTo(key, n) == \A i \in 1..n : Accounted(key, i)
Covered(cursor) == <<cursor.boot, cursor.id>> \in Keys => UpTo(<<cursor.boot, cursor.id>>, cursor.after)

(* A call, whatever became of it: its pages go on where the last one ended. *)
Shaped(c) ==
  /\ Fits(Sent(c))
  /\ c.stage = "asked" => c.chunk = <<>> /\ c.pipe = <<>> /\ ~c.failed /\ ~c.over
  /\ c.stage \in Pending => c.chunk # <<>>
  /\ ~c.aborted => c.current
(* A call has the pages up to what it will commit next accounted for, also when   *)
(* its generation has ended while a commit was under way.                         *)
InStore(c) ==
  /\ c.stage = "asked" => Covered(c.cursor)
  /\ (c.current \/ c.stage \in Pending) /\ Sent(c) # <<>> =>
       UpTo(Key(Sent(c)[1]), Sent(c)[1].first - 1)
  /\ c.stage \in {"select", "write"} => UpTo(Key(c.chunk[1]), c.chunk[1].last)
CallOK(c) == c \in CallSet /\ Shaped(c) /\ InStore(c)
CallsOK == \A c \in calls : CallOK(c)
(* One call at most is not cancelled, none while a retry is due or in background. *)
OneAlive ==
  /\ \A c, d \in calls : ~c.aborted /\ ~d.aborted => c = d
  /\ phone.retry \/ ~phone.foreground => \A c \in calls : c.aborted
  /\ ~phone.foreground => ~phone.retry
(* A stream that is subscribed goes on where its reader's pages end: the page sent *)
(* next is the one the reader can commit next.                                    *)
Subscribed == stream.open /\ ~stream.cancelled /\ ~stream.leaked
Ended(s) == After(s[Len(s)])
Continues(c) ==
  IF Sent(c) = <<>> THEN Covered(stream.cursor) ELSE stream.cursor = Ended(Sent(c))
Resumes ==
  Subscribed =>
    /\ \E c \in calls : Reading(c) /\ ~c.failed /\ ~c.over
    /\ \A c \in calls : Reading(c) => Continues(c)
(* All up to a stored or cached sample is accounted for, a stored trace has an end, *)
(* and what is cached of a trace is not less than what is stored.                   *)
StoreGapless ==
  \A key \in Keys :
    /\ \A n \in Stored(key) \cup Cached(key) : UpTo(key, n)
    /\ \E k \in Nat : Stored(key) \subseteq 0..k
    /\ Cached(key) = {} \/ Stored(key) \subseteq Cached(key)
(* A record that a poll writes stands for a shot of no boot yet: never complete. *)
PendingNotComplete ==
  /\ \A i \in Shots : store.records[<<0, i>>] # "complete"
  /\ \A r \in saving : /\ r.stage # "mark" => r.state[1] \in Shots
                       /\ r.stage = "write" => r.found \in {<<>>, <<0, r.state[1]>>}

-----------------------------------------------------------------------------
PhoneInv == PhoneTyped(phone) /\ Covered(phone.cursor)
StoreInv == StoreTyped /\ StoreGapless
RecordsInv == SavingTyped /\ PendingNotComplete
CallsInv == CallsOK /\ OneAlive /\ Resumes
Core ==
  Told(machine) /\ stream \in StreamSet /\ PhoneInv /\ StoreInv /\ RecordsInv /\ CallsInv
(* The pages in the order the machine has told them: none is newer than what the    *)
(* machine tells now, nor is anything stored; the pages of the current call are     *)
(* not older than those before them, those of ended calls and what is stored.       *)
Older(boot, id, latest, m) ==
  boot < m.boot \/ (boot = m.boot /\ (id < m.id \/ (id = m.id /\ latest <= m.latest)))
SentOf(c) == 1..Len(Sent(c))
PagesTold == \A c \in calls : \A i \in SentOf(c) :
  Older(Sent(c)[i].boot, Sent(c)[i].id, Sent(c)[i].latest, machine)
StoredTold == \A key \in Keys : \A n \in Stored(key) : Older(key[1], key[2], n, machine)
OneCurrent == \A c, d \in calls : c.current /\ d.current => c = d
NotNewer(g, h) == Key(g) = Key(h) => g.latest <= h.latest
PagesInOrder == \A c, d \in calls : c.current =>
  \A i \in SentOf(c) : \A j \in SentOf(d) : d # c \/ j <= i => NotNewer(Sent(d)[j], Sent(c)[i])
(* Nothing stored of the page's shot is newer than the page. *)
UpToDate(g) == \A n \in Stored(Key(g)) : n <= g.latest
AllUpToDate == \A c \in calls : c.current => \A i \in SentOf(c) : UpToDate(Sent(c)[i])
Ordered == PagesTold /\ StoredTold /\ OneCurrent /\ PagesInOrder /\ AllUpToDate
IInv == Core /\ Ordered /\ WorldTyped
-----------------------------------------------------------------------------
(* Pages and sequences of them.                                                 *)

LEMMA PageFields ==
  ASSUME NEW g \in PageSet
  PROVE  /\ g.boot \in Boots /\ g.id \in Shots /\ g.first \in Nat /\ g.last \in Nat /\ g.latest \in Nat
         /\ g.status \in TelemetryStatuses /\ g.continuity \in {"initial", "continuous", "reset"}
         /\ 1 <= g.first /\ g.first <= g.last /\ g.last <= g.latest /\ g.last - g.first < PageSize
         /\ Key(g) \in Keys /\ After(g) \in Cursors
         /\ <<After(g).boot, After(g).id>> = Key(g) /\ After(g).after = g.last
  BY BoundsAssumption DEF PageSet, Key, After, Keys, Cursors, Boots, Shots

LEMMA MinOfTwo ==
  ASSUME NEW a \in Int, NEW b \in Int
  PROVE  Min({a, b}) = IF a <= b THEN a ELSE b
  BY DEF Min

(* A bounded set of numbers has a greatest one, as the distances from the bound *)
(* have a least.                                                                *)
LEMMA BoundedHasMax ==
  ASSUME NEW k \in Nat, NEW T, T \subseteq 0..k, T # {}
  PROVE  \E m \in T : \A n \in T : n <= m
  <1> DEFINE R == {ss \in Nat \X Nat : ss[1] < ss[2]}
             D == {j \in 0..k : k - j \in T}
  <1>1. IsWellFoundedOn(R, Nat)
    BY NatLessThanWellFounded DEF OpToRel
  <1>2. D \subseteq Nat /\ D # {}
    <2>1. PICK n \in T : TRUE
      OBVIOUS
    <2>2. k - n \in D
      BY <2>1
    <2>3. QED
      BY <2>2
  <1>3. PICK j \in D : \A i \in D : <<i, j>> \notin R
    <2> HIDE DEF R, D
    <2>1. QED
      BY <1>1, <1>2, WFMin
  <1>4. ASSUME NEW i \in D PROVE j <= i
    <2>1. i \in Nat /\ j \in Nat /\ ~(i < j)
      BY <1>2, <1>3
    <2>2. QED
      BY <2>1
  <1>5. k - j \in T /\ \A n \in T : k - n \in D
    OBVIOUS
  <1>6. ASSUME NEW n \in T PROVE n <= k - j
    <2>1. j <= k - n /\ n \in Nat /\ j \in Nat
      BY <1>2, <1>4, <1>5
    <2>2. QED
      BY <2>1
  <1>7. QED
    BY <1>5, <1>6

LEMMA HeadIsFirst ==
  ASSUME NEW S, NEW s \in Seq(S), s # <<>>
  PROVE  Head(s) = s[1] /\ s[1] \in S /\ Len(s) \in Nat \ {0} /\ s[Len(s)] \in S
  OBVIOUS

LEMMA TailFits ==
  ASSUME NEW s \in Seq(PageSet), s # <<>>, Fits(s)
  PROVE  Tail(s) \in Seq(PageSet) /\ Fits(Tail(s))
  <1>1. Len(Tail(s)) = Len(s) - 1 /\ \A i \in 1..Len(Tail(s)) : Tail(s)[i] = s[i + 1]
    BY HeadTailProperties
  <1>2. Tail(s) \in Seq(PageSet) /\ Len(s) \in Nat
    BY HeadTailProperties, LenProperties
  <1>3. Fits(Tail(s))
    <2> SUFFICES ASSUME NEW i \in 2..Len(Tail(s))
                 PROVE  Follows(Tail(s)[i - 1], Tail(s)[i])
      BY DEF Fits
    <2>1. Tail(s)[i - 1] = s[i] /\ Tail(s)[i] = s[i + 1] /\ i + 1 \in 2..Len(s)
      BY <1>1, <1>2
    <2>2. Follows(s[(i + 1) - 1], s[i + 1])
      BY <2>1 DEF Fits
    <2>3. QED
      BY <2>1, <2>2
  <1>4. QED
    BY <1>2, <1>3

LEMMA PartsFit ==
  ASSUME NEW s \in Seq(PageSet), NEW t \in Seq(PageSet), Fits(s \o t)
  PROVE  Fits(s) /\ Fits(t)
  <1>1. /\ Len(s) \in Nat /\ Len(t) \in Nat /\ Len(s \o t) = Len(s) + Len(t)
        /\ \A i \in 1..Len(s) + Len(t) : (s \o t)[i] = IF i <= Len(s) THEN s[i] ELSE t[i - Len(s)]
    BY ConcatProperties, LenProperties
  <1>2. Fits(s)
    <2> SUFFICES ASSUME NEW i \in 2..Len(s)
                 PROVE  Follows(s[i - 1], s[i])
      BY DEF Fits
    <2>1. (s \o t)[i - 1] = s[i - 1] /\ (s \o t)[i] = s[i] /\ i \in 2..Len(s \o t)
      BY <1>1
    <2>2. QED
      BY <2>1 DEF Fits
  <1>3. Fits(t)
    <2> SUFFICES ASSUME NEW i \in 2..Len(t)
                 PROVE  Follows(t[i - 1], t[i])
      BY DEF Fits
    <2> DEFINE j == i + Len(s)
    <2>1. (s \o t)[j - 1] = t[i - 1] /\ (s \o t)[j] = t[i] /\ j \in 2..Len(s \o t)
      BY <1>1
    <2>2. Follows((s \o t)[j - 1], (s \o t)[j])
      BY <2>1 DEF Fits
    <2>3. QED
      BY <2>1, <2>2
  <1>4. QED
    BY <1>2, <1>3

LEMMA JoinFits ==
  ASSUME NEW s \in Seq(PageSet), NEW t \in Seq(PageSet), Fits(s), Fits(t),
         s # <<>> /\ t # <<>> => Follows(s[Len(s)], t[1])
  PROVE  Fits(s \o t)
  <1>1. /\ Len(s) \in Nat /\ Len(t) \in Nat /\ Len(s \o t) = Len(s) + Len(t)
        /\ \A i \in 1..Len(s) + Len(t) : (s \o t)[i] = IF i <= Len(s) THEN s[i] ELSE t[i - Len(s)]
    BY ConcatProperties, LenProperties
  <1> SUFFICES ASSUME NEW i \in 2..Len(s) + Len(t)
               PROVE  Follows((s \o t)[i - 1], (s \o t)[i])
    BY <1>1 DEF Fits
  <1>2. CASE i <= Len(s)
    <2>1. (s \o t)[i - 1] = s[i - 1] /\ (s \o t)[i] = s[i] /\ i \in 2..Len(s)
      BY <1>1, <1>2
    <2>2. QED
      BY <2>1 DEF Fits
  <1>3. CASE i = Len(s) + 1
    <2>1. (s \o t)[i - 1] = s[Len(s)] /\ (s \o t)[i] = t[1] /\ s # <<>> /\ t # <<>>
      BY <1>1, <1>3
    <2>2. QED
      BY <2>1
  <1>4. CASE i > Len(s) + 1
    <2> DEFINE j == i - Len(s)
    <2>1. (s \o t)[i - 1] = t[j - 1] /\ (s \o t)[i] = t[j] /\ j \in 2..Len(t)
      BY <1>1, <1>4
    <2>2. Follows(t[j - 1], t[j])
      BY <2>1 DEF Fits
    <2>3. QED
      BY <2>1, <2>2
  <1>5. QED
    BY <1>1, <1>2, <1>3, <1>4

LEMMA EndsOfJoin ==
  ASSUME NEW s \in Seq(PageSet), NEW t \in Seq(PageSet)
  PROVE  /\ s \o t \in Seq(PageSet) /\ (s \o t = <<>> <=> s = <<>> /\ t = <<>>)
         /\ s # <<>> => (s \o t)[1] = s[1] /\ s \o t # <<>>
         /\ s = <<>> => s \o t = t
         /\ t = <<>> => s \o t = s
         /\ t # <<>> => (s \o t)[Len(s \o t)] = t[Len(t)] /\ s \o t # <<>>
  <1>1. /\ Len(s) \in Nat /\ Len(t) \in Nat /\ Len(s \o t) = Len(s) + Len(t) /\ s \o t \in Seq(PageSet)
        /\ \A i \in 1..Len(s) + Len(t) : (s \o t)[i] = IF i <= Len(s) THEN s[i] ELSE t[i - Len(s)]
    BY ConcatProperties, LenProperties
  <1>2. (s = <<>> <=> Len(s) = 0) /\ (t = <<>> <=> Len(t) = 0)
    BY EmptySeq
  <1>3. (s \o t = <<>> <=> s = <<>> /\ t = <<>>) /\ (s = <<>> => s \o t = t) /\ (t = <<>> => s \o t = s)
    BY ConcatEqualIffEmpty, ConcatEmptySeq
  <1>4. s # <<>> => (s \o t)[1] = s[1] /\ s \o t # <<>>
    BY <1>1, <1>2, <1>3
  <1>5. t # <<>> => (s \o t)[Len(s \o t)] = t[Len(t)] /\ s \o t # <<>>
    BY <1>1, <1>2, <1>3
  <1>6. QED
    BY <1>1, <1>3, <1>4, <1>5

LEMMA Regrouped ==
  ASSUME NEW s \in Seq(PageSet), NEW t \in Seq(PageSet), NEW u \in Seq(PageSet)
  PROVE  s \o (t \o u) = (s \o t) \o u
  <1> DEFINE l == s \o (t \o u)
             r == (s \o t) \o u
  <1>1. /\ Len(s) \in Nat /\ Len(t) \in Nat /\ Len(u) \in Nat
        /\ t \o u \in Seq(PageSet) /\ Len(t \o u) = Len(t) + Len(u)
        /\ \A i \in 1..Len(t) + Len(u) : (t \o u)[i] = IF i <= Len(t) THEN t[i] ELSE u[i - Len(t)]
        /\ s \o t \in Seq(PageSet) /\ Len(s \o t) = Len(s) + Len(t)
        /\ \A i \in 1..Len(s) + Len(t) : (s \o t)[i] = IF i <= Len(s) THEN s[i] ELSE t[i - Len(s)]
    BY ConcatProperties, LenProperties
  <1>2. /\ l \in Seq(PageSet) /\ Len(l) = Len(s) + Len(t) + Len(u)
        /\ \A i \in 1..Len(l) : l[i] = IF i <= Len(s) THEN s[i] ELSE (t \o u)[i - Len(s)]
    BY <1>1, ConcatProperties
  <1>3. /\ r \in Seq(PageSet) /\ Len(r) = Len(s) + Len(t) + Len(u)
        /\ \A i \in 1..Len(r) : r[i] = IF i <= Len(s) + Len(t) THEN (s \o t)[i]
                                       ELSE u[i - (Len(s) + Len(t))]
    BY <1>1, ConcatProperties
  <1> HIDE DEF l, r
  <1>4. ASSUME NEW i \in 1..Len(l) PROVE l[i] = r[i]
    <2>1. i \in Nat \ {0} /\ i <= Len(s) + Len(t) + Len(u) /\ i \in 1..Len(r)
      BY <1>1, <1>2, <1>3
    <2>2. CASE i <= Len(s)
      <3>1. l[i] = s[i] /\ r[i] = (s \o t)[i] /\ i \in 1..Len(s) + Len(t)
        BY <1>1, <1>2, <1>3, <2>1, <2>2
      <3>2. QED
        BY <1>1, <2>2, <3>1
    <2>3. CASE Len(s) < i /\ i <= Len(s) + Len(t)
      <3>1. /\ l[i] = (t \o u)[i - Len(s)] /\ r[i] = (s \o t)[i]
            /\ i \in 1..Len(s) + Len(t) /\ i - Len(s) \in 1..Len(t) + Len(u) /\ i - Len(s) <= Len(t)
        BY <1>1, <1>2, <1>3, <2>1, <2>3
      <3>2. QED
        BY <1>1, <2>3, <3>1
    <2>4. CASE Len(s) + Len(t) < i
      <3>1. /\ l[i] = (t \o u)[i - Len(s)] /\ r[i] = u[i - (Len(s) + Len(t))]
            /\ i - Len(s) \in 1..Len(t) + Len(u) /\ ~(i - Len(s) <= Len(t))
            /\ i - Len(s) - Len(t) = i - (Len(s) + Len(t))
        BY <1>1, <1>2, <1>3, <2>1, <2>4
      <3>2. QED
        BY <1>1, <3>1
    <2>5. QED
      BY <1>1, <2>1, <2>2, <2>3, <2>4
  <1>5. l = r
    <2>1. l \in [1..Len(l) -> PageSet] /\ r \in [1..Len(l) -> PageSet]
      BY <1>2, <1>3, LenProperties
    <2>2. QED
      BY <1>4, <2>1
  <1>6. QED
    BY <1>5 DEF l, r

(* getExtractionTelemetryPage: how many pages there are, and what they hold.     *)
LEMMA PageCount ==
  ASSUME NEW n \in Int, NEW c, c = (n + PageSize - 1) \div PageSize
  PROVE  /\ c \in Int /\ (n <= 0 => c <= 0) /\ (n > 0 => c > 0)
         /\ (c - 1) * PageSize < n /\ n <= c * PageSize
  <1>1. PageSize \in Nat \ {0}
    BY PageAssumption
  <1>2. c \in Int
    BY <1>1
  <1>3. c * PageSize <= n + PageSize - 1 /\ n + PageSize - 1 < c * PageSize + PageSize
    BY <1>1
  <1>4. (c - 1) * PageSize < n /\ n <= c * PageSize
    BY <1>1, <1>2, <1>3
  <1>5. (n <= 0 => c <= 0) /\ (n > 0 => c > 0)
    BY <1>1, <1>2, <1>4
  <1>6. QED
    BY <1>2, <1>4, <1>5

Goes(m, cursor) == cursor = NoCursor \/ (cursor.boot = m.boot /\ cursor.id = m.id)

LEMMA PagesFollow ==
  ASSUME NEW m, Told(m), NEW cursor \in Cursors
  PROVE  LET s == Pages(m, cursor) IN
         /\ s \in Seq(PageSet) /\ Fits(s)
         /\ \A i \in 1..Len(s) : Key(s[i]) = <<m.boot, m.id>> /\ s[i].latest = m.latest
         /\ s # <<>> =>
              IF Goes(m, cursor) THEN s[1].first = cursor.after + 1
              ELSE s[1].first = 1 /\ s[1].continuity = "reset"
  <1> DEFINE fits == Goes(m, cursor)
             after == IF fits THEN cursor.after ELSE 0
             n == m.latest - after
             count == (m.latest - after + PageSize - 1) \div PageSize
             page(i) == [boot |-> m.boot, id |-> m.id, first |-> after + (i - 1) * PageSize + 1,
                         last |-> Min({after + i * PageSize, m.latest}), latest |-> m.latest,
                         status |-> m.status,
                         continuity |-> IF i > 1 THEN "continuous"
                                        ELSE IF cursor = NoCursor THEN "initial"
                                        ELSE IF fits THEN "continuous" ELSE "reset"]
             s == Pages(m, cursor)
  <1>1. s = [i \in 1..count |-> page(i)]
    BY DEF Pages, Goes
  <1>2. /\ after \in Nat /\ m.latest \in Nat /\ n \in Int /\ PageSize \in Nat \ {0}
        /\ m.boot \in Boots /\ m.id \in 0..MaxShots
    BY PageAssumption DEF Told, Cursors
  <1>3. /\ count \in Int /\ (n <= 0 => count <= 0) /\ (n > 0 => count > 0)
        /\ (count - 1) * PageSize < n /\ n <= count * PageSize
    <2>1. count = (n + PageSize - 1) \div PageSize
      BY <1>2
    <2>2. QED
      BY <1>2, <2>1, PageCount
  <1> HIDE DEF after, n, count, s
  <1>4. ASSUME NEW i \in 1..count
        PROVE  /\ page(i) \in PageSet
               /\ i < count => page(i).last = after + i * PageSize
    <2>1. /\ i \in Nat \ {0} /\ i <= count /\ n > 0
          /\ (i - 1) * PageSize \in Nat /\ i * PageSize \in Nat
          /\ i * PageSize = (i - 1) * PageSize + PageSize
      BY <1>2, <1>3
    <2>2. (i - 1) * PageSize <= (count - 1) * PageSize
      BY <1>2, <1>3, <2>1
    <2>3. (i - 1) * PageSize < n
      BY <1>2, <1>3, <2>1, <2>2
    <2>4. page(i).last = IF after + i * PageSize <= m.latest THEN after + i * PageSize ELSE m.latest
      BY <1>2, <2>1, MinOfTwo
    <2>5. n = m.latest - after
      BY DEF n
    <2>6. m.latest > 0
      BY <2>5, <2>1, <1>2
    <2>7. /\ page(i).first \in Nat /\ page(i).last \in Nat /\ 1 <= page(i).first
          /\ page(i).first <= page(i).last /\ page(i).last <= page(i).latest
          /\ page(i).last - page(i).first < PageSize
      BY <2>1, <2>3, <2>4, <2>5, <1>2
    <2>8. page(i) \in PageSet
      <3>1. m.status \in TelemetryStatuses /\ m.id \in Shots
        BY <2>6 DEF Told
      <3>2. QED
        BY <3>1, <2>7, <1>2 DEF PageSet
    <2>9. ASSUME i < count PROVE page(i).last = after + i * PageSize
      <3>1. i * PageSize <= (count - 1) * PageSize
        BY <1>2, <1>3, <2>1, <2>9
      <3>2. after + i * PageSize <= m.latest
        BY <1>2, <1>3, <2>1, <2>5, <3>1
      <3>3. QED
        BY <2>4, <3>2
    <2>10. QED
      BY <2>8, <2>9
  <1>5. CASE count <= 0
    <2>1. 1..count = {}
      BY <1>3, <1>5
    <2>2. s = <<>>
      BY <1>1, <2>1
    <2>3. QED
      BY <2>2 DEF Fits, s
  <1>6. CASE count > 0
    <2>1. count \in Nat
      BY <1>3, <1>6
    <2>2. s \in [1..count -> PageSet]
      BY <1>1, <1>4
    <2>3. s \in Seq(PageSet) /\ Len(s) = count /\ \A i \in 1..Len(s) : s[i] = page(i)
      BY <2>1, <2>2, <1>1
    <2>4. \A i \in 1..Len(s) : Key(s[i]) = <<m.boot, m.id>> /\ s[i].latest = m.latest
      <3>1. \A i \in 1..Len(s) : page(i).boot = m.boot /\ page(i).id = m.id /\ page(i).latest = m.latest
        OBVIOUS
      <3> HIDE DEF page
      <3>2. QED
        BY <2>3, <3>1 DEF Key
    <2>5. Fits(s)
      <3> SUFFICES ASSUME NEW i \in 2..Len(s)
                   PROVE  Follows(s[i - 1], s[i])
        BY DEF Fits
      <3>1. s[i] = page(i) /\ s[i - 1] = page(i - 1) /\ i - 1 \in 1..count /\ i - 1 < count
        BY <2>1, <2>3
      <3>2. page(i - 1).last = after + (i - 1) * PageSize
        BY <3>1, <1>4
      <3>3. i \in 1..Len(s) /\ i - 1 \in 1..Len(s)
        BY <2>1, <2>3, <3>1
      <3> HIDE DEF page
      <3>4. Key(s[i]) = Key(s[i - 1])
        BY <2>4, <3>3
      <3>5. QED
        BY <3>1, <3>2, <3>4 DEF Follows, page
    <2>6. 1 \in 1..Len(s) /\ s # <<>> /\ s[1] = page(1)
      BY <2>1, <2>3, <1>6
    <2>7. page(1).first = after + 1
      BY <1>2
    <2>8. after = IF Goes(m, cursor) THEN cursor.after ELSE 0
      BY DEF after
    <2>9. ~Goes(m, cursor) => page(1).continuity = "reset"
      BY DEF Goes
    <2>10. after = 0 => page(1).first = 1
      BY <2>7
    <2>11. QED
      BY <2>3, <2>4, <2>5, <2>6, <2>7, <2>8, <2>9, <2>10 DEF s
  <1>7. QED
    BY <1>3, <1>5, <1>6

(* A page of the model is a page of the schema. *)
LEMMA PageIsValid ==
  ASSUME NEW g \in PageSet
  PROVE  Schema!TelemetryPage(AsSent(g))
  <1> DEFINE p == AsSent(g)
             n == g.last - g.first + 1
  <1>1. n \in Nat \ {0} /\ n <= PageSize /\ g.first \in Nat /\ g.last \in Nat /\ g.latest \in Nat
    BY PageFields, PageAssumption
  <1>2. p.samples = [i \in 1..n |-> g.first + i - 1]
    BY DEF AsSent
  <1>3. p.samples \in Seq(Int) /\ Len(p.samples) = n /\ \A i \in 1..n : p.samples[i] = g.first + i - 1
    <2>1. p.samples \in [1..n -> Int]
      BY <1>1, <1>2
    <2>2. QED
      BY <1>1, <1>2, <2>1
  <1> DEFINE samples == p.samples
  <1> HIDE DEF samples
  <1>4. /\ samples # <<>> /\ Len(samples) <= PageSize /\ Len(samples) = n
        /\ \A i \in 1..n : samples[i] = g.first + i - 1
    BY <1>1, <1>3 DEF samples
  <1>5. samples[1] = g.first /\ samples[Len(samples)] = g.last
    BY <1>1, <1>4
  <1>6. \A i \in 2..Len(samples) : samples[i - 1] < samples[i]
    BY <1>1, <1>4
  <1>7. /\ p.status \in Schema!TelemetryStatuses /\ p.continuity \in Schema!Continuities
        /\ (p.outcome = Null <=> p.status = "running")
    BY PageFields, PageAssumption
    DEF AsSent, Schema!TelemetryStatuses, Schema!Continuities, TelemetryStatuses
  <1>8. /\ p.cursor.boot = p.boot /\ p.cursor.id = p.id /\ p.cursor.after = g.last
        /\ p.oldest = 1 /\ p.latest = g.latest /\ (p.more <=> g.last < g.latest)
    BY DEF AsSent, After
  <1>9. 1 <= g.first /\ g.last <= g.latest /\ 1 <= g.latest
    BY PageFields
  <1> HIDE DEF p, n
  <1>10. QED
    BY <1>3, <1>4, <1>5, <1>6, <1>7, <1>8, <1>9 DEF Schema!TelemetryPage, p, samples

LEMMA PagesGoOn ==
  ASSUME NEW m, Told(m), NEW g \in PageSet, Pages(m, After(g)) # <<>>
  PROVE  Follows(g, Pages(m, After(g))[1])
  <1> DEFINE s == Pages(m, After(g))
  <1>1. After(g) \in Cursors /\ <<After(g).boot, After(g).id>> = Key(g) /\ After(g).after = g.last
        /\ After(g) # NoCursor
    BY PageFields DEF NoCursor, After, Boots
  <1>2. /\ s \in Seq(PageSet) /\ s # <<>>
        /\ \A i \in 1..Len(s) : Key(s[i]) = <<m.boot, m.id>>
        /\ IF Goes(m, After(g)) THEN s[1].first = g.last + 1
           ELSE s[1].first = 1 /\ s[1].continuity = "reset"
    BY <1>1, PagesFollow
  <1>3. Key(s[1]) = <<m.boot, m.id>>
    BY <1>2, HeadIsFirst
  <1>4. Goes(m, After(g)) <=> Key(g) = <<m.boot, m.id>>
    BY <1>1 DEF Goes
  <1>5. QED
    BY <1>2, <1>3, <1>4 DEF Follows

LEMMA PagesStart ==
  ASSUME NEW m, Told(m), NEW cursor \in Cursors, Covered(cursor), Pages(m, cursor) # <<>>
  PROVE  UpTo(Key(Pages(m, cursor)[1]), Pages(m, cursor)[1].first - 1)
  <1> DEFINE s == Pages(m, cursor)
  <1>1. /\ s \in Seq(PageSet) /\ s # <<>>
        /\ \A i \in 1..Len(s) : Key(s[i]) = <<m.boot, m.id>>
        /\ IF Goes(m, cursor) THEN s[1].first = cursor.after + 1 ELSE s[1].first = 1
    BY PagesFollow
  <1>2. Key(s[1]) = <<m.boot, m.id>> /\ s[1] \in PageSet
    BY <1>1, HeadIsFirst
  <1>3. Key(s[1]) \in Keys /\ cursor.after \in Nat
    BY <1>2, PageFields DEF Cursors
  <1>4. CASE s[1].first = 1
    BY <1>4 DEF UpTo
  <1>5. CASE s[1].first = cursor.after + 1 /\ cursor # NoCursor /\ Goes(m, cursor)
    <2>1. Key(s[1]) = <<cursor.boot, cursor.id>> /\ s[1].first - 1 = cursor.after
      BY <1>2, <1>3, <1>5 DEF Goes
    <2>2. QED
      BY <1>3, <2>1 DEF Covered
  <1>6. CASE s[1].first = cursor.after + 1 /\ cursor = NoCursor
    BY <1>6 DEF UpTo, NoCursor
  <1>7. QED
    BY <1>1, <1>4, <1>5, <1>6

-----------------------------------------------------------------------------
(* What can become of a call.                                                   *)

LEMMA SentIs ==
  ASSUME NEW c \in CallSet
  PROVE  /\ c.chunk \in Seq(PageSet) /\ c.pipe \in Seq(PageSet) /\ Sent(c) \in Seq(PageSet)
         /\ (Sent(c) = <<>> <=> c.chunk = <<>> /\ c.pipe = <<>>)
         /\ c.chunk # <<>> => Sent(c)[1] = c.chunk[1]
         /\ c.chunk = <<>> => Sent(c) = c.pipe
         /\ c.pipe = <<>> => Sent(c) = c.chunk
  BY EndsOfJoin DEF CallSet, Sent

LEMMA SupersededOK ==
  ASSUME NEW c, CallOK(c), c.aborted
  PROVE  CallOK([c EXCEPT !.current = FALSE])
  <1> DEFINE d == [c EXCEPT !.current = FALSE]
  <1>1. d \in CallSet /\ d.chunk = c.chunk /\ d.pipe = c.pipe /\ d.stage = c.stage /\ ~d.current
        /\ d.aborted /\ d.failed = c.failed /\ d.over = c.over /\ d.cursor = c.cursor
    BY DEF CallOK, CallSet
  <1> HIDE DEF d
  <1>2. Sent(d) = Sent(c)
    BY <1>1 DEF Sent
  <1>3. QED
    BY <1>1, <1>2 DEF CallOK, Shaped, InStore, d

(* The pages that have not been read are lost. *)
LEMMA CutOffOK ==
  ASSUME NEW c, CallOK(c), c.stage # "asked", NEW d \in CallSet,
         d.chunk = c.chunk, d.pipe = <<>>, d.stage = c.stage, d.current = c.current,
         c.aborted => d.aborted
  PROVE  CallOK(d)
  <1>1. c \in CallSet /\ Shaped(c) /\ InStore(c)
    BY DEF CallOK
  <1>2. Sent(d) = c.chunk /\ c.chunk \in Seq(PageSet)
    BY <1>1, SentIs
  <1>3. Fits(Sent(d))
    BY <1>1, <1>2, PartsFit, SentIs DEF Shaped, Sent
  <1>4. Shaped(d)
    BY <1>1, <1>3 DEF Shaped
  <1>5. Sent(d) # <<>> => Sent(c) # <<>> /\ Sent(d)[1] = Sent(c)[1]
    BY <1>1, <1>2, SentIs
  <1>6. InStore(d)
    BY <1>1, <1>5 DEF InStore
  <1>7. QED
    BY <1>4, <1>6 DEF CallOK
LEMMA AbortedOK ==
  ASSUME NEW c, CallOK(c), c.stage # "asked"
  PROVE  CallOK([c EXCEPT !.aborted = TRUE, !.pipe = <<>>])
  <1> DEFINE d == [c EXCEPT !.aborted = TRUE, !.pipe = <<>>]
  <1>1. c \in CallSet
    BY DEF CallOK
  <1>2. d \in CallSet /\ d.chunk = c.chunk /\ d.pipe = <<>> /\ d.stage = c.stage /\ d.current = c.current
        /\ d.aborted
    BY <1>1, EmptySeq DEF CallSet
  <1>3. QED
    BY <1>2, CutOffOK
LEMMA DroppedOK ==
  ASSUME NEW c, CallOK(c), c.stage # "asked"
  PROVE  CallOK([c EXCEPT !.pipe = <<>>, !.failed = TRUE])
  <1> DEFINE d == [c EXCEPT !.pipe = <<>>, !.failed = TRUE]
  <1>1. c \in CallSet
    BY DEF CallOK
  <1>2. d \in CallSet /\ d.chunk = c.chunk /\ d.pipe = <<>> /\ d.stage = c.stage /\ d.current = c.current
        /\ d.aborted = c.aborted
    BY <1>1, EmptySeq DEF CallSet
  <1>3. QED
    BY <1>2, CutOffOK

LEMMA NewCallOK ==
  ASSUME NEW cursor \in Cursors, Covered(cursor)
  PROVE  CallOK(NewCall(cursor))
  <1> DEFINE c == NewCall(cursor)
  <1>1. c \in CallSet
    BY DEF NewCall, CallSet
  <1>2. /\ c.chunk = <<>> /\ c.pipe = <<>> /\ ~c.failed /\ ~c.over /\ c.cursor = cursor
        /\ c.stage = "asked" /\ c.current
    BY DEF NewCall
  <1> HIDE DEF c
  <1>3. Sent(c) = <<>>
    BY <1>1, <1>2, SentIs
  <1>4. Fits(Sent(c))
    BY <1>3 DEF Fits
  <1>5. QED
    BY <1>1, <1>2, <1>3, <1>4 DEF CallOK, Shaped, InStore, Pending, c

LEMMA RefusedOK ==
  ASSUME NEW c, CallOK(c), c.stage = "asked"
  PROVE  CallOK([c EXCEPT !.stage = "reading", !.failed = TRUE])
  <1> DEFINE d == [c EXCEPT !.stage = "reading", !.failed = TRUE]
  <1>1. c \in CallSet /\ Shaped(c) /\ InStore(c)
    BY DEF CallOK
  <1>2. d \in CallSet /\ d.chunk = c.chunk /\ d.pipe = c.pipe /\ d.stage = "reading"
        /\ d.current = c.current /\ d.aborted = c.aborted
    BY <1>1 DEF CallSet
  <1> HIDE DEF d
  <1>3. Sent(d) = Sent(c) /\ Sent(c) = <<>>
    BY <1>1, <1>2, SentIs DEF Sent, Shaped
  <1>4. QED
    BY <1>1, <1>2, <1>3 DEF CallOK, Shaped, InStore, Pending, d

(* The machine sends pages, to a new call or to one that reads on. *)
LEMMA ReceivedOK ==
  ASSUME NEW c, CallOK(c), NEW m, Told(m), NEW cursor \in Cursors,
         IF Sent(c) = <<>> THEN Covered(cursor) ELSE cursor = Ended(Sent(c)),
         NEW d \in CallSet, d.chunk = c.chunk, d.pipe = c.pipe \o Pages(m, cursor),
         d.stage # "asked", d.stage \in Pending => c.stage = d.stage,
         d.current = c.current, d.aborted = c.aborted
  PROVE  /\ CallOK(d) /\ Sent(d) = Sent(c) \o Pages(m, cursor)
  <1> DEFINE pages == Pages(m, cursor)
  <1>1. c \in CallSet /\ Shaped(c) /\ InStore(c)
    BY DEF CallOK
  <1>2. pages \in Seq(PageSet) /\ Fits(pages)
    BY PagesFollow
  <1>3. c.chunk \in Seq(PageSet) /\ c.pipe \in Seq(PageSet) /\ Sent(c) \in Seq(PageSet)
    BY <1>1, SentIs
  <1>4. Sent(d) = Sent(c) \o pages
    <2>1. Sent(d) = c.chunk \o (c.pipe \o pages)
      BY DEF Sent
    <2> HIDE DEF pages
    <2>2. c.chunk \o (c.pipe \o pages) = (c.chunk \o c.pipe) \o pages
      BY <1>2, <1>3, Regrouped
    <2>3. QED
      BY <2>1, <2>2 DEF Sent
  <1>5. ASSUME Sent(c) # <<>>, pages # <<>>
        PROVE  Follows(Sent(c)[Len(Sent(c))], pages[1])
    <2>1. Sent(c)[Len(Sent(c))] \in PageSet
      BY <1>3, <1>5, HeadIsFirst
    <2>2. QED
      BY <2>1, <1>5, PagesGoOn DEF Ended
  <1>6. Fits(Sent(d))
    BY <1>1, <1>2, <1>3, <1>4, <1>5, JoinFits DEF Shaped
  <1>7. Shaped(d)
    BY <1>1, <1>6 DEF Shaped
  <1>8. Sent(c) # <<>> => Sent(d)[1] = Sent(c)[1]
    BY <1>2, <1>3, <1>4, EndsOfJoin
  <1>9. Sent(c) = <<>> => Sent(d) = pages
    BY <1>2, <1>3, <1>4, EndsOfJoin
  <1>10. ASSUME Sent(d) # <<>>, d.current \/ d.stage \in Pending
         PROVE  UpTo(Key(Sent(d)[1]), Sent(d)[1].first - 1)
    <2>1. CASE Sent(c) # <<>>
      BY <2>1, <1>1, <1>8, <1>10 DEF InStore
    <2>2. CASE Sent(c) = <<>>
      BY <2>2, <1>9, <1>10, PagesStart
    <2>3. QED
      BY <2>1, <2>2
  <1>11. InStore(d)
    BY <1>1, <1>10 DEF InStore, Pending
  <1>12. QED
    BY <1>4, <1>7, <1>11 DEF CallOK

(* The reader takes what has come, or drops it when nobody wants it any more. *)
LEMMA SplitJoins ==
  ASSUME NEW s \in Seq(PageSet), NEW n \in 1..Len(s)
  PROVE  /\ SubSeq(s, 1, n) \in Seq(PageSet) /\ SubSeq(s, n + 1, Len(s)) \in Seq(PageSet)
         /\ SubSeq(s, 1, n) \o SubSeq(s, n + 1, Len(s)) = s /\ SubSeq(s, 1, n) # <<>>
  <1>1. Len(s) \in Nat /\ \A i \in 1..Len(s) : s[i] \in PageSet
    BY LenProperties, ElementOfSeq
  <1>2. SubSeq(s, 1, n) \in Seq(PageSet) /\ Len(SubSeq(s, 1, n)) = n
    BY <1>1, SubSeqProperties
  <1>3. SubSeq(s, n + 1, Len(s)) \in Seq(PageSet)
    BY <1>1, SubSeqProperties
  <1>4. SubSeq(s, 1, n) \o SubSeq(s, n + 1, Len(s)) = SubSeq(s, 1, Len(s))
    <2>1. 1 \in 1..Len(s) + 1 /\ n \in (1 - 1)..Len(s) /\ Len(s) \in n..Len(s)
      BY <1>1
    <2>2. QED
      BY <2>1, ConcatAdjacentSubSeq
  <1>5. QED
    BY <1>1, <1>2, <1>3, <1>4, SubSeqFull
LEMMA ReadOK ==
  ASSUME NEW c, CallOK(c), c.stage = "reading", c.chunk = <<>>, NEW n \in 1..Len(c.pipe)
  PROVE  LET d == [c EXCEPT !.chunk = SubSeq(c.pipe, 1, n),
                            !.pipe = SubSeq(c.pipe, n + 1, Len(c.pipe))]
         IN CallOK(d) /\ Sent(d) = Sent(c)
  <1> DEFINE d == [c EXCEPT !.chunk = SubSeq(c.pipe, 1, n),
                            !.pipe = SubSeq(c.pipe, n + 1, Len(c.pipe))]
  <1>1. c \in CallSet /\ Shaped(c) /\ InStore(c)
    BY DEF CallOK
  <1>2. /\ d \in CallSet /\ d.stage = c.stage /\ d.current = c.current /\ d.aborted = c.aborted
        /\ d.chunk = SubSeq(c.pipe, 1, n) /\ d.pipe = SubSeq(c.pipe, n + 1, Len(c.pipe))
    BY <1>1, SentIs, SplitJoins DEF CallSet
  <1> HIDE DEF d
  <1>3. Sent(d) = c.pipe /\ Sent(c) = c.pipe
    BY <1>1, <1>2, SentIs, SplitJoins DEF Sent
  <1>4. CallOK(d)
    BY <1>1, <1>2, <1>3 DEF CallOK, Shaped, InStore, Pending
  <1>5. QED
    BY <1>3, <1>4 DEF d
LEMMA DiscardedOK ==
  ASSUME NEW c, CallOK(c), c.stage = "reading", ~c.current
  PROVE  CallOK([c EXCEPT !.chunk = <<>>])
  <1> DEFINE d == [c EXCEPT !.chunk = <<>>]
  <1>1. c \in CallSet /\ Shaped(c) /\ InStore(c)
    BY DEF CallOK
  <1>2. /\ d \in CallSet /\ d.stage = c.stage /\ d.current = c.current /\ d.aborted = c.aborted
        /\ d.chunk = <<>> /\ d.pipe = c.pipe
    BY <1>1, EmptySeq DEF CallSet
  <1> HIDE DEF d
  <1>3. Sent(d) = c.pipe
    BY <1>2, SentIs
  <1>4. Fits(Sent(d))
    BY <1>1, <1>3, SentIs, PartsFit DEF Shaped, Sent
  <1>5. QED
    BY <1>1, <1>2, <1>4 DEF CallOK, Shaped, InStore, Pending, d
LEMMA MergedOK ==
  ASSUME NEW c, CallOK(c), c.stage = "reading", c.chunk # <<>>, c.current, NEW w \in BOOLEAN
  PROVE  LET d == [c EXCEPT !.stage = "commit", !.whole = w] IN CallOK(d) /\ Sent(d) = Sent(c)
  <1> DEFINE d == [c EXCEPT !.stage = "commit", !.whole = w]
  <1>1. c \in CallSet /\ Shaped(c) /\ InStore(c)
    BY DEF CallOK
  <1>2. /\ d \in CallSet /\ d.stage = "commit" /\ d.current = c.current /\ d.aborted = c.aborted
        /\ d.chunk = c.chunk /\ d.pipe = c.pipe
    BY <1>1 DEF CallSet, Pending
  <1> HIDE DEF d
  <1>3. Sent(d) = Sent(c)
    BY <1>2 DEF Sent
  <1>4. CallOK(d)
    BY <1>1, <1>2, <1>3 DEF CallOK, Shaped, InStore, Pending
  <1>5. QED
    BY <1>3, <1>4 DEF d

(* What is accounted for stays accounted for. *)
Grows == \A key \in Keys : \A n \in Nat : Accounted(key, n) => Accounted(key, n)'

LEMMA UpToGrows ==
  ASSUME Grows, NEW key \in Keys, NEW n \in Int, UpTo(key, n)
  PROVE  UpTo(key, n)'
  BY DEF Grows, UpTo
LEMMA CoveredGrows ==
  ASSUME Grows, NEW cursor \in Cursors, Covered(cursor)
  PROVE  Covered(cursor)'
  BY UpToGrows DEF Covered, Cursors
LEMMA CallGrows ==
  ASSUME Grows, NEW c, CallOK(c)
  PROVE  CallOK(c)'
  <1>1. c \in CallSet /\ Shaped(c) /\ InStore(c)
    BY DEF CallOK
  <1>2. c.cursor \in Cursors
    BY <1>1 DEF CallSet
  <1>3. c.stage = "asked" => Covered(c.cursor)'
    BY <1>1, <1>2, CoveredGrows DEF InStore
  <1>4. /\ Sent(c) # <<>> => Sent(c)[1] \in PageSet
        /\ c.chunk # <<>> => c.chunk[1] \in PageSet
    BY <1>1, SentIs, HeadIsFirst
  <1>5. (c.current \/ c.stage \in Pending) /\ Sent(c) # <<>> =>
          UpTo(Key(Sent(c)[1]), Sent(c)[1].first - 1)'
    <2> SUFFICES ASSUME c.current \/ c.stage \in Pending, Sent(c) # <<>>
                 PROVE  UpTo(Key(Sent(c)[1]), Sent(c)[1].first - 1)'
      OBVIOUS
    <2>1. Key(Sent(c)[1]) \in Keys /\ Sent(c)[1].first - 1 \in Int
      BY <1>4, PageFields
    <2>2. UpTo(Key(Sent(c)[1]), Sent(c)[1].first - 1)
      BY <1>1 DEF InStore
    <2>3. QED
      BY <2>1, <2>2, UpToGrows
  <1>6. c.stage \in {"select", "write"} => UpTo(Key(c.chunk[1]), c.chunk[1].last)'
    <2> SUFFICES ASSUME c.stage \in {"select", "write"}
                 PROVE  UpTo(Key(c.chunk[1]), c.chunk[1].last)'
      OBVIOUS
    <2>1. c.chunk # <<>>
      BY <1>1 DEF Shaped, Pending
    <2>2. Key(c.chunk[1]) \in Keys /\ c.chunk[1].last \in Int
      BY <1>4, <2>1, PageFields
    <2>3. UpTo(Key(c.chunk[1]), c.chunk[1].last)
      BY <1>1 DEF InStore
    <2>4. QED
      BY <2>2, <2>3, UpToGrows
  <1>7. InStore(c)'
    BY <1>3, <1>5, <1>6 DEF InStore
  <1>8. QED
    BY <1>1, <1>7 DEF CallOK

(* The head of the chunk has been stored: on to the record, or to the next page. *)
LEMMA AdvancesOK ==
  ASSUME NEW c, CallOK(c)', c.stage \in Pending, UpTo(Key(c.chunk[1]), c.chunk[1].last)',
         NEW d \in CallSet, d.stage \in {"select", "write"}, d.chunk = c.chunk, d.pipe = c.pipe,
         d.current = c.current, d.aborted = c.aborted
  PROVE  CallOK(d)'
  <1>1. c \in CallSet /\ Shaped(c) /\ InStore(c)'
    BY DEF CallOK
  <1>2. Sent(d) = Sent(c)
    BY DEF Sent
  <1>3. QED
    BY <1>1, <1>2 DEF CallOK, Shaped, InStore, Pending

LEMMA TailJoins ==
  ASSUME NEW s \in Seq(PageSet), NEW t \in Seq(PageSet), s # <<>>, Fits(s \o t)
  PROVE  LET r == s \o t
             q == Tail(s) \o t IN
         /\ q \in Seq(PageSet) /\ Fits(q) /\ r # <<>> /\ r \in Seq(PageSet)
         /\ q # <<>> => Follows(r[1], q[1]) /\ Ended(q) = Ended(r)
         /\ q = <<>> => Ended(r) = After(r[1])
  <1> DEFINE r == s \o t
             q == Tail(s) \o t
  <1>1. /\ Len(s) \in Nat \ {0} /\ Len(t) \in Nat /\ r \in Seq(PageSet) /\ Len(r) = Len(s) + Len(t)
        /\ \A i \in 1..Len(s) + Len(t) : r[i] = IF i <= Len(s) THEN s[i] ELSE t[i - Len(s)]
    BY ConcatProperties, LenProperties, EmptySeq
  <1>2. /\ Tail(s) \in Seq(PageSet) /\ Len(Tail(s)) = Len(s) - 1
        /\ \A i \in 1..Len(Tail(s)) : Tail(s)[i] = s[i + 1]
    BY HeadTailProperties
  <1>3. /\ q \in Seq(PageSet) /\ Len(q) = Len(s) - 1 + Len(t)
        /\ \A i \in 1..Len(q) : q[i] = IF i <= Len(s) - 1 THEN Tail(s)[i] ELSE t[i - (Len(s) - 1)]
    BY <1>1, <1>2, ConcatProperties
  <1>4. Fits(r)
    OBVIOUS
  <1> HIDE DEF r, q
  <1>5. ASSUME NEW i \in 1..Len(q) PROVE q[i] = r[i + 1]
    <2>1. i \in Nat \ {0} /\ i <= Len(s) - 1 + Len(t) /\ i + 1 \in 1..Len(s) + Len(t)
      BY <1>1, <1>3
    <2>2. CASE i <= Len(s) - 1
      BY <1>1, <1>2, <1>3, <2>1, <2>2
    <2>3. CASE i > Len(s) - 1
      <3>1. q[i] = t[i - (Len(s) - 1)] /\ r[i + 1] = t[(i + 1) - Len(s)]
        BY <1>1, <1>3, <2>1, <2>3
      <3>2. i - (Len(s) - 1) = (i + 1) - Len(s)
        BY <1>1, <2>1
      <3>3. QED
        BY <3>1, <3>2
    <2>4. QED
      BY <1>1, <2>1, <2>2, <2>3
  <1>6. Len(q) = Len(r) - 1 /\ Len(q) \in Nat /\ Len(r) \in Nat
    BY <1>1, <1>3
  <1>7. Fits(q)
    <2> SUFFICES ASSUME NEW i \in 2..Len(q)
                 PROVE  Follows(q[i - 1], q[i])
      BY DEF Fits
    <2>1. q[i - 1] = r[i] /\ q[i] = r[i + 1] /\ i + 1 \in 2..Len(r)
      <3>1. i - 1 \in 1..Len(q) /\ i \in 1..Len(q) /\ (i - 1) + 1 = i
        BY <1>6
      <3>2. q[i - 1] = r[(i - 1) + 1]
        BY <1>5, <3>1
      <3>3. QED
        BY <1>5, <1>6, <3>1, <3>2
    <2>2. Follows(r[(i + 1) - 1], r[i + 1])
      BY <1>4, <2>1 DEF Fits
    <2>3. QED
      BY <2>1, <2>2
  <1>8. r # <<>>
    BY <1>1, <1>6, EmptySeq
  <1>9. ASSUME q # <<>> PROVE Follows(r[1], q[1]) /\ Ended(q) = Ended(r)
    <2>1. Len(q) \in Nat \ {0}
      BY <1>3, <1>9, EmptySeq
    <2>2. q[1] = r[2] /\ 2 \in 2..Len(r) /\ q[Len(q)] = r[Len(r)]
      BY <1>5, <1>6, <2>1
    <2>3. QED
      BY <1>4, <2>2 DEF Fits, Ended
  <1>10. ASSUME q = <<>> PROVE Ended(r) = After(r[1])
    <2>1. Len(r) = 1
      BY <1>6, <1>10, EmptySeq
    <2>2. QED
      BY <2>1 DEF Ended
  <1>11. QED
    BY <1>1, <1>3, <1>7, <1>8, <1>9, <1>10 DEF r, q

LEMMA DoneOK ==
  ASSUME NEW c, CallOK(c)', c.stage \in Pending, UpTo(Key(c.chunk[1]), c.chunk[1].last)',
         NEW d \in CallSet, d.stage = "reading", d.chunk = Tail(c.chunk), d.pipe = c.pipe,
         d.current = c.current, d.aborted = c.aborted
  PROVE  /\ CallOK(d)' /\ c.chunk # <<>> /\ Sent(c) # <<>>
         /\ Sent(d) # <<>> => Ended(Sent(d)) = Ended(Sent(c))
         /\ Sent(d) = <<>> => Ended(Sent(c)) = After(c.chunk[1])
  <1>1. c \in CallSet /\ Shaped(c) /\ InStore(c)'
    BY DEF CallOK
  <1>2. c.chunk \in Seq(PageSet) /\ c.pipe \in Seq(PageSet) /\ c.chunk # <<>>
    BY <1>1, SentIs DEF Shaped
  <1>3. Fits(c.chunk \o c.pipe)
    BY <1>1 DEF Shaped, Sent
  <1>4. /\ Sent(d) \in Seq(PageSet) /\ Fits(Sent(d)) /\ Sent(c) # <<>>
        /\ Sent(d) # <<>> => Follows(Sent(c)[1], Sent(d)[1]) /\ Ended(Sent(d)) = Ended(Sent(c))
        /\ Sent(d) = <<>> => Ended(Sent(c)) = After(Sent(c)[1])
    BY <1>2, <1>3, TailJoins DEF Sent
  <1>5. Sent(c)[1] = c.chunk[1] /\ c.chunk[1] \in PageSet
    BY <1>1, <1>2, SentIs, HeadIsFirst
  <1>6. ASSUME Sent(d) # <<>>
        PROVE  UpTo(Key(Sent(d)[1]), Sent(d)[1].first - 1)'
    <2>1. Sent(d)[1] \in PageSet /\ Follows(c.chunk[1], Sent(d)[1])
      BY <1>4, <1>5, <1>6, HeadIsFirst
    <2>2. CASE Key(Sent(d)[1]) = Key(c.chunk[1])
      <3>1. Sent(d)[1].first - 1 = c.chunk[1].last
        BY <1>5, <2>1, <2>2, PageFields DEF Follows
      <3>2. QED
        BY <2>2, <3>1
    <2>3. CASE Key(Sent(d)[1]) # Key(c.chunk[1])
      <3>1. Sent(d)[1].first - 1 = 0
        BY <2>1, <2>3 DEF Follows
      <3>2. QED
        BY <3>1 DEF UpTo
    <2>4. QED
      BY <2>2, <2>3
  <1>7. QED
    BY <1>1, <1>2, <1>4, <1>5, <1>6 DEF CallOK, Shaped, InStore, Pending

-----------------------------------------------------------------------------
(* The database.                                                                *)

LEMMA StoreFields ==
  ASSUME StoreTyped
  PROVE  /\ store.traces \in [Keys -> [samples : SUBSET Nat, cache : SUBSET Nat]]
         /\ store.newest \in [Shots -> 0..MaxBoots] /\ store.records \in [RecordKeys -> RecordStatuses]
         /\ store.removed \subseteq Keys \X Nat
         /\ \A key \in Keys : Stored(key) \subseteq Nat /\ Cached(key) \subseteq Nat
  BY DEF StoreTyped, StoreSet, Stored, Cached

(* The trace that a page makes of the known one, and what is stored of it. *)
Merged(g) == {n \in Known(Key(g)) : n <= g.latest} \cup (g.first..g.last)
StoredAfter(g) ==
  {n \in Stored(Key(g)) : \E m \in Merged(g) : n <= m} \cup {n \in Merged(g) : n >= g.first}

LEMMA CommittedIs ==
  ASSUME StoreTyped, NEW g \in PageSet, NEW current \in BOOLEAN
  PROVE  LET st == Committed(g, current).store IN
         /\ st \in StoreSet /\ st.records = store.records /\ store.removed \subseteq st.removed
         /\ st.traces[Key(g)] = [samples |-> StoredAfter(g), cache |-> Merged(g)]
         /\ Merged(g) \subseteq Nat /\ StoredAfter(g) \subseteq Nat
         /\ ~current => {Key(g)} \X (Stored(Key(g)) \ StoredAfter(g)) \subseteq st.removed
         /\ \A k \in Keys : k # Key(g) =>
              /\ st.traces[k].cache = Cached(k)
              /\ \/ st.traces[k].samples = Stored(k)
                 \/ st.traces[k].samples = {} /\ {k} \X Stored(k) \subseteq st.removed
  <1> DEFINE st == Committed(g, current).store
             key == Key(g)
             others == {k \in Keys : k # key /\ k[2] = g.id}
             traces == [k \in Keys |->
                          IF k = key THEN [samples |-> StoredAfter(g), cache |-> Merged(g)]
                          ELSE IF k \in others THEN [store.traces[k] EXCEPT !.samples = {}]
                          ELSE store.traces[k]]
             late == IF current THEN {} ELSE {key} \X (Stored(key) \ StoredAfter(g))
             removed == store.removed \cup late \cup UNION {Removed(k) : k \in others}
             newest == [store.newest EXCEPT ![g.id] = g.boot]
  <1>1. Merge([key |-> key, samples |-> Known(key)], g).samples = Merged(g)
    BY DEF Merge, Merged
  <1>2. st = [store EXCEPT !.newest[g.id] = g.boot, !.removed = removed, !.traces = traces]
    <2>1. PICK trace : trace = Merge([key |-> key, samples |-> Known(key)], g)
      OBVIOUS
    <2>2. trace.samples = Merged(g)
      BY <1>1, <2>1
    <2>3. StoredAfter(g) = {n \in Stored(key) : \E m \in trace.samples : n <= m}
                           \cup {n \in trace.samples : n >= g.first}
      BY <2>2 DEF StoredAfter
    <2> HIDE DEF key
    <2>4. st = [store EXCEPT !.newest[g.id] = g.boot,
                   !.removed = @ \cup late \cup UNION {Removed(k) : k \in others},
                   !.traces = [k \in Keys |->
                      IF k = key THEN [samples |-> StoredAfter(g), cache |-> Merged(g)]
                      ELSE IF k \in others THEN [@[k] EXCEPT !.samples = {}] ELSE @[k]]]
      BY <2>1, <2>2, <2>3 DEF Committed, key
    <2>5. QED
      BY <2>4 DEF StoreTyped, StoreSet
  <1>3. key \in Keys /\ g.first \in Nat /\ g.last \in Nat /\ g.boot \in 0..MaxBoots /\ g.id \in Shots
    BY PageFields DEF Boots
  <1>4. Merged(g) \subseteq Nat /\ StoredAfter(g) \subseteq Nat
    <2>1. Known(key) \subseteq Nat /\ Stored(key) \subseteq Nat
      BY <1>3, StoreFields DEF Known
    <2>2. QED
      BY <2>1, <1>3 DEF Merged, StoredAfter
  <1>5. traces \in [Keys -> [samples : SUBSET Nat, cache : SUBSET Nat]]
    <2>1. ASSUME NEW k \in Keys PROVE traces[k] \in [samples : SUBSET Nat, cache : SUBSET Nat]
      BY <1>4, StoreFields
    <2>2. QED
      BY <2>1
  <1>6. removed \subseteq Keys \X Nat
    <2>1. late \subseteq Keys \X Nat
      BY <1>3, StoreFields
    <2>2. ASSUME NEW k \in others PROVE Removed(k) \subseteq Keys \X Nat
      BY StoreFields DEF Removed
    <2>3. QED
      BY <2>1, <2>2, StoreFields
  <1>7. newest \in [Shots -> 0..MaxBoots]
    BY <1>3, StoreFields
  <1>8. traces[key] = [samples |-> StoredAfter(g), cache |-> Merged(g)]
    BY <1>3
  <1>9. ASSUME NEW k \in Keys, k # key
        PROVE  /\ traces[k].cache = Cached(k)
               /\ \/ traces[k].samples = Stored(k)
                  \/ traces[k].samples = {} /\ {k} \X Stored(k) \subseteq removed
    <2>1. CASE k \in others
      <3>1. traces[k].samples = {} /\ traces[k].cache = Cached(k)
        BY <1>9, <2>1, StoreFields DEF Cached
      <3>2. Removed(k) \subseteq removed
        BY <2>1
      <3>3. QED
        BY <3>1, <3>2 DEF Removed
    <2>2. CASE k \notin others
      BY <1>9, <2>2 DEF Stored, Cached
    <2>3. QED
      BY <2>1, <2>2
  <1>10. store.removed \subseteq removed /\ (~current => {key} \X (Stored(key) \ StoredAfter(g)) \subseteq removed)
    OBVIOUS
  <1> HIDE DEF traces, removed, newest, key
  <1>11. /\ st \in StoreSet /\ st.records = store.records /\ st.removed = removed /\ st.traces = traces
    BY <1>2, <1>5, <1>6, <1>7 DEF StoreTyped, StoreSet, newest
  <1>12. QED
    BY <1>4, <1>8, <1>9, <1>10, <1>11 DEF key

(* A page is committed only after everything before it; of a call that is current *)
(* it is not older than what is stored, and its commit removes nothing of its shot. *)
LEMMA CommitKeeps ==
  ASSUME StoreInv, NEW g \in PageSet, NEW current \in BOOLEAN, current => UpToDate(g),
         UpTo(Key(g), g.first - 1), store' = Committed(g, current).store
  PROVE  StoreInv' /\ Grows /\ UpTo(Key(g), g.last)' /\ store'.records = store.records
  <1> DEFINE key == Key(g)
  <1>1. StoreTyped /\ StoreGapless
    BY DEF StoreInv
  <1>2. /\ store' \in StoreSet /\ store'.records = store.records /\ store.removed \subseteq store'.removed
        /\ Stored(key)' = StoredAfter(g) /\ Cached(key)' = Merged(g)
        /\ ~current => {key} \X (Stored(key) \ StoredAfter(g)) \subseteq store'.removed
        /\ \A k \in Keys : k # key =>
             /\ Cached(k)' = Cached(k)
             /\ Stored(k)' = Stored(k) \/ (Stored(k)' = {} /\ {k} \X Stored(k) \subseteq store'.removed)
    <2>1. PICK st : st = Committed(g, current).store
      OBVIOUS
    <2>2. /\ st \in StoreSet /\ st.records = store.records /\ store.removed \subseteq st.removed
          /\ st.traces[key] = [samples |-> StoredAfter(g), cache |-> Merged(g)]
          /\ ~current => {key} \X (Stored(key) \ StoredAfter(g)) \subseteq st.removed
          /\ \A k \in Keys : k # key =>
               /\ st.traces[k].cache = Cached(k)
               /\ \/ st.traces[k].samples = Stored(k)
                  \/ st.traces[k].samples = {} /\ {k} \X Stored(k) \subseteq st.removed
      BY <1>1, <2>1, CommittedIs
    <2>3. store' = st
      BY <2>1
    <2>4. QED
      BY <2>2, <2>3 DEF Stored, Cached
  <1>3. /\ key \in Keys /\ g.first \in Nat /\ g.last \in Nat /\ g.latest \in Nat
        /\ 1 <= g.first /\ g.first <= g.last /\ g.last <= g.latest
    BY PageFields
  <1>4. Stored(key) \subseteq Nat /\ Cached(key) \subseteq Nat /\ Stored(key) \subseteq Known(key)
        /\ Known(key) \subseteq Stored(key) \cup Cached(key)
    BY <1>1, <1>3, StoreFields DEF StoreGapless, Known
  <1>5. StoredAfter(g) \subseteq Stored(key) \cup Merged(g) /\ Merged(g) \subseteq Known(key) \cup (g.first..g.last)
        /\ g.first..g.last \subseteq StoredAfter(g)
    BY <1>3 DEF StoredAfter, Merged
  <1>6. StoredAfter(g) \subseteq Merged(g)
    <2> SUFFICES ASSUME NEW n \in Stored(key), NEW m \in Merged(g), n <= m
                 PROVE  n \in Merged(g)
      BY DEF StoredAfter
    <2>1. m <= g.latest /\ m \in Nat /\ n \in Nat /\ n \in Known(key)
      BY <1>3, <1>4 DEF Merged
    <2>2. n <= g.latest
      BY <1>3, <2>1
    <2>3. QED
      BY <2>1, <2>2 DEF Merged
  <1>7. current => Stored(key) \subseteq StoredAfter(g)
    <2> SUFFICES ASSUME current, NEW n \in Stored(key)
                 PROVE  n \in StoredAfter(g)
      OBVIOUS
    <2>1. n \in Merged(g) /\ n \in Nat
      BY <1>4 DEF UpToDate, Merged
    <2>2. QED
      BY <2>1 DEF StoredAfter
  <1>8. Grows
    <2> SUFFICES ASSUME NEW k \in Keys, NEW n \in Nat, Accounted(k, n)
                 PROVE  Accounted(k, n)'
      BY DEF Grows
    <2>1. CASE <<k, n>> \in store.removed
      BY <1>2, <2>1 DEF Accounted
    <2>2. CASE n \in Stored(k) /\ k # key
      BY <1>2, <2>2 DEF Accounted
    <2>3. CASE n \in Stored(k) /\ k = key
      BY <1>2, <1>7, <2>3 DEF Accounted
    <2>4. QED
      BY <2>1, <2>2, <2>3 DEF Accounted
  <1> HIDE DEF key
  <1>9. ASSUME NEW n \in Known(key) \cup (g.first..g.last) PROVE UpTo(key, n)'
    <2>1. CASE n \in Known(key)
      BY <2>1, <1>1, <1>3, <1>4, <1>8, UpToGrows DEF StoreGapless
    <2>2. CASE n \in g.first..g.last
      <3>1. UpTo(key, g.first - 1)'
        BY <1>3, <1>8, UpToGrows DEF key
      <3>2. ASSUME NEW i \in 1..n PROVE Accounted(key, i)'
        <4>1. i \in 1..g.first - 1 \/ i \in g.first..g.last
          BY <1>3, <2>2
        <4>2. QED
          BY <4>1, <3>1, <1>2, <1>5 DEF UpTo, Accounted
      <3>3. QED
        BY <3>2 DEF UpTo
    <2>3. QED
      BY <2>1, <2>2
  <1>10. \A n \in Stored(key)' \cup Cached(key)' : UpTo(key, n)'
    BY <1>2, <1>5, <1>6, <1>9
  <1>11. \E b \in Nat : Stored(key)' \subseteq 0..b
    <2>1. ASSUME NEW n \in Merged(g) PROVE n \in 0..g.latest
      <3>1. (n \in Known(key) /\ n <= g.latest) \/ n \in g.first..g.last
        BY DEF Merged, key
      <3>2. QED
        BY <3>1, <1>3, <1>4
    <2>2. QED
      BY <2>1, <1>2, <1>3, <1>6
  <1>12. ASSUME NEW k \in Keys, k # key
         PROVE  /\ \A n \in Stored(k)' \cup Cached(k)' : UpTo(k, n)'
                /\ \E b \in Nat : Stored(k)' \subseteq 0..b
                /\ Cached(k)' = {} \/ Stored(k)' \subseteq Cached(k)'
    <2>1. Cached(k)' = Cached(k) /\ Stored(k)' \subseteq Stored(k)
      BY <1>2, <1>12
    <2>2. \A n \in Stored(k) \cup Cached(k) : n \in Nat /\ UpTo(k, n)
      BY <1>1, StoreFields DEF StoreGapless
    <2>3. \A n \in Stored(k) \cup Cached(k) : UpTo(k, n)'
      BY <2>2, <1>8, UpToGrows
    <2>4. QED
      BY <2>1, <2>3, <1>1 DEF StoreGapless
  <1>13. StoreGapless'
    BY <1>2, <1>6, <1>10, <1>11, <1>12 DEF StoreGapless
  <1>14. UpTo(key, g.last)'
    BY <1>3, <1>9
  <1>15. QED
    BY <1>2, <1>8, <1>13, <1>14 DEF StoreInv, StoreTyped, key

LEMMA RecordsOnly ==
  ASSUME StoreInv, NEW f \in [RecordKeys -> RecordStatuses], store' = [store EXCEPT !.records = f]
  PROVE  StoreInv' /\ Grows /\ store'.records = f
  <1>1. /\ store' \in StoreSet /\ store'.records = f /\ store'.traces = store.traces
        /\ store'.removed = store.removed
    BY DEF StoreInv, StoreTyped, StoreSet
  <1>2. \A k : Stored(k)' = Stored(k) /\ Cached(k)' = Cached(k)
    BY <1>1 DEF Stored, Cached
  <1>3. \A key, n : Accounted(key, n)' <=> Accounted(key, n)
    BY <1>1, <1>2 DEF Accounted
  <1>4. Grows
    BY <1>3 DEF Grows
  <1>5. StoreGapless'
    BY <1>2, <1>3 DEF StoreInv, StoreGapless, UpTo
  <1>6. QED
    BY <1>1, <1>4, <1>5 DEF StoreInv, StoreTyped

LEMMA SameStore ==
  ASSUME StoreInv, UNCHANGED store
  PROVE  StoreInv' /\ Grows
  BY DEF StoreInv, StoreTyped, StoreGapless, UpTo, Accounted, Stored, Cached, Grows

(* Of what is stored nothing changes when a trace is cached or forgotten. *)
LEMMA CacheOnly ==
  ASSUME StoreInv, NEW f \in [Keys -> SUBSET Nat], \A k \in Keys : f[k] \in {{}, Stored(k), Cached(k)},
         store' = [store EXCEPT !.traces = [k \in Keys |-> [samples |-> Stored(k), cache |-> f[k]]]]
  PROVE  /\ StoreInv' /\ Grows /\ store'.records = store.records
         /\ \A k \in Keys : Stored(k)' = Stored(k)
  <1>1. /\ store' \in StoreSet /\ store'.records = store.records /\ store'.removed = store.removed
        /\ \A k \in Keys : Stored(k)' = Stored(k) /\ Cached(k)' = f[k]
    BY StoreFields DEF StoreInv, StoreTyped, StoreSet, Stored, Cached
  <1>2. \A k \in Keys : \A n : Accounted(k, n)' <=> Accounted(k, n)
    BY <1>1 DEF Accounted
  <1>3. Grows
    BY <1>2 DEF Grows
  <1>4. StoreGapless'
    BY <1>1, <1>2 DEF StoreInv, StoreGapless, UpTo
  <1>5. QED
    BY <1>1, <1>3, <1>4 DEF StoreInv, StoreTyped
LEMMA ForgottenCacheKeeps ==
  ASSUME StoreInv, store' = [store EXCEPT !.traces = [k \in Keys |-> [store.traces[k] EXCEPT !.cache = {}]]]
  PROVE  /\ StoreInv' /\ Grows /\ store'.records = store.records
         /\ \A k \in Keys : Stored(k)' = Stored(k)
  <1> DEFINE f == [k \in Keys |-> {}]
  <1>1. [k \in Keys |-> [store.traces[k] EXCEPT !.cache = {}]] =
        [k \in Keys |-> [samples |-> Stored(k), cache |-> f[k]]]
    <2>1. ASSUME NEW k \in Keys
          PROVE  [store.traces[k] EXCEPT !.cache = {}] = [samples |-> Stored(k), cache |-> f[k]]
      <3>1. PICK t \in [samples : SUBSET Nat, cache : SUBSET Nat] : t = store.traces[k]
        BY StoreFields DEF StoreInv
      <3>2. [t EXCEPT !.cache = {}] = [samples |-> t.samples, cache |-> {}]
        OBVIOUS
      <3>3. QED
        BY <3>1, <3>2 DEF Stored
    <2>2. QED
      BY <2>1
  <1>2. f \in [Keys -> SUBSET Nat] /\ \A k \in Keys : f[k] \in {{}, Stored(k), Cached(k)}
    OBVIOUS
  <1> HIDE DEF f
  <1>3. QED
    BY <1>1, <1>2, CacheOnly
LEMMA CachedKeeps ==
  ASSUME StoreInv, NEW key \in Keys, store' = [store EXCEPT !.traces[key].cache = Stored(key)]
  PROVE  /\ StoreInv' /\ Grows /\ store'.records = store.records
         /\ \A k \in Keys : Stored(k)' = Stored(k)
  <1> DEFINE f == [k \in Keys |-> IF k = key THEN Stored(k) ELSE Cached(k)]
  <1>1. store' = [store EXCEPT !.traces = [k \in Keys |-> [samples |-> Stored(k), cache |-> f[k]]]]
    <2>1. [store.traces EXCEPT ![key].cache = Stored(key)] =
          [k \in Keys |-> [samples |-> Stored(k), cache |-> f[k]]]
      BY StoreFields DEF StoreInv, Stored, Cached
    <2>2. QED
      BY <2>1
  <1>2. f \in [Keys -> SUBSET Nat] /\ \A k \in Keys : f[k] \in {{}, Stored(k), Cached(k)}
    BY StoreFields DEF StoreInv
  <1> HIDE DEF f
  <1>3. QED
    BY <1>1, <1>2, CacheOnly

LEMMA ClearKeeps ==
  ASSUME StoreInv, Clear
  PROVE  StoreInv' /\ Grows /\ \A k \in RecordKeys : store'.records[k] = "none"
  <1> DEFINE empty == Dropped
             removed == store.removed \cup UNION {Removed(k) : k \in Keys}
  <1>1. store' = [traces |-> empty, newest |-> [i \in Shots |-> 0],
                  records |-> [k \in RecordKeys |-> "none"], removed |-> removed]
    BY DEF Clear
  <1>2. removed \subseteq Keys \X Nat
    BY StoreFields DEF Removed, StoreInv
  <1>3. empty \in [Keys -> [samples : SUBSET Nat, cache : SUBSET Nat]] /\ \A k \in Keys : empty[k].samples = {} /\ empty[k].cache = {}
    BY DEF Dropped
  <1>4. 0 \in 0..MaxBoots
    BY BoundsAssumption
  <1>5. \A k \in Keys : Removed(k) \subseteq removed
    OBVIOUS
  <1> HIDE DEF removed, empty
  <1>6. store' \in StoreSet
    BY <1>1, <1>2, <1>3, <1>4 DEF StoreSet, RecordStatuses
  <1>7. \A k \in Keys : Stored(k)' = {} /\ Cached(k)' = {} /\ Removed(k) \subseteq store'.removed
    BY <1>1, <1>3, <1>5 DEF Stored, Cached
  <1>8. store.removed \subseteq store'.removed
    BY <1>1 DEF removed
  <1>9. Grows
    BY <1>7, <1>8 DEF Grows, Accounted, Removed
  <1>10. StoreGapless'
    <2>1. 0 \in Nat
      OBVIOUS
    <2>2. QED
      BY <2>1, <1>7 DEF StoreGapless
  <1>11. QED
    BY <1>1, <1>6, <1>9, <1>10 DEF StoreInv, StoreTyped

LEMMA MayKeeps ==
  ASSUME WorldTyped, NEW what \in {"shots", "cycles", "drops", "stops", "kills", "failures", "clears"},
         May(what)
  PROVE  WorldTyped' /\ (what = "clears" => world'.clears # world.clears)
  <1>1. world[what] \in Nat /\ world[what] > 0 /\ world' = [world EXCEPT ![what] = world[what] - 1]
    BY DEF May, WorldTyped
  <1>2. world[what] - 1 \in Nat /\ world[what] - 1 # world[what]
    BY <1>1
  <1>3. QED
    BY <1>1, <1>2 DEF WorldTyped

-----------------------------------------------------------------------------
(* What is recorded of a shot.                                                  *)

LEMMA SameRecords ==
  ASSUME RecordsInv, UNCHANGED saving, store'.records = store.records
  PROVE  RecordsInv'
  BY DEF RecordsInv, SavingTyped, PendingNotComplete

LEMMA FoundIs ==
  ASSUME StoreInv, NEW key \in RecordKeys
  PROVE  /\ Found(key) \in RecordKeys \cup {<<>>}
         /\ key[1] = 0 => Found(key) \in {<<>>, key}
  <1>1. key = <<key[1], key[2]>> /\ <<0, key[2]>> \in RecordKeys
    BY BoundsAssumption DEF RecordKeys
  <1>2. QED
    BY <1>1 DEF Found

LEMMA AppendedIs ==
  ASSUME StoreInv, NEW key \in RecordKeys, NEW found, NEW status \in RecordStatuses,
         store' = Appended(key, found, status)
  PROVE  /\ StoreInv' /\ Grows
         /\ \A k \in RecordKeys : store'.records[k] = IF k = key THEN status
                                  ELSE IF k = found THEN "none" ELSE store.records[k]
  <1> DEFINE f == [k \in RecordKeys |-> IF k = key THEN status ELSE IF k = found THEN "none"
                                        ELSE store.records[k]]
  <1>1. store' = [store EXCEPT !.records = f]
    BY DEF Appended, StoreInv, StoreTyped, StoreSet
  <1>2. f \in [RecordKeys -> RecordStatuses]
    BY StoreFields DEF RecordStatuses, StoreInv
  <1> HIDE DEF f
  <1>3. StoreInv' /\ Grows /\ store'.records = f
    BY <1>1, <1>2, RecordsOnly
  <1>4. QED
    BY <1>3 DEF f

LEMMA PendingKeys ==
  /\ \A i \in Shots : <<0, i>> \in RecordKeys
  /\ Keys \subseteq RecordKeys
  /\ \A key \in Keys, i \in Shots : key # <<0, i>>
  BY BoundsAssumption DEF RecordKeys, Keys, Boots

LEMMA MarkKeeps ==
  ASSUME StoreInv, RecordsInv, Mark
  PROVE  /\ StoreInv' /\ Grows /\ RecordsInv'
         /\ \A k \in RecordKeys : store.records[k] = "complete" => store'.records[k] = "complete"
  <1>1. PICK r \in saving :
          /\ r.stage = "mark"
          /\ store' = [store EXCEPT !.records = [k \in RecordKeys |->
                         IF @[k] = "running" /\ k[2] # r.state[1] THEN "incomplete" ELSE @[k]]]
          /\ saving' = (saving \ {r}) \cup
                       (IF r.state[1] = 0 THEN {} ELSE {[r EXCEPT !.stage = "select"]})
    BY DEF Mark
  <1> DEFINE f == [k \in RecordKeys |-> IF store.records[k] = "running" /\ k[2] # r.state[1]
                                        THEN "incomplete" ELSE store.records[k]]
  <1>2. store' = [store EXCEPT !.records = f]
    BY <1>1 DEF StoreInv, StoreTyped, StoreSet
  <1>3. f \in [RecordKeys -> RecordStatuses]
    BY StoreFields DEF RecordStatuses, StoreInv
  <1>4. \A k \in RecordKeys : f[k] = "complete" <=> store.records[k] = "complete"
    OBVIOUS
  <1> HIDE DEF f
  <1>5. StoreInv' /\ Grows /\ store'.records = f
    BY <1>2, <1>3, RecordsOnly
  <1>6. r \in [state : (0..MaxShots) \X {"running", "idle"}, stage : {"mark", "select", "write"},
               found : RecordKeys \cup {<<>>}]
    BY <1>1 DEF RecordsInv, SavingTyped
  <1>7. SavingTyped'
    BY <1>1, <1>6 DEF RecordsInv, SavingTyped
  <1>8. \A i \in Shots : store'.records[<<0, i>>] # "complete"
    BY <1>4, <1>5, PendingKeys DEF RecordsInv, PendingNotComplete
  <1>9. ASSUME NEW q \in saving'
        PROVE  /\ q.stage # "mark" => q.state[1] \in Shots
               /\ q.stage = "write" => q.found \in {<<>>, <<0, q.state[1]>>}
    <2>1. CASE q \in saving
      BY <2>1 DEF RecordsInv, PendingNotComplete
    <2>2. CASE q = [r EXCEPT !.stage = "select"] /\ r.state[1] # 0
      <3>1. q.stage = "select" /\ q.state = r.state
        BY <1>6, <2>2
      <3>2. r.state[1] \in Shots
        BY <1>6, <2>2, BoundsAssumption DEF Shots
      <3>3. QED
        BY <3>1, <3>2
    <2>3. QED
      BY <1>1, <1>9, <2>1, <2>2
  <1>10. QED
    BY <1>4, <1>5, <1>7, <1>8, <1>9 DEF RecordsInv, PendingNotComplete

LEMMA SelectPendingKeeps ==
  ASSUME StoreInv, RecordsInv, SelectPending
  PROVE  RecordsInv'
  <1>1. PICK r \in saving :
          /\ r.stage = "select"
          /\ saving' = (saving \ {r}) \cup
                       {[r EXCEPT !.stage = "write", !.found = Found(<<0, r.state[1]>>)]}
    BY DEF SelectPending
  <1>2. r \in [state : (0..MaxShots) \X {"running", "idle"}, stage : {"mark", "select", "write"},
               found : RecordKeys \cup {<<>>}]
    BY <1>1 DEF RecordsInv, SavingTyped
  <1>3. r.state[1] \in Shots /\ <<0, r.state[1]>> \in RecordKeys
    BY <1>1, PendingKeys DEF RecordsInv, PendingNotComplete
  <1>4. Found(<<0, r.state[1]>>) \in RecordKeys \cup {<<>>} /\ Found(<<0, r.state[1]>>) \in {<<>>, <<0, r.state[1]>>}
    BY <1>3, FoundIs
  <1> DEFINE d == [r EXCEPT !.stage = "write", !.found = Found(<<0, r.state[1]>>)]
  <1>5. /\ d \in [state : (0..MaxShots) \X {"running", "idle"}, stage : {"mark", "select", "write"},
                  found : RecordKeys \cup {<<>>}]
        /\ d.stage = "write" /\ d.state = r.state /\ d.found \in {<<>>, <<0, r.state[1]>>}
    BY <1>2, <1>4
  <1> HIDE DEF d
  <1>6. saving' = (saving \ {r}) \cup {d}
    BY <1>1 DEF d
  <1>7. UNCHANGED store
    BY DEF SelectPending
  <1>8. SavingTyped'
    BY <1>5, <1>6 DEF RecordsInv, SavingTyped
  <1>9. \A q \in saving' : /\ q.stage # "mark" => q.state[1] \in Shots
                           /\ q.stage = "write" => q.found \in {<<>>, <<0, q.state[1]>>}
    BY <1>3, <1>5, <1>6 DEF RecordsInv, PendingNotComplete
  <1>10. QED
    BY <1>7, <1>8, <1>9 DEF RecordsInv, PendingNotComplete

LEMMA WritePendingKeeps ==
  ASSUME StoreInv, RecordsInv, WritePending
  PROVE  /\ StoreInv' /\ Grows /\ RecordsInv'
         /\ \A k \in RecordKeys : store.records[k] = "complete" => store'.records[k] = "complete"
  <1>1. PICK r \in saving :
          /\ r.stage = "write" /\ saving' = saving \ {r}
          /\ store' = IF Conflicts(<<0, r.state[1]>>, r.found) THEN store
                      ELSE Appended(<<0, r.state[1]>>, r.found,
                                    IF r.state[2] = "running" THEN "running" ELSE "incomplete")
    BY DEF WritePending
  <1> DEFINE key == <<0, r.state[1]>>
             status == IF r.state[2] = "running" THEN "running" ELSE "incomplete"
  <1>2. r.state[1] \in Shots /\ key \in RecordKeys /\ r.found \in {<<>>, key}
    BY <1>1, PendingKeys DEF RecordsInv, PendingNotComplete
  <1>3. store.records[key] # "complete" /\ <<>> \notin RecordKeys
    BY <1>2 DEF RecordsInv, PendingNotComplete, RecordKeys
  <1>4. CASE store' = store
    <2>1. StoreInv' /\ Grows
      BY <1>4, SameStore
    <2>2. RecordsInv'
      BY <1>1, <1>4 DEF RecordsInv, SavingTyped, PendingNotComplete
    <2>3. QED
      BY <1>4, <2>1, <2>2
  <1>5. CASE store' = Appended(key, r.found, status)
    <2>1. status \in RecordStatuses /\ status # "complete"
      BY DEF RecordStatuses
    <2>2. /\ StoreInv' /\ Grows
          /\ \A k \in RecordKeys : store'.records[k] = IF k = key THEN status
                                   ELSE IF k = r.found THEN "none" ELSE store.records[k]
      BY <1>2, <1>5, <2>1, AppendedIs
    <2> HIDE DEF key, status
    <2>3. \A k \in RecordKeys : k # key => store'.records[k] = store.records[k]
      BY <1>2, <1>3, <2>2
    <2>4. \A i \in Shots : store'.records[<<0, i>>] # "complete"
      BY <2>1, <2>2, <2>3, PendingKeys DEF RecordsInv, PendingNotComplete
    <2>5. RecordsInv'
      BY <1>1, <2>4 DEF RecordsInv, SavingTyped, PendingNotComplete
    <2>6. QED
      BY <1>2, <1>3, <2>2, <2>3, <2>5
  <1>6. QED
    BY <1>1, <1>4, <1>5

(* The stream records a shot under its boot, never a pending one. *)
LEMMA RecordedIs ==
  ASSUME StoreInv, RecordsInv, NEW key \in Keys, NEW found, NEW status \in RecordStatuses,
         store' = Appended(key, found, status), UNCHANGED saving
  PROVE  StoreInv' /\ Grows /\ RecordsInv'
  <1>1. key \in RecordKeys /\ \A i \in Shots : <<0, i>> \in RecordKeys /\ <<0, i>> # key
    BY PendingKeys
  <1>2. /\ StoreInv' /\ Grows
        /\ \A k \in RecordKeys : store'.records[k] = IF k = key THEN status
                                 ELSE IF k = found THEN "none" ELSE store.records[k]
    BY <1>1, AppendedIs
  <1>3. \A i \in Shots : store'.records[<<0, i>>] # "complete"
    BY <1>1, <1>2 DEF RecordsInv, PendingNotComplete
  <1>4. QED
    BY <1>2, <1>3 DEF RecordsInv, SavingTyped, PendingNotComplete

-----------------------------------------------------------------------------
(* The calls together.                                                          *)

LEMMA CoreParts ==
  Core <=> /\ Told(machine) /\ stream \in StreamSet /\ PhoneInv /\ StoreInv /\ RecordsInv
           /\ CallsOK /\ OneAlive /\ Resumes
  BY DEF Core, CallsInv

LEMMA SamePhone ==
  ASSUME PhoneInv, Grows, UNCHANGED phone
  PROVE  PhoneInv'
  BY CoveredGrows DEF PhoneInv, PhoneTyped

LEMMA SameCalls ==
  ASSUME Core, Grows, UNCHANGED calls, phone'.retry = phone.retry, phone'.foreground = phone.foreground,
         UNCHANGED stream \/ ~Subscribed'
  PROVE  CallsInv'
  <1>1. CallsOK'
    BY CallGrows DEF Core, CallsInv, CallsOK
  <1>2. OneAlive'
    BY DEF Core, CallsInv, OneAlive
  <1>3. Resumes'
    <2> SUFFICES ASSUME Subscribed'
                 PROVE  /\ \E c \in calls : Reading(c) /\ ~c.failed /\ ~c.over
                        /\ \A c \in calls : Reading(c) => Continues(c)'
      BY DEF Resumes, Reading
    <2>1. UNCHANGED stream /\ Subscribed /\ stream.cursor \in Cursors
      BY DEF Subscribed, Core, StreamSet
    <2>2. ASSUME NEW c \in calls, Reading(c) PROVE Continues(c)'
      BY <2>1, <2>2, CoveredGrows DEF Core, CallsInv, Resumes, Continues
    <2>3. QED
      BY <2>1, <2>2 DEF Core, CallsInv, Resumes
  <1>4. QED
    BY <1>1, <1>2, <1>3 DEF CallsInv

(* A subscribed machine has one reader, and it is the only call alive. *)
LEMMA TheReader ==
  ASSUME Core, Subscribed, NEW c \in calls, ~c.aborted
  PROVE  Reading(c) /\ ~c.failed /\ ~c.over /\ Continues(c)
  BY DEF Core, CallsInv, OneAlive, Resumes, Reading

LEMMA OneBecomes ==
  ASSUME Core, Grows, NEW c \in calls, NEW d, calls' = (calls \ {c}) \cup {d}, CallOK(d)',
         d.aborted = c.aborted, phone'.retry = phone.retry, phone'.foreground = phone.foreground,
         Subscribed' => \/ c.aborted /\ UNCHANGED stream
                        \/ Reading(d) /\ ~d.failed /\ ~d.over /\ Continues(d)'
  PROVE  CallsInv'
  <1>1. CallsOK'
    BY CallGrows DEF Core, CallsInv, CallsOK
  <1>2. OneAlive'
    BY DEF Core, CallsInv, OneAlive
  <1>3. Resumes'
    <2> SUFFICES ASSUME Subscribed'
                 PROVE  /\ \E e \in calls' : Reading(e) /\ ~e.failed /\ ~e.over
                        /\ \A e \in calls' : Reading(e) => Continues(e)'
      BY DEF Resumes, Reading
    <2>1. CASE c.aborted /\ UNCHANGED stream
      <3>1. Subscribed /\ stream.cursor \in Cursors
        BY <2>1 DEF Subscribed, Core, StreamSet
      <3>2. PICK e \in calls : Reading(e) /\ ~e.failed /\ ~e.over
        BY <3>1 DEF Core, CallsInv, Resumes
      <3>3. e \in calls'
        BY <2>1, <3>2 DEF Reading
      <3>4. ASSUME NEW b \in calls', Reading(b) PROVE Continues(b)'
        <4>1. b \in calls
          BY <2>1, <3>4 DEF Reading
        <4>2. Continues(b)
          BY <3>1, <3>4, <4>1 DEF Core, CallsInv, Resumes
        <4>3. QED
          BY <2>1, <3>1, <4>2, CoveredGrows DEF Continues
      <3>5. QED
        BY <3>2, <3>3, <3>4
    <2>2. CASE Reading(d) /\ ~d.failed /\ ~d.over /\ Continues(d)'
      <3>1. \A b \in calls' : Reading(b) => b = d
        BY <2>2 DEF Core, CallsInv, OneAlive, Reading
      <3>2. QED
        BY <2>2, <3>1
    <2>3. QED
      BY <2>1, <2>2
  <1>4. QED
    BY <1>1, <1>2, <1>3 DEF CallsInv

LEMMA OneLeaves ==
  ASSUME Core, Grows, NEW c \in calls, calls' = calls \ {c},
         phone'.foreground = phone.foreground, phone'.retry => phone.retry \/ ~c.aborted,
         (c.aborted /\ UNCHANGED stream) \/ ~Subscribed'
  PROVE  CallsInv'
  <1>1. CallsOK'
    BY CallGrows DEF Core, CallsInv, CallsOK
  <1>2. OneAlive'
    BY DEF Core, CallsInv, OneAlive
  <1>3. Resumes'
    <2> SUFFICES ASSUME Subscribed'
                 PROVE  /\ \E e \in calls' : Reading(e) /\ ~e.failed /\ ~e.over
                        /\ \A e \in calls' : Reading(e) => Continues(e)'
      BY DEF Resumes, Reading
    <2>1. Subscribed /\ stream.cursor \in Cursors /\ UNCHANGED stream /\ c.aborted
      BY DEF Subscribed, Core, StreamSet
    <2>2. ASSUME NEW b \in calls', Reading(b) PROVE Continues(b)'
      <3>1. Continues(b)
        BY <2>1, <2>2 DEF Core, CallsInv, Resumes
      <3>2. QED
        BY <2>1, <3>1, CoveredGrows DEF Continues
    <2>3. \E e \in calls' : Reading(e) /\ ~e.failed /\ ~e.over
      BY <2>1 DEF Core, CallsInv, Resumes, Reading
    <2>4. QED
      BY <2>2, <2>3
  <1>4. QED
    BY <1>1, <1>2, <1>3 DEF CallsInv

(* Nobody is alive any more, so the machine serves nobody. *)
LEMMA NobodyAlive ==
  ASSUME \A c \in calls' : CallOK(c)' /\ c.aborted, ~Subscribed', ~phone'.foreground => ~phone'.retry
  PROVE  CallsInv'
  BY DEF CallsInv, CallsOK, OneAlive, Resumes
LEMMA NobodyServed ==
  ASSUME Core, \A c \in calls : c.aborted
  PROVE  ~Subscribed
  BY DEF Core, CallsInv, Resumes, Reading
LEMMA CancelledIs ==
  ASSUME Core, stream' = Cancelled
  PROVE  stream' \in StreamSet /\ ~Subscribed'
  <1>1. /\ stream' \in StreamSet /\ stream'.open = stream.open /\ stream'.leaked = stream.leaked
        /\ stream'.cancelled = (stream.cancelled \/ (stream.open /\ ~stream.leaked /\ Alive # {}))
    BY DEF Core, StreamSet, Cancelled
  <1>2. Alive = {} => ~Subscribed
    BY NobodyServed DEF Alive
  <1>3. QED
    BY <1>1, <1>2 DEF Subscribed

LEMMA ConnectsKeeps ==
  ASSUME Core, Grows, UNCHANGED stream, \A c \in calls : c.aborted,
         NEW p, p.cursor \in Cursors, Covered(p.cursor), ~p.retry, Connects(p, calls)
  PROVE  CallsInv' /\ phone' = p
  <1>1. phone' = p /\ (calls' = Superseded(calls) \/
                       (calls' = Superseded(calls) \cup {NewCall(p.cursor)} /\ p.foreground))
    BY DEF Connects
  <1>2. \A c \in Superseded(calls) : CallOK(c)' /\ c.aborted
    <2> SUFFICES ASSUME NEW c \in calls
                 PROVE  CallOK([c EXCEPT !.current = FALSE])' /\ [c EXCEPT !.current = FALSE].aborted
      BY DEF Superseded
    <2>1. CallOK(c) /\ c.aborted /\ c \in CallSet
      BY DEF Core, CallsInv, CallsOK, CallOK
    <2>2. CallOK([c EXCEPT !.current = FALSE])
      BY <2>1, SupersededOK
    <2>3. QED
      BY <2>1, <2>2, CallGrows DEF CallSet
  <1>3. CallOK(NewCall(p.cursor))' /\ ~NewCall(p.cursor).aborted
    <2>1. CallOK(NewCall(p.cursor))
      BY NewCallOK
    <2>2. QED
      BY <2>1, CallGrows DEF NewCall
  <1>4. ~Subscribed'
    BY NobodyServed DEF Subscribed
  <1>5. CallsOK'
    BY <1>1, <1>2, <1>3 DEF CallsOK
  <1>6. OneAlive'
    BY <1>1, <1>2, <1>3 DEF OneAlive
  <1>7. QED
    BY <1>1, <1>4, <1>5, <1>6 DEF CallsInv, Resumes

-----------------------------------------------------------------------------
(* The machine's steps.                                                         *)

LEMMA DrainedIs ==
  ASSUME NEW m, Told(m), NEW cursor \in Cursors
  PROVE  LET d == Drained(m, cursor) IN
         /\ d.pages = Pages(m, cursor) /\ d.over \in BOOLEAN /\ d.stream \in StreamSet
         /\ d.over => d.stream = Free
         /\ ~d.over => /\ d.stream.open /\ ~d.stream.cancelled /\ ~d.stream.leaked
                       /\ d.stream.cursor = IF d.pages = <<>> THEN cursor ELSE Ended(d.pages)
  <1> DEFINE pages == Pages(m, cursor)
             done == pages # <<>> /\ m.status = "terminal"
             next == IF pages = <<>> THEN cursor ELSE After(pages[Len(pages)])
             st == [open |-> TRUE, heard |-> TRUE, cancelled |-> FALSE, leaked |-> FALSE,
                    cursor |-> next]
  <1>1. pages \in Seq(PageSet)
    BY PagesFollow
  <1>2. next \in Cursors
    <2>1. pages # <<>> => pages[Len(pages)] \in PageSet
      BY <1>1, HeadIsFirst
    <2>2. QED
      BY <2>1, PageFields
  <1>3. Free \in StreamSet
    BY BoundsAssumption DEF Free, NoCursor, StreamSet, Cursors
  <1>4. Drained(m, cursor) = [pages |-> pages, over |-> done,
                              stream |-> IF done THEN Free ELSE st]
    BY DEF Drained
  <1> HIDE DEF pages
  <1>5. st \in StreamSet
    BY <1>2 DEF StreamSet
  <1>6. done \in BOOLEAN
    OBVIOUS
  <1> HIDE DEF done
  <1>7. QED
    BY <1>3, <1>4, <1>5, <1>6 DEF Ended, pages

LEMMA FreeIsUnsubscribed == ASSUME stream' = Free PROVE ~Subscribed'
  BY DEF Free, Subscribed

SendsToReader(d) ==
  /\ stream' = IF d.over THEN Free
               ELSE [d.stream EXCEPT !.cancelled = stream.cancelled, !.leaked = stream.leaked]
  /\ calls' = {IF Reading(c) THEN [c EXCEPT !.pipe = @ \o d.pages, !.over = d.over] ELSE c : c \in calls}
LEMMA SentToReader ==
  ASSUME Core, NEW m, Told(m), Subscribed, UNCHANGED store, UNCHANGED phone,
         NEW d, d = Drained(m, stream.cursor), SendsToReader(d)
  PROVE  CallsInv' /\ stream' \in StreamSet
  <1> DEFINE rec(c) == [c EXCEPT !.pipe = @ \o d.pages, !.over = d.over]
  <1>1. stream.cursor \in Cursors /\ stream \in StreamSet
    BY DEF Core, StreamSet
  <1>2. /\ d.pages = Pages(m, stream.cursor) /\ d.over \in BOOLEAN /\ d.stream \in StreamSet
        /\ d.over => d.stream = Free
        /\ ~d.over => /\ d.stream.open /\ ~d.stream.cancelled /\ ~d.stream.leaked
                      /\ d.stream.cursor = IF d.pages = <<>> THEN stream.cursor ELSE Ended(d.pages)
    BY <1>1, DrainedIs
  <1>3. d.pages \in Seq(PageSet)
    BY <1>1, <1>2, PagesFollow
  <1>4. Grows
    BY SameStore DEF Core
  <1>5. ASSUME NEW c \in calls, Reading(c)
        PROVE  /\ CallOK(rec(c))' /\ rec(c).aborted = c.aborted /\ Reading(rec(c))
               /\ rec(c).failed = c.failed /\ rec(c).over = d.over
               /\ Sent(rec(c)) = Sent(c) \o d.pages /\ Sent(c) \in Seq(PageSet) /\ Continues(c)
    <2>1. CallOK(c) /\ c \in CallSet
      BY DEF Core, CallsInv, CallsOK, CallOK
    <2>2. c.chunk \in Seq(PageSet) /\ c.pipe \in Seq(PageSet) /\ Sent(c) \in Seq(PageSet)
      BY <2>1, SentIs
    <2>3. c.pipe \o d.pages \in Seq(PageSet)
      BY <1>3, <2>2, ConcatProperties
    <2>4. /\ rec(c) \in CallSet /\ rec(c).chunk = c.chunk /\ rec(c).pipe = c.pipe \o d.pages
          /\ rec(c).stage = c.stage /\ rec(c).current = c.current /\ rec(c).aborted = c.aborted
          /\ rec(c).failed = c.failed /\ rec(c).over = d.over
      BY <1>2, <2>1, <2>3 DEF CallSet
    <2>5. ~c.aborted /\ c.stage # "asked"
      BY <1>5 DEF Reading
    <2>6. Continues(c)
      BY <2>5, TheReader
    <2>7. CallOK(rec(c)) /\ Sent(rec(c)) = Sent(c) \o d.pages
      <3> DEFINE r == rec(c)
                 pages == Pages(m, stream.cursor)
      <3>1. /\ r \in CallSet /\ r.chunk = c.chunk /\ r.pipe = c.pipe \o pages /\ r.stage = c.stage
            /\ r.current = c.current /\ r.aborted = c.aborted /\ r.stage # "asked"
        BY <1>2, <2>4, <2>5
      <3>2. IF Sent(c) = <<>> THEN Covered(stream.cursor) ELSE stream.cursor = Ended(Sent(c))
        BY <2>6 DEF Continues
      <3> HIDE DEF r
      <3>3. CallOK(r) /\ Sent(r) = Sent(c) \o pages
        BY <1>1, <2>1, <3>1, <3>2, ReceivedOK
      <3>4. QED
        BY <3>3, <1>2 DEF r
    <2>8. QED
      BY <1>4, <2>2, <2>4, <2>5, <2>6, <2>7, CallGrows DEF Reading
  <1> HIDE DEF rec
  <1>6. calls' = {IF Reading(c) THEN rec(c) ELSE c : c \in calls}
    BY DEF rec, SendsToReader
  <1>7. stream' \in StreamSet
    BY <1>1, <1>2 DEF StreamSet, SendsToReader
  <1>8. CallsOK'
    BY <1>4, <1>5, <1>6, CallGrows DEF Core, CallsInv, CallsOK
  <1>9. OneAlive'
    <2>1. \A x \in calls' : \E c \in calls : x = (IF Reading(c) THEN rec(c) ELSE c) /\ x.aborted = c.aborted
      BY <1>5, <1>6
    <2>2. ASSUME NEW x \in calls', NEW y \in calls', ~x.aborted, ~y.aborted PROVE x = y
      <3>1. PICK c \in calls : x = (IF Reading(c) THEN rec(c) ELSE c) /\ x.aborted = c.aborted
        BY <2>1
      <3>2. PICK e \in calls : y = (IF Reading(e) THEN rec(e) ELSE e) /\ y.aborted = e.aborted
        BY <2>1
      <3>3. c = e
        BY <2>2, <3>1, <3>2 DEF Core, CallsInv, OneAlive
      <3>4. QED
        BY <3>1, <3>2, <3>3
    <2>3. phone.retry \/ ~phone.foreground => \A x \in calls' : x.aborted
      BY <2>1 DEF Core, CallsInv, OneAlive
    <2>4. QED
      BY <2>2, <2>3 DEF Core, CallsInv, OneAlive
  <1>10. Resumes'
    <2>1. CASE d.over
      <3>1. ~Subscribed'
        BY <2>1, <1>2, FreeIsUnsubscribed DEF SendsToReader
      <3>2. QED
        BY <3>1 DEF Resumes
    <2>2. CASE ~d.over
      <3>1. stream'.cursor = IF d.pages = <<>> THEN stream.cursor ELSE Ended(d.pages)
        BY <1>2, <2>2 DEF StreamSet, SendsToReader
      <3>2. \E x \in calls' : Reading(x) /\ ~x.failed /\ ~x.over
        <4>1. PICK c \in calls : Reading(c) /\ ~c.failed /\ ~c.over
          BY DEF Core, CallsInv, Resumes
        <4>2. QED
          BY <4>1, <1>5, <1>6, <2>2
      <3>3. ASSUME NEW x \in calls', Reading(x) PROVE Continues(x)'
        <4>1. PICK c \in calls : Reading(c) /\ x = rec(c)
          BY <1>6, <3>3
        <4>2. Sent(x) = Sent(c) \o d.pages /\ Sent(c) \in Seq(PageSet) /\ Continues(c)
          BY <4>1, <1>5
        <4>3. CASE d.pages = <<>>
          <5>1. Sent(x) = Sent(c) /\ stream'.cursor = stream.cursor
            BY <4>2, <4>3, <1>3, <3>1, EndsOfJoin
          <5>2. QED
            BY <5>1, <4>2, <1>1, <1>4, CoveredGrows DEF Continues
        <4>4. CASE d.pages # <<>>
          <5>1. Sent(x) # <<>> /\ Sent(x)[Len(Sent(x))] = d.pages[Len(d.pages)]
            <6>1. LET j == Sent(c) \o d.pages IN j # <<>> /\ j[Len(j)] = d.pages[Len(d.pages)]
              BY <4>2, <4>4, <1>3, EndsOfJoin
            <6>2. QED
              BY <4>2, <6>1
          <5>2. QED
            BY <5>1, <3>1, <4>4 DEF Continues, Ended
        <4>5. QED
          BY <4>3, <4>4
      <3>4. QED
        BY <3>2, <3>3 DEF Resumes, Reading
    <2>3. QED
      BY <2>1, <2>2
  <1>11. QED
    BY <1>7, <1>8, <1>9, <1>10 DEF CallsInv

LEMMA CapturedKeeps ==
  ASSUME Core, NEW m, Told(m), Captured(m)
  PROVE  Core'
  <1>1. machine' = m /\ UNCHANGED phone /\ UNCHANGED saving /\ UNCHANGED store
    BY DEF Captured
  <1>2. StoreInv' /\ Grows
    BY <1>1, SameStore DEF Core
  <1>3. PhoneInv' /\ RecordsInv' /\ Told(machine)'
    BY <1>1, <1>2, SamePhone, SameRecords DEF Core, Told
  <1>4. PICK d : d = Drained(m, stream.cursor)
    OBVIOUS
  <1>5. stream \in StreamSet /\ stream.cursor \in Cursors
    BY DEF Core, StreamSet
  <1>6. CASE ~(stream.open /\ stream.heard)
    <2>1. UNCHANGED stream /\ UNCHANGED calls
      BY <1>6 DEF Captured
    <2>2. CallsInv' /\ stream' \in StreamSet
      BY <1>1, <1>2, <1>5, <2>1, SameCalls
    <2>3. QED
      BY <1>2, <1>3, <2>2 DEF Core
  <1>7. CASE stream.open /\ stream.heard /\ ~Subscribed
    <2>1. calls' = calls
      BY <1>7 DEF Captured, Subscribed
    <2>2. stream' = IF d.over THEN Free
                    ELSE [d.stream EXCEPT !.cancelled = stream.cancelled, !.leaked = stream.leaked]
      BY <1>7, <1>4 DEF Captured
    <2>3. d.stream \in StreamSet /\ (d.over => d.stream = Free)
      BY <1>5, <1>4, DrainedIs
    <2>4. stream' \in StreamSet
      BY <1>5, <2>2, <2>3 DEF StreamSet
    <2>5. ~Subscribed'
      BY <1>5, <1>7, <2>2, <2>3 DEF Subscribed, StreamSet, Free
    <2>6. CallsInv'
      BY <1>1, <1>2, <2>1, <2>5, SameCalls
    <2>7. QED
      BY <1>2, <1>3, <2>4, <2>6 DEF Core
  <1>8. CASE stream.open /\ stream.heard /\ Subscribed
    <2>1. SendsToReader(d)
      BY <1>8, <1>4 DEF Captured, Subscribed, SendsToReader
    <2>2. CallsInv' /\ stream' \in StreamSet
      BY <1>1, <1>8, <1>4, <2>1, SentToReader
    <2>3. QED
      BY <1>2, <1>3, <2>2 DEF Core
  <1>9. QED
    BY <1>6, <1>7, <1>8

LEMMA StartShotKeeps ==
  ASSUME Core, StartShot
  PROVE  Core'
  <1> DEFINE m == [machine EXCEPT !.id = machine.id + 1, !.latest = 1, !.status = "running"]
  <1>1. Told(m)
    <2>1. machine.id \in 0..MaxShots /\ machine.id < MaxShots /\ MaxShots \in Nat
      BY BoundsAssumption DEF Core, Told, StartShot
    <2>2. machine.id + 1 \in Shots /\ machine.id + 1 \in 0..MaxShots
      BY <2>1 DEF Shots
    <2>3. m \in [boot : Boots, id : 0..MaxShots, latest : Nat, status : TelemetryStatuses \cup {"idle"}]
      BY <2>2 DEF Core, Told, TelemetryStatuses
    <2>4. m.status # "idle" /\ m.id = machine.id + 1
      BY DEF Core, Told
    <2>5. QED
      BY <2>2, <2>3, <2>4 DEF Told
  <1>2. Captured([machine EXCEPT !.id = @ + 1, !.latest = 1, !.status = "running"])
    BY DEF StartShot
  <1>3. PICK n : n = m
    OBVIOUS
  <1>4. Captured(n)
    BY <1>2, <1>3
  <1>5. QED
    BY <1>1, <1>3, <1>4, CapturedKeeps

LEMMA CaptureKeeps ==
  ASSUME Core, Capture \/ StopShot \/ Settled
  PROVE  Core'
  <1>1. PICK status \in TelemetryStatuses :
          Captured([machine EXCEPT !.latest = machine.latest + 1, !.status = status])
    <2>1. CASE Capture
      <3>1. [machine EXCEPT !.latest = machine.latest + 1]
            = [machine EXCEPT !.latest = machine.latest + 1, !.status = machine.status]
        BY DEF Core, Told
      <3>2. machine.status \in TelemetryStatuses
        BY <2>1 DEF Capture, TelemetryStatuses
      <3>3. Captured([machine EXCEPT !.latest = machine.latest + 1])
        BY <2>1 DEF Capture
      <3>4. QED
        BY <3>1, <3>2, <3>3
    <2>2. CASE StopShot
      BY <2>2 DEF StopShot, TelemetryStatuses
    <2>3. CASE Settled
      BY <2>3 DEF Settled, TelemetryStatuses
    <2>4. QED
      BY <2>1, <2>2, <2>3
  <1>2. PICK n : n = [machine EXCEPT !.latest = machine.latest + 1, !.status = status]
    OBVIOUS
  <1>3. machine.status # "idle"
    BY DEF Capture, StopShot, Settled
  <1>4. Told(n)
    <2>1. /\ n \in [boot : Boots, id : 0..MaxShots, latest : Nat, status : TelemetryStatuses \cup {"idle"}]
          /\ n.id = machine.id /\ n.status = status
      <3>1. machine \in [boot : Boots, id : 0..MaxShots, latest : Nat, status : TelemetryStatuses \cup {"idle"}]
        BY DEF Core, Told
      <3>2. machine.latest + 1 \in Nat
        BY <3>1
      <3>3. QED
        BY <1>2, <3>1, <3>2
    <2>2. machine.id \in Shots /\ status # "idle"
      BY <1>3 DEF Core, Told, TelemetryStatuses
    <2>3. QED
      BY <2>1, <2>2 DEF Told
  <1>5. QED
    BY <1>1, <1>2, <1>4, CapturedKeeps

LEMMA PowerCycleKeeps ==
  ASSUME Core, PowerCycle
  PROVE  Core'
  <1>1. /\ UNCHANGED <<phone, calls, saving, store>> /\ stream' = [stream EXCEPT !.heard = FALSE]
        /\ machine' = [boot |-> machine.boot + 1, id |-> 0, latest |-> 0, status |-> "idle"]
        /\ machine.boot < MaxBoots
    BY DEF PowerCycle
  <1>2. Told(machine)'
    BY <1>1, BoundsAssumption DEF Core, Told, Boots
  <1>3. /\ stream' \in StreamSet /\ stream'.open = stream.open /\ stream'.cursor = stream.cursor
        /\ stream'.cancelled = stream.cancelled /\ stream'.leaked = stream.leaked
    BY <1>1 DEF Core, StreamSet
  <1>4. StoreInv' /\ Grows
    BY <1>1, SameStore DEF Core
  <1>5. CallsOK' /\ OneAlive'
    BY <1>1, <1>4, CallGrows DEF Core, CallsInv, CallsOK, OneAlive
  <1>6. Resumes'
    <2> SUFFICES ASSUME Subscribed'
                 PROVE  /\ \E c \in calls : Reading(c) /\ ~c.failed /\ ~c.over
                        /\ \A c \in calls : Reading(c) => Continues(c)'
      BY <1>1 DEF Resumes, Reading
    <2>1. Subscribed /\ stream.cursor \in Cursors
      BY <1>3 DEF Subscribed, Core, StreamSet
    <2>2. ASSUME NEW c \in calls, Reading(c) PROVE Continues(c)'
      BY <2>1, <2>2, <1>3, <1>4, CoveredGrows DEF Core, CallsInv, Resumes, Continues
    <2>3. QED
      BY <2>1, <2>2 DEF Core, CallsInv, Resumes
  <1>7. QED
    BY <1>1, <1>2, <1>3, <1>4, <1>5, <1>6, SamePhone, SameRecords DEF Core, CallsInv

(* Steps that leave the database and the phone's session alone. *)
LEMMA SessionStays ==
  ASSUME Core, UNCHANGED <<machine, phone, saving, store>>
  PROVE  Told(machine)' /\ PhoneInv' /\ StoreInv' /\ RecordsInv' /\ Grows
  BY SameStore, SamePhone, SameRecords DEF Core, Told

LEMMA ServeKeeps ==
  ASSUME Core, Serve
  PROVE  Core'
  <1>1. PICK c \in calls :
          /\ c.stage = "asked" /\ ~c.aborted
          /\ IF stream.open \/ machine.id = 0
             THEN /\ calls' = (calls \ {c}) \cup {[c EXCEPT !.stage = "reading", !.failed = TRUE]}
                  /\ UNCHANGED stream
             ELSE LET d == Drained(machine, c.cursor) IN
                  /\ stream' = d.stream
                  /\ calls' = (calls \ {c}) \cup
                       {[c EXCEPT !.stage = "reading", !.pipe = d.pages, !.over = d.over]}
    BY DEF Serve
  <1>2. UNCHANGED <<machine, phone, saving, store>>
    BY DEF Serve
  <1>3. Told(machine)' /\ PhoneInv' /\ StoreInv' /\ RecordsInv' /\ Grows
    BY <1>2, SessionStays
  <1>4. CallOK(c) /\ c \in CallSet /\ Shaped(c) /\ InStore(c)
    BY DEF Core, CallsInv, CallsOK, CallOK
  <1>5. ~Subscribed
    BY <1>1, TheReader DEF Reading
  <1>6. CASE stream.open \/ machine.id = 0
    <2> DEFINE d == [c EXCEPT !.stage = "reading", !.failed = TRUE]
    <2>1. calls' = (calls \ {c}) \cup {d} /\ UNCHANGED stream
      BY <1>1, <1>6
    <2>2. CallOK(d)
      BY <1>1, <1>4, RefusedOK
    <2>3. d.aborted = c.aborted
      BY <1>4 DEF CallSet
    <2> HIDE DEF d
    <2>4. CallOK(d)'
      BY <1>3, <2>2, CallGrows
    <2>5. ~Subscribed'
      BY <1>5, <2>1 DEF Subscribed
    <2>6. CallsInv'
      BY <1>2, <1>3, <2>1, <2>3, <2>4, <2>5, OneBecomes
    <2>7. QED
      BY <1>3, <2>1, <2>6 DEF Core
  <1>7. CASE ~(stream.open \/ machine.id = 0)
    <2>1. c.cursor \in Cursors /\ Told(machine)
      BY <1>4 DEF CallSet, Core
    <2>2. PICK s : s = Drained(machine, c.cursor)
      OBVIOUS
    <2>3. PICK pages : pages = Pages(machine, c.cursor)
      OBVIOUS
    <2>4. /\ s.pages = pages /\ s.over \in BOOLEAN /\ s.stream \in StreamSet
          /\ s.over => s.stream = Free
          /\ ~s.over => s.stream.cursor = IF pages = <<>> THEN c.cursor ELSE Ended(pages)
      BY <2>1, <2>2, <2>3, DrainedIs
    <2>5. pages \in Seq(PageSet)
      BY <2>1, <2>3, PagesFollow
    <2> DEFINE d == [c EXCEPT !.stage = "reading", !.pipe = pages, !.over = s.over]
    <2>6. stream' = s.stream /\ calls' = (calls \ {c}) \cup {d}
      BY <1>1, <1>7, <2>2, <2>4
    <2>7. c.chunk = <<>> /\ c.pipe = <<>> /\ Sent(c) = <<>> /\ Covered(c.cursor) /\ ~c.failed
      BY <1>1, <1>4, SentIs DEF Shaped, InStore
    <2>8. c.pipe \o pages = pages
      BY <2>5, <2>7, EndsOfJoin, EmptySeq
    <2>9. /\ d \in CallSet /\ d.chunk = c.chunk /\ d.pipe = pages /\ d.stage = "reading"
          /\ d.current = c.current /\ d.aborted = c.aborted /\ ~d.failed /\ d.over = s.over
      BY <1>4, <2>4, <2>5, <2>7 DEF CallSet
    <2> HIDE DEF d
    <2>10. CallOK(d) /\ Sent(d) = Sent(c) \o pages
      <3>1. d.pipe = c.pipe \o Pages(machine, c.cursor) /\ d.stage # "asked" /\ d.stage \notin Pending
        BY <2>3, <2>8, <2>9 DEF Pending
      <3>2. CallOK(d) /\ Sent(d) = Sent(c) \o Pages(machine, c.cursor)
        BY <1>4, <2>1, <2>7, <2>9, <3>1, ReceivedOK
      <3>3. QED
        BY <2>3, <3>2
    <2>11. CallOK(d)' /\ Sent(d) = pages
      BY <1>3, <2>5, <2>7, <2>10, EndsOfJoin, EmptySeq, CallGrows
    <2>12. Subscribed' => Reading(d) /\ ~d.failed /\ ~d.over /\ Continues(d)'
      <3> SUFFICES ASSUME Subscribed' PROVE Reading(d) /\ ~d.failed /\ ~d.over /\ Continues(d)'
        OBVIOUS
      <3>1. ~s.over
        BY <2>4, <2>6, FreeIsUnsubscribed
      <3>2. Reading(d) /\ ~d.failed /\ ~d.over
        BY <1>1, <2>9, <3>1 DEF Reading
      <3>3. Covered(c.cursor)'
        BY <1>3, <2>1, <2>7, CoveredGrows
      <3>4. stream'.cursor = IF pages = <<>> THEN c.cursor ELSE Ended(pages)
        BY <2>4, <2>6, <3>1
      <3>5. Continues(d)'
        BY <2>11, <3>3, <3>4 DEF Continues
      <3>6. QED
        BY <3>2, <3>5
    <2>13. CallsInv'
      BY <1>2, <1>3, <2>6, <2>9, <2>11, <2>12, OneBecomes
    <2>14. QED
      BY <1>3, <2>4, <2>6, <2>13 DEF Core
  <1>8. QED
    BY <1>6, <1>7

LEMMA ReleaseKeeps ==
  ASSUME Core, Release
  PROVE  Core'
  <1>1. UNCHANGED <<machine, phone, calls, saving, store>> /\ stream' = Free
    BY DEF Release
  <1>2. Told(machine)' /\ PhoneInv' /\ StoreInv' /\ RecordsInv' /\ Grows
    BY <1>1, SessionStays
  <1>3. stream' \in StreamSet
    BY <1>1, BoundsAssumption DEF Free, NoCursor, StreamSet, Cursors
  <1>4. CallsInv'
    BY <1>1, <1>2, FreeIsUnsubscribed, SameCalls
  <1>5. QED
    BY <1>2, <1>3, <1>4 DEF Core

LEMMA DropKeeps ==
  ASSUME Core, Drop
  PROVE  Core'
  <1>1. PICK c \in calls : /\ Reading(c) /\ ~c.failed
                           /\ calls' = (calls \ {c}) \cup {[c EXCEPT !.pipe = <<>>, !.failed = TRUE]}
    BY DEF Drop
  <1>2. /\ UNCHANGED <<machine, phone, saving, store>>
        /\ stream' = IF stream.leaked THEN stream ELSE [stream EXCEPT !.cancelled = stream.open]
    BY DEF Drop
  <1>3. Told(machine)' /\ PhoneInv' /\ StoreInv' /\ RecordsInv' /\ Grows
    BY <1>2, SessionStays
  <1> DEFINE d == [c EXCEPT !.pipe = <<>>, !.failed = TRUE]
  <1>4. CallOK(c) /\ c \in CallSet /\ c.stage # "asked"
    BY <1>1 DEF Core, CallsInv, CallsOK, CallOK, Reading
  <1>5. CallOK(d) /\ d.aborted = c.aborted
    BY <1>4, DroppedOK DEF CallSet
  <1> HIDE DEF d
  <1>6. CallOK(d)'
    BY <1>3, <1>5, CallGrows
  <1>7. stream' \in StreamSet /\ ~Subscribed'
    BY <1>2 DEF Core, StreamSet, Subscribed
  <1>8. CallsInv'
    BY <1>1, <1>2, <1>3, <1>5, <1>6, <1>7, OneBecomes DEF d
  <1>9. QED
    BY <1>3, <1>7, <1>8 DEF Core

-----------------------------------------------------------------------------
(* The session's steps.                                                         *)

LEMMA NoCursorIs == NoCursor \in Cursors /\ Covered(NoCursor)
  BY BoundsAssumption DEF NoCursor, Cursors, Covered, Keys, Boots

LEMMA AbortedAre ==
  ASSUME Core, Grows, NEW d \in Aborted
  PROVE  CallOK(d)' /\ d.aborted /\ CallOK([d EXCEPT !.current = FALSE])'
         /\ [d EXCEPT !.current = FALSE].aborted
  <1>1. PICK c \in calls : c.stage # "asked" /\ d = [c EXCEPT !.aborted = TRUE, !.pipe = <<>>]
    BY DEF Aborted
  <1>2. CallOK(c) /\ c \in CallSet
    BY DEF Core, CallsInv, CallsOK, CallOK
  <1>3. CallOK(d) /\ d.aborted
    BY <1>1, <1>2, AbortedOK DEF CallSet
  <1>4. CallOK([d EXCEPT !.current = FALSE]) /\ [d EXCEPT !.current = FALSE].aborted
    BY <1>3, SupersededOK DEF CallOK, CallSet
  <1>5. QED
    BY <1>3, <1>4, CallGrows

LEMMA PollKeeps ==
  ASSUME Core, Poll
  PROVE  Core'
  <1>1. PICK state : state = <<machine.id, IF machine.status = "running" THEN "running" ELSE "idle">>
    OBVIOUS
  <1>2. PICK p : p = Observed([phone EXCEPT !.polled = state], state[1])
    OBVIOUS
  <1>3. /\ saving' = (IF world.records
                      THEN saving \cup {[state |-> state, stage |-> "mark", found |-> <<>>]} ELSE saving)
        /\ phone' = p
        /\ IF p.shot = phone.shot THEN UNCHANGED <<calls, stream>>
           ELSE calls' = Aborted /\ stream' = Cancelled
        /\ UNCHANGED machine /\ UNCHANGED store /\ phone.foreground
    BY <1>1, <1>2 DEF Poll
  <1>4. Told(machine)' /\ StoreInv' /\ Grows
    BY <1>3, SameStore DEF Core, Told
  <1>5. state \in (0..MaxShots) \X {"running", "idle"} /\ state[1] \in 0..MaxShots
    BY <1>1 DEF Core, Told
  <1>6. RecordsInv'
    <2> DEFINE r == [state |-> state, stage |-> "mark", found |-> <<>>]
    <2>1. saving' \subseteq saving \cup {r}
      BY <1>3
    <2>2. r \in [state : (0..MaxShots) \X {"running", "idle"}, stage : {"mark", "select", "write"},
                 found : RecordKeys \cup {<<>>}] /\ r.stage = "mark"
      BY <1>5
    <2> HIDE DEF r
    <2>3. QED
      BY <1>3, <2>1, <2>2 DEF Core, RecordsInv, SavingTyped, PendingNotComplete
  <1>7. /\ PhoneTyped(phone) /\ Covered(phone.cursor)
    BY DEF Core, PhoneInv
  <1>8. CASE p.shot = phone.shot
    <2>1. p = [phone EXCEPT !.polled = state]
      BY <1>2, <1>7, <1>8, <1>5 DEF Observed, PhoneTyped, PhoneFields
    <2>2. PhoneTyped(p) /\ p.cursor = phone.cursor /\ p.retry = phone.retry /\ p.foreground = phone.foreground
      BY <2>1, <1>7 DEF PhoneTyped, PhoneFields
    <2>3. PhoneInv'
      BY <1>3, <1>4, <1>7, <2>2, CoveredGrows DEF PhoneInv, PhoneTyped
    <2>4. CallsInv'
      BY <1>3, <1>4, <1>8, <2>2, SameCalls
    <2>5. QED
      BY <1>3, <1>4, <1>6, <1>8, <2>3, <2>4 DEF Core
  <1>9. CASE p.shot # phone.shot
    <2> DEFINE q == [phone EXCEPT !.polled = state]
    <2>1. DOMAIN q = PhoneFields /\ q.foreground = phone.foreground /\ q.retry = phone.retry /\ q.shot = phone.shot
      BY <1>7 DEF PhoneTyped, PhoneFields
    <2> HIDE DEF q
    <2>2. p = IF state[1] \in {0, q.shot} THEN q
              ELSE [q EXCEPT !.shot = state[1], !.cursor = NoCursor, !.ready = FALSE, !.trace = NoTrace,
                             !.armed = TRUE, !.cut = FALSE]
      BY <1>2 DEF Observed, q
    <2>3. state[1] \notin {0, q.shot}
      BY <1>9, <2>1, <2>2
    <2>4. p = [q EXCEPT !.shot = state[1], !.cursor = NoCursor, !.ready = FALSE, !.trace = NoTrace,
                        !.armed = TRUE, !.cut = FALSE]
      BY <2>2, <2>3
    <2>5. /\ DOMAIN p = PhoneFields /\ p.foreground = phone.foreground /\ p.retry = phone.retry
          /\ p.shot = state[1] /\ p.cursor = NoCursor
      BY <2>1, <2>4 DEF PhoneFields
    <2>6. state[1] \in Shots
      BY <1>5, <2>3, BoundsAssumption DEF Shots
    <2>7. PhoneTyped(p)
      BY <1>5, <1>7, <2>5, <2>6, NoCursorIs DEF PhoneTyped
    <2>8. PhoneInv'
      BY <1>3, <1>4, <2>5, <2>7, NoCursorIs, CoveredGrows DEF PhoneInv, PhoneTyped
    <2>9. stream' \in StreamSet /\ ~Subscribed'
      BY <1>3, <1>9, CancelledIs
    <2>10. CallsInv'
      <3>1. \A d \in calls' : CallOK(d)' /\ d.aborted
        BY <1>3, <1>4, <1>9, AbortedAre
      <3>2. phone'.foreground
        BY <1>3, <2>5
      <3>3. QED
        BY <2>9, <3>1, <3>2, NobodyAlive
    <2>11. QED
      BY <1>4, <1>6, <2>8, <2>9, <2>10 DEF Core
  <1>10. QED
    BY <1>8, <1>9

LEMMA LatestIs ==
  ASSUME StoreInv, NEW key \in Keys, Stored(key) # {}
  PROVE  Latest(Stored(key)) \in Stored(key) /\ UpTo(key, Latest(Stored(key)))
  <1>1. PICK m \in Stored(key) : \A n \in Stored(key) : n <= m
    BY BoundedHasMax DEF StoreInv, StoreGapless
  <1>2. Stored(key) \subseteq Nat
    BY StoreFields DEF StoreInv
  <1>3. Latest(Stored(key)) \in Stored(key)
    BY <1>1, <1>2 DEF Latest, Max
  <1>4. QED
    BY <1>3 DEF StoreInv, StoreGapless

LEMMA LoadedStays ==
  ASSUME Core, LoadTrace
  PROVE  /\ StoreInv' /\ Grows /\ store'.records = store.records
         /\ \A key \in Keys : Stored(key)' = Stored(key)
  <1>1. PICK key : key = <<store.newest[phone.shot], phone.shot>>
    OBVIOUS
  <1>2. IF store.newest[phone.shot] = 0 THEN UNCHANGED store
        ELSE store' = [store EXCEPT !.traces[key].cache = Stored(key)]
    BY <1>1 DEF LoadTrace
  <1>3. store.newest[phone.shot] # 0 => key \in Keys
    <2>1. phone.shot \in Shots
      BY DEF LoadTrace, Core, PhoneInv, PhoneTyped
    <2>2. QED
      BY <1>1, <2>1, StoreFields, BoundsAssumption DEF Core, StoreInv, Keys, Boots
  <1>4. CASE UNCHANGED store
    BY <1>4, SameStore DEF Core, Stored
  <1>5. CASE store.newest[phone.shot] # 0
    BY <1>2, <1>3, <1>5, CachedKeeps DEF Core
  <1>6. QED
    BY <1>2, <1>4, <1>5

LEMMA LoadTraceKeeps ==
  ASSUME Core, LoadTrace
  PROVE  Core'
  <1>1. PICK boot : boot = store.newest[phone.shot]
    OBVIOUS
  <1>2. PICK key : key = <<boot, phone.shot>>
    OBVIOUS
  <1>3. PICK q : q = [phone EXCEPT !.ready = TRUE]
    OBVIOUS
  <1>4. PICK p : p = IF boot = 0 THEN [q EXCEPT !.trace = NoTrace]
          ELSE [q EXCEPT !.trace = [key |-> key, samples |-> Stored(key), whole |-> FALSE],
                         !.cursor = IF Stored(key) = {} THEN q.cursor
                                    ELSE [boot |-> boot, id |-> phone.shot,
                                          after |-> Latest(Stored(key))]]
    OBVIOUS
  <1>5. /\ EnsureConnected(p, calls) /\ ~phone.ready /\ UNCHANGED <<machine, stream, saving>>
        /\ IF boot = 0 THEN UNCHANGED store
           ELSE store' = [store EXCEPT !.traces[key].cache = Stored(key)]
    BY <1>1, <1>2, <1>3, <1>4 DEF LoadTrace
  <1>7. PhoneTyped(phone) /\ Covered(phone.cursor) /\ phone.shot \in Shots
    BY <1>5 DEF Core, PhoneInv, PhoneTyped
  <1>8. boot \in 0..MaxBoots /\ (boot # 0 => key \in Keys)
    BY <1>1, <1>2, <1>7, StoreFields, BoundsAssumption DEF Core, StoreInv, Keys, Boots
  <1>6. Told(machine)' /\ StoreInv' /\ RecordsInv' /\ Grows /\ stream' \in StreamSet
    BY <1>5, LoadedStays, SameRecords DEF Core, Told
  <1>9. /\ DOMAIN q = PhoneFields /\ q.cursor = phone.cursor /\ q.retry = phone.retry
        /\ q.foreground = phone.foreground /\ q.shot = phone.shot /\ q.ready
    BY <1>3, <1>7 DEF PhoneTyped, PhoneFields
  <1>10. /\ DOMAIN p = PhoneFields /\ p.retry = phone.retry /\ p.foreground = phone.foreground
         /\ p.shot = phone.shot /\ p.ready
         /\ p.cursor = IF boot = 0 \/ Stored(key) = {} THEN phone.cursor
                       ELSE [boot |-> boot, id |-> phone.shot, after |-> Latest(Stored(key))]
    BY <1>4, <1>9 DEF PhoneFields
  <1>11. p.cursor \in Cursors /\ Covered(p.cursor)
    <2>1. CASE boot = 0 \/ Stored(key) = {}
      BY <2>1, <1>7, <1>10 DEF PhoneTyped
    <2>2. CASE ~(boot = 0 \/ Stored(key) = {})
      <3>1. key \in Keys /\ Latest(Stored(key)) \in Stored(key) /\ UpTo(key, Latest(Stored(key)))
        BY <2>2, <1>8, LatestIs DEF Core
      <3>2. Latest(Stored(key)) \in Nat
        BY <3>1, StoreFields DEF Core, StoreInv
      <3>3. p.cursor \in Cursors
        BY <2>2, <3>2, <1>7, <1>8, <1>10 DEF Cursors, PhoneTyped
      <3>4. p.cursor.boot = boot /\ p.cursor.id = phone.shot /\ p.cursor.after = Latest(Stored(key))
        BY <2>2, <1>10
      <3>5. Covered(p.cursor)
        BY <3>1, <3>4, <1>2 DEF Covered
      <3>6. QED
        BY <3>3, <3>5
    <2>3. QED
      BY <2>1, <2>2
  <1>12. PhoneTyped(p)
    BY <1>7, <1>10, <1>11 DEF PhoneTyped
  <1>13. CallsInv' /\ phone' = p
    <2>1. CASE p.foreground /\ p.ready /\ ~p.retry /\ \A c \in calls : c.aborted
      BY <2>1, <1>5, <1>6, <1>11, ConnectsKeeps DEF EnsureConnected
    <2>2. CASE ~(p.foreground /\ p.ready /\ ~p.retry /\ \A c \in calls : c.aborted)
      <3>1. phone' = p /\ UNCHANGED calls
        BY <2>2, <1>5 DEF EnsureConnected
      <3>2. QED
        BY <3>1, <1>5, <1>6, <1>10, SameCalls
    <2>3. QED
      BY <2>1, <2>2
  <1>14. PhoneInv'
    BY <1>6, <1>11, <1>12, <1>13, CoveredGrows DEF PhoneInv
  <1>15. QED
    BY <1>6, <1>13, <1>14 DEF Core

LEMMA ForegroundKeeps ==
  ASSUME Core, Foreground
  PROVE  Core'
  <1>1. PICK p : p = [phone EXCEPT !.foreground = TRUE]
    OBVIOUS
  <1>2. /\ ~phone.foreground /\ UNCHANGED <<machine, stream, saving, store>>
        /\ IF p.ready THEN Connects(p, calls) ELSE phone' = p /\ UNCHANGED calls
    BY <1>1 DEF Foreground
  <1>3. Told(machine)' /\ StoreInv' /\ RecordsInv' /\ Grows /\ stream' \in StreamSet
    BY <1>2, SameStore, SameRecords DEF Core, Told
  <1>4. PhoneTyped(phone) /\ Covered(phone.cursor)
    BY DEF Core, PhoneInv
  <1>5. PhoneTyped(p) /\ p.cursor = phone.cursor /\ p.retry = phone.retry /\ p.foreground
    BY <1>1, <1>4 DEF PhoneTyped, PhoneFields
  <1>6. ~phone.retry /\ \A c \in calls : c.aborted
    BY <1>2 DEF Core, CallsInv, OneAlive
  <1>7. CallsInv' /\ phone' = p
    <2>1. CASE p.ready
      BY <2>1, <1>2, <1>3, <1>4, <1>5, <1>6, ConnectsKeeps DEF PhoneTyped
    <2>2. CASE ~p.ready
      <3>1. phone' = p /\ UNCHANGED calls
        BY <2>2, <1>2
      <3>2. ~Subscribed'
        BY <1>2, <1>6, NobodyServed DEF Subscribed
      <3>3. \A c \in calls : CallOK(c)'
        BY <1>3, CallGrows DEF Core, CallsInv, CallsOK
      <3>4. QED
        BY <1>5, <1>6, <3>1, <3>2, <3>3, NobodyAlive
    <2>3. QED
      BY <2>1, <2>2
  <1>8. PhoneInv'
    BY <1>3, <1>4, <1>5, <1>7, CoveredGrows DEF PhoneInv, PhoneTyped
  <1>9. QED
    BY <1>3, <1>7, <1>8 DEF Core

LEMMA BackgroundKeeps ==
  ASSUME Core, Background
  PROVE  Core'
  <1>1. /\ phone' = [phone EXCEPT !.foreground = FALSE, !.retry = FALSE,
                                  !.cut = phone.cut \/ (~phone.armed /\ Alive # {})]
        /\ calls' = Superseded(Aborted) /\ stream' = Cancelled
        /\ UNCHANGED <<machine, saving, store>>
    BY DEF Background, Core, PhoneInv, PhoneTyped, PhoneFields
  <1>2. Told(machine)' /\ StoreInv' /\ RecordsInv' /\ Grows
    BY <1>1, SameStore, SameRecords DEF Core, Told
  <1>3. stream' \in StreamSet /\ ~Subscribed'
    BY <1>1, CancelledIs
  <1>4. PhoneTyped(phone) /\ Covered(phone.cursor)
    BY DEF Core, PhoneInv
  <1>5. PhoneTyped(phone)' /\ phone'.cursor = phone.cursor /\ ~phone'.retry
    BY <1>1, <1>4 DEF PhoneTyped, PhoneFields
  <1>6. PhoneInv'
    BY <1>2, <1>4, <1>5, CoveredGrows DEF PhoneInv, PhoneTyped
  <1>7. \A d \in calls' : CallOK(d)' /\ d.aborted
    BY <1>1, <1>2, AbortedAre DEF Superseded
  <1>8. CallsInv'
    BY <1>3, <1>5, <1>7, NobodyAlive
  <1>9. QED
    BY <1>2, <1>3, <1>6, <1>8 DEF Core

(* A step of one call that neither sends nor takes a page. *)
LEMMA SameSent ==
  ASSUME Core, Grows, UNCHANGED stream, NEW c \in calls, NEW d, calls' = (calls \ {c}) \cup {d},
         CallOK(d)', d.aborted = c.aborted, d.failed = c.failed, d.over = c.over, d.stage # "asked",
         Sent(d) = Sent(c), phone'.retry = phone.retry, phone'.foreground = phone.foreground
  PROVE  CallsInv'
  <1>1. ASSUME Subscribed', ~c.aborted
        PROVE  Reading(d) /\ ~d.failed /\ ~d.over /\ Continues(d)'
    <2>1. Subscribed /\ stream.cursor \in Cursors
      BY <1>1 DEF Subscribed, Core, StreamSet
    <2>2. ~c.failed /\ ~c.over /\ Continues(c)
      BY <1>1, <2>1, TheReader
    <2>3. Continues(d)'
      BY <2>1, <2>2, CoveredGrows DEF Continues
    <2>4. QED
      BY <1>1, <2>2, <2>3 DEF Reading
  <1>2. QED
    BY <1>1, OneBecomes

LEMMA ReadKeeps ==
  ASSUME Core, Read
  PROVE  Core'
  <1>1. PICK c \in calls, n \in 1..MaxSamples :
          /\ Reading(c) /\ c.stage = "reading" /\ c.chunk = <<>> /\ c.pipe # <<>> /\ n <= Len(c.pipe)
          /\ calls' = (calls \ {c}) \cup
               {[c EXCEPT !.chunk = SubSeq(c.pipe, 1, n), !.pipe = SubSeq(c.pipe, n + 1, Len(c.pipe))]}
    BY DEF Read, Becomes
  <1>2. UNCHANGED <<machine, stream, phone, saving, store>>
    BY DEF Read
  <1>3. Told(machine)' /\ PhoneInv' /\ StoreInv' /\ RecordsInv' /\ Grows
    BY <1>2, SessionStays
  <1> DEFINE d == [c EXCEPT !.chunk = SubSeq(c.pipe, 1, n), !.pipe = SubSeq(c.pipe, n + 1, Len(c.pipe))]
  <1>4. CallOK(c) /\ c \in CallSet
    BY DEF Core, CallsInv, CallsOK, CallOK
  <1>5. n \in 1..Len(c.pipe)
    BY <1>1, <1>4, BoundsAssumption, SentIs, LenProperties
  <1>6. CallOK(d) /\ Sent(d) = Sent(c)
    BY <1>1, <1>4, <1>5, ReadOK
  <1>7. d.aborted = c.aborted /\ d.failed = c.failed /\ d.over = c.over /\ d.stage # "asked"
    BY <1>1, <1>4 DEF CallSet
  <1> HIDE DEF d
  <1>8. CallOK(d)'
    BY <1>3, <1>6, CallGrows
  <1>9. calls' = (calls \ {c}) \cup {d}
    BY <1>1 DEF d
  <1>10. CallsInv'
    BY <1>2, <1>3, <1>6, <1>7, <1>8, <1>9, SameSent
  <1>11. QED
    BY <1>2, <1>3, <1>10 DEF Core

LEMMA OnPageKeeps ==
  ASSUME Core, OnPage
  PROVE  Core'
  <1>1. PICK c \in calls :
          /\ c.stage = "reading" /\ c.chunk # <<>>
          /\ IF ~c.current THEN Becomes(c, [c EXCEPT !.chunk = <<>>]) /\ UNCHANGED phone
             ELSE LET merged == Merge(phone.trace, Head(c.chunk)) IN
                  /\ phone' = [phone EXCEPT !.trace = merged]
                  /\ Becomes(c, [c EXCEPT !.stage = "commit", !.whole = merged.whole])
    BY DEF OnPage
  <1>2. UNCHANGED <<machine, stream, saving, store>>
    BY DEF OnPage
  <1>3. Told(machine)' /\ StoreInv' /\ RecordsInv' /\ Grows /\ stream' \in StreamSet
    BY <1>2, SameStore, SameRecords DEF Core, Told
  <1>4. CallOK(c) /\ c \in CallSet /\ Shaped(c)
    BY DEF Core, CallsInv, CallsOK, CallOK
  <1>5. CASE ~c.current
    <2> DEFINE d == [c EXCEPT !.chunk = <<>>]
    <2>1. calls' = (calls \ {c}) \cup {d} /\ UNCHANGED phone
      BY <1>1, <1>5 DEF Becomes
    <2>2. CallOK(d) /\ d.aborted = c.aborted /\ c.aborted
      BY <1>1, <1>4, <1>5, DiscardedOK DEF CallSet, Shaped
    <2> HIDE DEF d
    <2>3. CallOK(d)'
      BY <1>3, <2>2, CallGrows
    <2>4. CallsInv'
      BY <1>2, <1>3, <2>1, <2>2, <2>3, OneBecomes
    <2>5. PhoneInv'
      BY <1>3, <2>1, SamePhone DEF Core
    <2>6. QED
      BY <1>3, <2>4, <2>5 DEF Core
  <1>6. CASE c.current
    <2>1. PICK merged : merged = Merge(phone.trace, Head(c.chunk))
      OBVIOUS
    <2>2. merged.whole \in BOOLEAN
      BY <2>1 DEF Merge
    <2> DEFINE d == [c EXCEPT !.stage = "commit", !.whole = merged.whole]
    <2>3. calls' = (calls \ {c}) \cup {d} /\ phone' = [phone EXCEPT !.trace = merged]
      BY <1>1, <1>6, <2>1 DEF Becomes
    <2>4. CallOK(d) /\ Sent(d) = Sent(c)
      BY <1>1, <1>4, <1>6, <2>2, MergedOK
    <2>5. d.aborted = c.aborted /\ d.failed = c.failed /\ d.over = c.over /\ d.stage # "asked"
      BY <1>4 DEF CallSet
    <2> HIDE DEF d
    <2>6. CallOK(d)'
      BY <1>3, <2>4, CallGrows
    <2>7. PhoneTyped(phone) /\ Covered(phone.cursor)
      BY DEF Core, PhoneInv
    <2>8. PhoneTyped(phone)' /\ phone'.cursor = phone.cursor /\ phone'.retry = phone.retry
          /\ phone'.foreground = phone.foreground
      BY <2>3, <2>7 DEF PhoneTyped, PhoneFields
    <2>9. PhoneInv'
      BY <1>3, <2>7, <2>8, CoveredGrows DEF PhoneInv, PhoneTyped
    <2>10. CallsInv'
      BY <1>2, <1>3, <2>3, <2>4, <2>5, <2>6, <2>8, SameSent
    <2>11. QED
      BY <1>3, <2>9, <2>10 DEF Core
  <1>7. QED
    BY <1>5, <1>6

(* The page at the head of a call's chunk, while it is being stored. *)
LEMMA PendingPage ==
  ASSUME Core, NEW c \in calls, c.stage \in Pending
  PROVE  /\ CallOK(c) /\ c \in CallSet /\ c.chunk \in Seq(PageSet) /\ c.chunk # <<>>
         /\ Head(c.chunk) = c.chunk[1] /\ c.chunk[1] \in PageSet
         /\ UpTo(Key(c.chunk[1]), c.chunk[1].first - 1)
         /\ c.stage # "commit" => UpTo(Key(c.chunk[1]), c.chunk[1].last)
  <1>1. CallOK(c) /\ c \in CallSet /\ Shaped(c) /\ InStore(c)
    BY DEF Core, CallsInv, CallsOK, CallOK
  <1>2. c.chunk \in Seq(PageSet) /\ c.chunk # <<>>
    BY <1>1, SentIs DEF Shaped
  <1>3. Sent(c) # <<>> /\ Sent(c)[1] = c.chunk[1]
    BY <1>1, <1>2, SentIs
  <1>4. QED
    BY <1>1, <1>2, <1>3, HeadIsFirst DEF InStore, Pending

(* The page is stored, and acknowledged unless the call is of an ended generation. *)
LEMMA AcknowledgedKeeps ==
  ASSUME Core, Grows, NEW c, NEW page \in PageSet, UpTo(Key(page), page.last)',
         NEW p, PhoneTyped(p), p.cursor = phone.cursor, p.retry = phone.retry,
         p.foreground = phone.foreground, phone' = Acknowledged(p, c, page)
  PROVE  PhoneInv' /\ phone'.retry = phone.retry /\ phone'.foreground = phone.foreground
  <1>1. CASE ~c.current
    <2>1. phone' = p
      BY <1>1 DEF Acknowledged
    <2>2. Covered(phone.cursor)'
      BY <2>1, CoveredGrows DEF Core, PhoneInv, PhoneTyped
    <2>3. QED
      BY <2>1, <2>2 DEF PhoneInv
  <1>2. CASE c.current
    <2>1. phone' = [p EXCEPT !.cursor = After(page), !.armed = p.armed /\ ~Terminal(page),
                             !.cut = p.cut \/ (Terminal(page) /\ c.aborted)]
      BY <1>2 DEF Acknowledged, PhoneTyped, PhoneFields
    <2>2. PhoneTyped(phone)' /\ phone'.cursor = After(page) /\ phone'.retry = phone.retry
          /\ phone'.foreground = phone.foreground
      BY <2>1, PageFields DEF PhoneTyped, PhoneFields
    <2>3. Covered(phone.cursor)'
      BY <2>2, PageFields DEF Covered
    <2>4. QED
      BY <2>2, <2>3 DEF PhoneInv
  <1>3. QED
    BY <1>1, <1>2

(* The call goes on to its next page. *)
LEMMA DoneKeeps ==
  ASSUME Core, Grows, UNCHANGED stream, NEW c \in calls, c.stage \in Pending,
         UpTo(Key(c.chunk[1]), c.chunk[1].last)', NEW d \in CallSet, d.stage = "reading",
         d.chunk = Tail(c.chunk), d.pipe = c.pipe, d.current = c.current, d.aborted = c.aborted,
         d.failed = c.failed, d.over = c.over, calls' = (calls \ {c}) \cup {d},
         phone'.retry = phone.retry, phone'.foreground = phone.foreground
  PROVE  CallsInv'
  <1>1. CallOK(c)' /\ c.chunk[1] \in PageSet
    BY PendingPage, CallGrows
  <1>2. /\ CallOK(d)' /\ Sent(c) # <<>>
        /\ Sent(d) # <<>> => Ended(Sent(d)) = Ended(Sent(c))
        /\ Sent(d) = <<>> => Ended(Sent(c)) = After(c.chunk[1])
    BY <1>1, DoneOK
  <1>3. ASSUME Subscribed', ~c.aborted
        PROVE  Reading(d) /\ ~d.failed /\ ~d.over /\ Continues(d)'
    <2>1. Subscribed
      BY <1>3 DEF Subscribed
    <2>2. ~c.failed /\ ~c.over /\ stream.cursor = Ended(Sent(c))
      BY <1>2, <1>3, <2>1, TheReader DEF Continues
    <2>3. Covered(After(c.chunk[1]))'
      BY <1>1, PageFields DEF Covered
    <2>4. Continues(d)'
      BY <1>2, <2>2, <2>3 DEF Continues
    <2>5. QED
      BY <1>3, <2>2, <2>4 DEF Reading
  <1>4. QED
    BY <1>2, <1>3, OneBecomes

LEMMA DoneIs ==
  ASSUME Core, NEW c \in calls, c.stage \in Pending
  PROVE  LET d == Done(c)
             e == [Done(c) EXCEPT !.found = <<>>] IN
         /\ d \in CallSet /\ d.stage = "reading" /\ d.chunk = Tail(c.chunk) /\ d.pipe = c.pipe
         /\ d.current = c.current /\ d.aborted = c.aborted /\ d.failed = c.failed /\ d.over = c.over
         /\ e \in CallSet /\ e.stage = "reading" /\ e.chunk = Tail(c.chunk) /\ e.pipe = c.pipe
         /\ e.current = c.current /\ e.aborted = c.aborted /\ e.failed = c.failed /\ e.over = c.over
  <1>1. c \in CallSet /\ Tail(c.chunk) \in Seq(PageSet)
    BY PendingPage, HeadTailProperties
  <1>2. QED
    BY <1>1 DEF CallSet, Done

(* What a current call commits next is up to date. *)
LEMMA HeadIsCurrent ==
  ASSUME Core, Ordered, NEW c \in calls, c.stage \in Pending, c.current
  PROVE  UpToDate(c.chunk[1])
  <1>1. c \in CallSet /\ c.chunk # <<>>
    BY DEF Core, CallsInv, CallsOK, CallOK, Shaped
  <1>2. Sent(c) \in Seq(PageSet) /\ Sent(c) # <<>> /\ Sent(c)[1] = c.chunk[1]
    BY <1>1, SentIs
  <1>3. 1 \in SentOf(c)
    BY <1>2, HeadIsFirst DEF SentOf
  <1>4. QED
    BY <1>2, <1>3 DEF Ordered, AllUpToDate
LEMMA CommitStepKeeps ==
  ASSUME Core, Ordered, Commit
  PROVE  Core' /\ store'.records = store.records
  <1>1. PICK c \in calls :
          /\ c.stage = "commit" /\ store' = Committed(Head(c.chunk), c.current).store
          /\ LET page == Head(c.chunk)
                 p == [phone EXCEPT !.trace = Committed(page, c.current).trace] IN
             IF Terminal(page) THEN phone' = p /\ Becomes(c, [c EXCEPT !.stage = "select"])
             ELSE phone' = Acknowledged(p, c, page) /\ Becomes(c, Done(c))
    BY DEF Commit
  <1>2. UNCHANGED <<machine, stream, saving>>
    BY DEF Commit
  <1>3. PICK page : page = c.chunk[1]
    OBVIOUS
  <1>4. c.stage \in Pending
    BY <1>1 DEF Pending
  <1>5. /\ CallOK(c) /\ c \in CallSet /\ Head(c.chunk) = page /\ page \in PageSet
        /\ UpTo(Key(page), page.first - 1)
    BY <1>3, <1>4, PendingPage
  <1>6. StoreInv' /\ Grows /\ UpTo(Key(page), page.last)' /\ store'.records = store.records
    <2>1. c.current \in BOOLEAN /\ (c.current => UpToDate(page))
      BY <1>3, <1>5, <1>4, HeadIsCurrent DEF CallSet
    <2>2. QED
      BY <1>1, <1>5, <2>1, CommitKeeps DEF Core
  <1>7. Told(machine)' /\ RecordsInv' /\ stream' \in StreamSet
    BY <1>2, <1>6, SameRecords DEF Core, Told
  <1>8. PICK p : p = [phone EXCEPT !.trace = Committed(page, c.current).trace]
    OBVIOUS
  <1>9. PhoneTyped(p) /\ p.cursor = phone.cursor /\ p.retry = phone.retry /\ p.foreground = phone.foreground
    BY <1>8 DEF Core, PhoneInv, PhoneTyped, PhoneFields
  <1>10. CASE Terminal(page)
    <2> DEFINE d == [c EXCEPT !.stage = "select"]
    <2>1. phone' = p /\ calls' = (calls \ {c}) \cup {d}
      BY <1>1, <1>5, <1>8, <1>10 DEF Becomes
    <2>2. /\ d \in CallSet /\ d.stage = "select" /\ d.chunk = c.chunk /\ d.pipe = c.pipe
          /\ d.current = c.current /\ d.aborted = c.aborted /\ d.failed = c.failed /\ d.over = c.over
      BY <1>5 DEF CallSet, Pending
    <2> HIDE DEF d
    <2>3. CallOK(d)'
      BY <1>3, <1>4, <1>5, <1>6, <2>2, CallGrows, AdvancesOK
    <2>4. Sent(d) = Sent(c)
      BY <2>2 DEF Sent
    <2>5. CallsInv'
      BY <1>2, <1>6, <1>9, <2>1, <2>2, <2>3, <2>4, SameSent
    <2>6. PhoneInv'
      BY <1>6, <1>9, <2>1, CoveredGrows DEF Core, PhoneInv, PhoneTyped
    <2>7. QED
      BY <1>6, <1>7, <2>5, <2>6 DEF Core
  <1>11. CASE ~Terminal(page)
    <2>1. phone' = Acknowledged(p, c, page) /\ calls' = (calls \ {c}) \cup {Done(c)}
      BY <1>1, <1>5, <1>8, <1>11 DEF Becomes
    <2>2. PhoneInv' /\ phone'.retry = phone.retry /\ phone'.foreground = phone.foreground
      BY <1>5, <1>6, <1>9, <2>1, AcknowledgedKeeps
    <2>3. CallsInv'
      BY <1>2, <1>3, <1>4, <1>6, <2>1, <2>2, DoneIs, DoneKeeps
    <2>4. QED
      BY <1>6, <1>7, <2>2, <2>3 DEF Core
  <1>12. QED
    BY <1>10, <1>11

LEMMA SelectRecordKeeps ==
  ASSUME Core, SelectRecord
  PROVE  Core'
  <1>1. PICK c \in calls : /\ c.stage = "select"
                           /\ Becomes(c, [c EXCEPT !.stage = "write", !.found = Found(Key(Head(c.chunk)))])
    BY DEF SelectRecord
  <1>2. UNCHANGED <<machine, stream, phone, saving, store>>
    BY DEF SelectRecord
  <1>3. Told(machine)' /\ PhoneInv' /\ StoreInv' /\ RecordsInv' /\ Grows
    BY <1>2, SessionStays
  <1>4. c.stage \in Pending /\ c.stage # "commit"
    BY <1>1 DEF Pending
  <1>5. /\ CallOK(c) /\ c \in CallSet /\ Head(c.chunk) = c.chunk[1] /\ c.chunk[1] \in PageSet
        /\ UpTo(Key(c.chunk[1]), c.chunk[1].last)
    BY <1>4, PendingPage
  <1>6. PICK found : found = Found(Key(Head(c.chunk)))
    OBVIOUS
  <1>7. found \in RecordKeys \cup {<<>>}
    BY <1>5, <1>6, PageFields, PendingKeys, FoundIs DEF Core
  <1> DEFINE d == [c EXCEPT !.stage = "write", !.found = found]
  <1>8. calls' = (calls \ {c}) \cup {d}
    BY <1>1, <1>6 DEF Becomes
  <1>9. /\ d \in CallSet /\ d.stage = "write" /\ d.chunk = c.chunk /\ d.pipe = c.pipe
        /\ d.current = c.current /\ d.aborted = c.aborted /\ d.failed = c.failed /\ d.over = c.over
    BY <1>5, <1>7 DEF CallSet, Pending
  <1> HIDE DEF d
  <1>10. UpTo(Key(c.chunk[1]), c.chunk[1].last)' /\ CallOK(c)'
    BY <1>3, <1>5, PageFields, UpToGrows, CallGrows
  <1>11. CallOK(d)'
    BY <1>4, <1>9, <1>10, AdvancesOK
  <1>12. Sent(d) = Sent(c)
    BY <1>9 DEF Sent
  <1>13. CallsInv'
    BY <1>2, <1>3, <1>8, <1>9, <1>11, <1>12, SameSent
  <1>14. QED
    BY <1>2, <1>3, <1>13 DEF Core

LEMMA WriteRecordKeeps ==
  ASSUME Core, WriteRecord
  PROVE  Core' /\ calls' # calls
  <1>1. PICK c \in calls :
          LET page == Head(c.chunk) IN
          /\ c.stage = "write"
          /\ store' = Appended(Key(page), c.found, IF c.whole THEN "complete" ELSE "incomplete")
          /\ phone' = Acknowledged(phone, c, page)
          /\ Becomes(c, [Done(c) EXCEPT !.found = <<>>])
    BY DEF WriteRecord
  <1>2. UNCHANGED <<machine, stream, saving>>
    BY DEF WriteRecord
  <1>3. c.stage \in Pending /\ c.stage # "commit"
    BY <1>1 DEF Pending
  <1>4. PICK page : page = c.chunk[1]
    OBVIOUS
  <1>5. /\ CallOK(c) /\ c \in CallSet /\ Head(c.chunk) = page /\ page \in PageSet
        /\ UpTo(Key(page), page.last) /\ c.chunk \in Seq(PageSet) /\ c.chunk # <<>>
    BY <1>3, <1>4, PendingPage
  <1>6. PICK status : status = IF c.whole THEN "complete" ELSE "incomplete"
    OBVIOUS
  <1>7. store' = Appended(Key(page), c.found, status) /\ status \in RecordStatuses /\ Key(page) \in Keys
    BY <1>1, <1>5, <1>6, PageFields DEF RecordStatuses
  <1>8. StoreInv' /\ Grows /\ RecordsInv'
    BY <1>2, <1>7, RecordedIs DEF Core
  <1>9. UpTo(Key(page), page.last)'
    BY <1>5, <1>8, PageFields, UpToGrows
  <1>10. PhoneInv' /\ phone'.retry = phone.retry /\ phone'.foreground = phone.foreground
    <2>1. phone' = Acknowledged(phone, c, page)
      BY <1>1, <1>5
    <2>2. PICK p : p = phone
      OBVIOUS
    <2>3. PhoneTyped(p)
      BY <2>2 DEF Core, PhoneInv
    <2>4. QED
      BY <1>5, <1>8, <1>9, <2>1, <2>2, <2>3, AcknowledgedKeeps
  <1> DEFINE d == [Done(c) EXCEPT !.found = <<>>]
  <1>11. calls' = (calls \ {c}) \cup {d}
    BY <1>1 DEF Becomes
  <1>12. /\ d \in CallSet /\ d.stage = "reading" /\ d.chunk = Tail(c.chunk) /\ d.pipe = c.pipe
         /\ d.current = c.current /\ d.aborted = c.aborted /\ d.failed = c.failed /\ d.over = c.over
    BY <1>3, DoneIs
  <1> HIDE DEF d
  <1>13. CallsInv'
    BY <1>2, <1>3, <1>4, <1>8, <1>9, <1>10, <1>11, <1>12, DoneKeeps
  <1>14. c \notin calls'
    BY <1>1, <1>11, <1>12
  <1>15. Told(machine)' /\ stream' \in StreamSet
    BY <1>2 DEF Core, Told
  <1>16. QED
    BY <1>8, <1>10, <1>13, <1>14, <1>15 DEF Core

(* A call ends: one that was not cancelled may be retried. *)
LEMMA EndedKeeps ==
  ASSUME Core, UNCHANGED <<machine, saving, store>>, NEW c \in calls, calls' = calls \ {c},
         UNCHANGED phone \/ (~c.aborted /\ \E lost \in BOOLEAN : RetryScheduled(c, lost)), stream' \in StreamSet,
         (c.aborted /\ UNCHANGED stream) \/ ~Subscribed'
  PROVE  Core'
  <1>1. Told(machine)' /\ StoreInv' /\ RecordsInv' /\ Grows
    BY SameStore, SameRecords DEF Core, Told
  <1>2. PhoneTyped(phone) /\ Covered(phone.cursor)
    BY DEF Core, PhoneInv
  <1>3. /\ PhoneTyped(phone)' /\ phone'.cursor = phone.cursor /\ phone'.foreground = phone.foreground
        /\ phone'.retry => phone.retry \/ ~c.aborted
    <2>1. CASE UNCHANGED phone
      BY <1>2, <2>1 DEF PhoneTyped
    <2>2. CASE ~c.aborted /\ \E lost \in BOOLEAN : RetryScheduled(c, lost)
      <3>1. PICK lost \in BOOLEAN : RetryScheduled(c, lost)
        BY <2>2
      <3>4. phone' = [phone EXCEPT !.retry = phone.retry \/ (c.current /\ phone.armed),
                                   !.cut = phone.cut \/ (c.current /\ ~phone.armed /\ lost)]
        BY <1>2, <3>1 DEF RetryScheduled, PhoneTyped, PhoneFields
      <3>2. (phone.retry \/ (c.current /\ phone.armed)) \in BOOLEAN
        OBVIOUS
      <3>3. QED
        BY <1>2, <2>2, <3>4, <3>2 DEF PhoneTyped, PhoneFields
    <2>3. QED
      BY <2>1, <2>2
  <1>4. PhoneInv'
    BY <1>1, <1>2, <1>3, CoveredGrows DEF PhoneInv, PhoneTyped
  <1>5. CallsInv'
    BY <1>1, <1>3, OneLeaves
  <1>6. QED
    BY <1>1, <1>4, <1>5 DEF Core

LEMMA EndsKeeps ==
  ASSUME Core, Ends
  PROVE  Core'
  <1>1. PICK c \in calls :
          /\ c.stage = "reading" /\ c.chunk = <<>> /\ calls' = calls \ {c}
          /\ \/ c.aborted /\ UNCHANGED phone
             \/ ~c.aborted /\ (c.over \/ c.failed) /\ RetryScheduled(c, c.failed)
    BY DEF Ends
  <1>2. UNCHANGED <<machine, stream, saving, store>>
    BY DEF Ends
  <1>3. ~c.aborted => ~Subscribed
    BY <1>1, TheReader
  <1>4. stream' \in StreamSet /\ (~c.aborted => ~Subscribed')
    BY <1>2, <1>3 DEF Core, Subscribed
  <1>5. c.failed \in BOOLEAN
    BY DEF Core, CallsInv, CallsOK, CallOK, CallSet
  <1>6. QED
    BY <1>1, <1>2, <1>4, <1>5, EndedKeeps

LEMMA BreaksKeeps ==
  ASSUME Core, NEW c \in calls, Breaks(c)
  PROVE  Core'
  <1>1. calls' = calls \ {c} /\ UNCHANGED <<machine, saving, store>>
    BY DEF Breaks
  <1>2. CASE c.aborted
    BY <1>1, <1>2, EndedKeeps DEF Breaks, Core
  <1>3. CASE ~c.aborted
    <2>1. RetryScheduled(c, TRUE) /\ stream' = [stream EXCEPT !.leaked = stream.open /\ ~stream.cancelled]
      BY <1>3 DEF Breaks
    <2>2. stream' \in StreamSet /\ ~Subscribed'
      BY <2>1 DEF Core, StreamSet, Subscribed
    <2>3. QED
      BY <1>1, <1>3, <2>1, <2>2, EndedKeeps
  <1>4. QED
    BY <1>2, <1>3

LEMMA RetryKeeps ==
  ASSUME Core, Retry
  PROVE  Core'
  <1>1. PICK p : p = [phone EXCEPT !.retry = FALSE]
    OBVIOUS
  <1>2. phone.retry /\ Connects(p, calls) /\ UNCHANGED <<machine, stream, saving, store>>
    BY <1>1 DEF Retry
  <1>3. Told(machine)' /\ StoreInv' /\ RecordsInv' /\ Grows /\ stream' \in StreamSet
    BY <1>2, SameStore, SameRecords DEF Core, Told
  <1>4. PhoneTyped(phone) /\ Covered(phone.cursor) /\ \A c \in calls : c.aborted
    BY <1>2 DEF Core, PhoneInv, CallsInv, OneAlive
  <1>5. PhoneTyped(p) /\ p.cursor = phone.cursor /\ ~p.retry
    BY <1>1, <1>4 DEF PhoneTyped, PhoneFields
  <1>6. CallsInv' /\ phone' = p
    BY <1>2, <1>3, <1>4, <1>5, ConnectsKeeps DEF PhoneTyped
  <1>7. PhoneInv'
    BY <1>3, <1>4, <1>5, <1>6, CoveredGrows DEF PhoneInv, PhoneTyped
  <1>8. QED
    BY <1>3, <1>6, <1>7 DEF Core

LEMMA NewPhoneIs == PhoneTyped(NewPhone) /\ Covered(NewPhone.cursor) /\ NewPhone.foreground /\ ~NewPhone.retry
  <1>1. NewPhone.cursor = NoCursor /\ DOMAIN NewPhone = PhoneFields /\ NewPhone.shot = 0 /\ NewPhone.ready
        /\ NewPhone.foreground = TRUE /\ NewPhone.retry = FALSE
    BY DEF NewPhone, PhoneFields
  <1>2. 0 \in 0..MaxShots
    BY BoundsAssumption
  <1> DEFINE p == NewPhone
  <1>3. p = NewPhone
    OBVIOUS
  <1> HIDE DEF p
  <1>4. PhoneTyped(p) /\ Covered(p.cursor) /\ p.foreground /\ ~p.retry
    BY <1>1, <1>2, <1>3, NoCursorIs DEF PhoneTyped
  <1>5. QED
    BY <1>3, <1>4

LEMMA RestartKeeps ==
  ASSUME Core, Restart
  PROVE  Core'
  <1>1. /\ phone' = NewPhone /\ calls' = {} /\ saving' = {}
        /\ stream' = [stream EXCEPT !.cancelled = stream.cancelled \/ stream.open]
        /\ store' = [store EXCEPT !.traces = [k \in Keys |-> [store.traces[k] EXCEPT !.cache = {}]]]
        /\ UNCHANGED machine
    BY DEF Restart, Core, StreamSet, StoreInv, StoreTyped, StoreSet
  <1>2. Told(machine)' /\ StoreInv' /\ Grows
    BY <1>1, ForgottenCacheKeeps DEF Core, Told
  <1>3. RecordsInv'
    BY <1>1 DEF Core, RecordsInv, SavingTyped, PendingNotComplete
  <1>4. stream' \in StreamSet /\ ~Subscribed'
    BY <1>1 DEF Core, StreamSet, Subscribed
  <1>5. PhoneInv'
    BY <1>1, <1>2, NewPhoneIs, CoveredGrows DEF PhoneInv, PhoneTyped
  <1>6. CallsInv'
    BY <1>1, <1>4, NobodyAlive, NewPhoneIs
  <1>7. QED
    BY <1>2, <1>3, <1>4, <1>5, <1>6 DEF Core

(* A step of the database alone. *)
LEMMA StoreStepKeeps ==
  ASSUME Core, UNCHANGED <<machine, stream, phone, calls>>, StoreInv', Grows, RecordsInv'
  PROVE  Core'
  <1>1. PhoneInv' /\ CallsInv'
    BY SamePhone, SameCalls DEF Core
  <1>2. QED
    BY <1>1 DEF Core, Told

LEMMA ClearStepKeeps ==
  ASSUME Core, Clear
  PROVE  Core'
  <1>1. StoreInv' /\ Grows /\ \A k \in RecordKeys : store'.records[k] = "none"
    BY ClearKeeps DEF Core
  <1>2. UNCHANGED <<machine, stream, phone, calls, saving>>
    BY DEF Clear
  <1>3. RecordsInv'
    BY <1>1, <1>2, PendingKeys DEF Core, RecordsInv, SavingTyped, PendingNotComplete
  <1>4. QED
    BY <1>1, <1>2, <1>3, StoreStepKeeps

LEMMA SameVars ==
  ASSUME Core, UNCHANGED vars
  PROVE  Core'
  BY SameStore, SameRecords, StoreStepKeeps DEF Core, vars

LEMMA InitCore == Init => Core
  <1> SUFFICES ASSUME Init PROVE Core
    OBVIOUS
  <1>1. Told(machine)
    BY BoundsAssumption DEF Init, Told, Boots, TelemetryStatuses
  <1>2. stream \in StreamSet /\ ~Subscribed
    BY BoundsAssumption DEF Init, Free, NoCursor, StreamSet, Cursors, Subscribed
  <1>3. PhoneInv
    BY NewPhoneIs DEF Init, PhoneInv
  <1>4. /\ store.traces = Dropped
        /\ store.newest = [i \in Shots |-> 0] /\ store.records = [k \in RecordKeys |-> "none"]
        /\ store.removed = {}
    BY DEF Init
  <1>5. StoreTyped
    <2>1. 0 \in 0..MaxBoots
      BY BoundsAssumption
    <2>2. QED
      BY <2>1 DEF Init, StoreTyped, StoreSet, RecordStatuses, Dropped
  <1>6. StoreGapless
    BY <1>4 DEF StoreGapless, Stored, Cached, Dropped
  <1>7. RecordsInv
    BY <1>4, PendingKeys DEF Init, RecordsInv, SavingTyped, PendingNotComplete
  <1>8. CallsInv
    BY <1>2, NewPhoneIs DEF Init, CallsInv, CallsOK, OneAlive, Resumes
  <1>9. QED
    BY <1>1, <1>2, <1>3, <1>5, <1>6, <1>7, <1>8 DEF Core, StoreInv

LEMMA NextCore == Core /\ Ordered /\ [Next]_vars => Core'
  <1> SUFFICES ASSUME Core, Ordered, [Next]_vars PROVE Core'
    OBVIOUS
  <1>1. CASE StartShot
    BY <1>1, StartShotKeeps
  <1>2. CASE Capture \/ StopShot \/ Settled
    BY <1>2, CaptureKeeps
  <1>3. CASE PowerCycle
    BY <1>3, PowerCycleKeeps
  <1>4. CASE Serve \/ Release \/ Drop
    BY <1>4, ServeKeeps, ReleaseKeeps, DropKeeps
  <1>5. CASE Poll \/ LoadTrace
    BY <1>5, PollKeeps, LoadTraceKeeps
  <1>6. CASE Foreground \/ Background
    BY <1>6, ForegroundKeeps, BackgroundKeeps
  <1>7. CASE Read \/ OnPage
    BY <1>7, ReadKeeps, OnPageKeeps
  <1>8. CASE Commit \/ SelectRecord \/ WriteRecord
    BY <1>8, CommitStepKeeps, SelectRecordKeeps, WriteRecordKeeps
  <1>9. CASE Ends \/ StoreFails \/ InsertFails
    BY <1>9, EndsKeeps, BreaksKeeps DEF StoreFails, InsertFails
  <1>10. CASE Retry
    BY <1>10, RetryKeeps
  <1>11. CASE Mark
    <2>1. UNCHANGED <<machine, stream, phone, calls>>
      BY <1>11 DEF Mark
    <2>2. QED
      BY <1>11, <2>1, MarkKeeps, StoreStepKeeps DEF Core
  <1>12. CASE SelectPending
    <2>1. UNCHANGED <<machine, stream, phone, calls, store>>
      BY <1>12 DEF SelectPending
    <2>2. QED
      BY <1>12, <2>1, SelectPendingKeeps, SameStore, StoreStepKeeps DEF Core
  <1>13. CASE WritePending
    <2>1. UNCHANGED <<machine, stream, phone, calls>>
      BY <1>13 DEF WritePending
    <2>2. QED
      BY <1>13, <2>1, WritePendingKeeps, StoreStepKeeps DEF Core
  <1>14. CASE Restart \/ Clear
    BY <1>14, RestartKeeps, ClearStepKeeps
  <1>15. CASE UNCHANGED vars
    BY <1>15, SameVars
  <1>16. QED
    BY <1>1, <1>2, <1>3, <1>4, <1>5, <1>6, <1>7, <1>8, <1>9, <1>10, <1>11, <1>12, <1>13, <1>14, <1>15
    DEF Next

-----------------------------------------------------------------------------
(* The order of the pages.                                                      *)

LEMMA SentTyped ==
  ASSUME NEW c \in CallSet
  PROVE  /\ Sent(c) \in Seq(PageSet) /\ Len(Sent(c)) \in Nat
         /\ \A i \in SentOf(c) : i \in Nat /\ Sent(c)[i] \in PageSet
  <1>1. Sent(c) \in Seq(PageSet) /\ Len(Sent(c)) \in Nat
    BY SentIs, LenProperties
  <1>2. QED
    BY <1>1, ElementOfSeq DEF SentOf

LEMMA OlderStill ==
  ASSUME NEW m, Told(m), NEW n, Told(n), Older(m.boot, m.id, m.latest, n),
         NEW b \in Nat, NEW i \in Nat, NEW l \in Nat, Older(b, i, l, m)
  PROVE  Older(b, i, l, n)
  <1>1. /\ m.boot \in Nat /\ m.id \in Nat /\ m.latest \in Nat
        /\ n.boot \in Nat /\ n.id \in Nat /\ n.latest \in Nat
    BY BoundsAssumption DEF Told, Boots
  <1>2. QED
    BY <1>1 DEF Older

(* A call whose pages are a part of another's, in the same order. *)
Within(s, t) ==
  \E k \in Nat : Len(s) + k <= Len(t) /\ \A i \in 1..Len(s) : s[i] = t[i + k]
From(x, c) == (x.current => c.current) /\ Within(Sent(x), Sent(c))
(* Every call with pages comes of one there was, and two come of two. *)
Descend(x, y) == \E c, d \in calls : From(x, c) /\ From(y, d) /\ (x = y <=> c = d)
Shrunk == \A x, y \in calls' : Sent(x) = <<>> \/ Sent(y) = <<>> \/ Descend(x, y)
Advances == Told(machine)' /\ Older(machine.boot, machine.id, machine.latest, machine')
(* What is stored newly is of the page that a call has just had. *)
StoredFromCalls ==
  \A key \in Keys : \A n \in Stored(key)' :
    \/ n \in Stored(key)
    \/ \E c \in calls : /\ Sent(c) # <<>> /\ Key(Sent(c)[1]) = key
                        /\ n \in Nat /\ n <= Sent(c)[1].latest

LEMMA StandingStill ==
  ASSUME Core, UNCHANGED machine
  PROVE  Advances
  BY BoundsAssumption DEF Core, Told, Advances, Older, Boots

LEMMA ShrunkKeepsOrder ==
  ASSUME Core, Core', Ordered, Advances, Shrunk, OneCurrent', StoredFromCalls
  PROVE  Ordered'
  <1>1. \A c \in calls : c \in CallSet
    BY DEF Core, CallsInv, CallsOK, CallOK
  <1>2. \A c \in calls' : c \in CallSet
    BY DEF Core, CallsInv, CallsOK, CallOK
  <1>3. Told(machine) /\ Told(machine)' /\ Older(machine.boot, machine.id, machine.latest, machine')
    BY DEF Core, Advances
  <1>4. ASSUME NEW x \in calls', NEW i \in SentOf(x)
        PROVE  i \in Nat /\ Sent(x) # <<>> /\ Sent(x)[i] \in PageSet
    BY <1>2, <1>4, SentTyped, EmptySeq DEF SentOf
  <1>5. ASSUME NEW x \in calls', NEW c \in calls, From(x, c)
        PROVE  \E k \in Nat : \A i \in SentOf(x) : i + k \in SentOf(c) /\ Sent(x)[i] = Sent(c)[i + k]
    <2>1. PICK k \in Nat : /\ Len(Sent(x)) + k <= Len(Sent(c))
                           /\ \A i \in SentOf(x) : Sent(x)[i] = Sent(c)[i + k]
      BY <1>5 DEF From, Within, SentOf
    <2>2. Len(Sent(x)) \in Nat /\ Len(Sent(c)) \in Nat
      BY <1>1, <1>2, SentTyped
    <2>3. ASSUME NEW i \in SentOf(x) PROVE i + k \in SentOf(c)
      <3>1. i \in Nat /\ 1 <= i /\ i <= Len(Sent(x))
        BY <2>2 DEF SentOf
      <3>2. QED
        BY <2>1, <2>2, <3>1 DEF SentOf
    <2>4. QED
      BY <2>1, <2>3
  <1>6. PagesTold'
    <2> SUFFICES ASSUME NEW x \in calls', NEW i \in SentOf(x)
                 PROVE  Older(Sent(x)[i].boot, Sent(x)[i].id, Sent(x)[i].latest, machine')
      BY DEF PagesTold, SentOf, Sent, Older
    <2>1. PICK c \in calls : From(x, c)
      BY <1>4 DEF Shrunk, Descend
    <2>2. PICK k \in Nat : \A j \in SentOf(x) : j + k \in SentOf(c) /\ Sent(x)[j] = Sent(c)[j + k]
      BY <2>1, <1>5
    <2> DEFINE g == Sent(x)[i]
    <2>3. g \in PageSet /\ Older(g.boot, g.id, g.latest, machine)
      BY <1>4, <2>2 DEF PagesTold, Ordered
    <2>4. g.boot \in Nat /\ g.id \in Nat /\ g.latest \in Nat
      BY <2>3, PageFields, BoundsAssumption DEF Boots, Shots
    <2>5. QED
      BY <1>3, <2>3, <2>4, OlderStill
  <1>7. StoredTold'
    <2> SUFFICES ASSUME NEW key \in Keys, NEW n \in Stored(key)'
                 PROVE  Older(key[1], key[2], n, machine')
      BY DEF StoredTold, Older
    <2>1. key[1] \in Nat /\ key[2] \in Nat
      BY BoundsAssumption DEF Keys, Boots, Shots
    <2>2. CASE n \in Stored(key)
      <3>1. n \in Nat /\ Older(key[1], key[2], n, machine)
        BY <2>2, StoreFields DEF Core, StoreInv, Ordered, StoredTold
      <3>2. QED
        BY <2>1, <3>1, <1>3, OlderStill
    <2>3. CASE \E c \in calls : /\ Sent(c) # <<>> /\ Key(Sent(c)[1]) = key
                                /\ n \in Nat /\ n <= Sent(c)[1].latest
      <3>1. PICK c \in calls : /\ Sent(c) # <<>> /\ Key(Sent(c)[1]) = key
                               /\ n \in Nat /\ n <= Sent(c)[1].latest
        BY <2>3
      <3>2. 1 \in SentOf(c) /\ Sent(c)[1] \in PageSet
        BY <1>1, <3>1, SentTyped, HeadIsFirst DEF SentOf
      <3>3. Older(Sent(c)[1].boot, Sent(c)[1].id, Sent(c)[1].latest, machine)
        BY <3>2 DEF Ordered, PagesTold
      <3>4. Older(key[1], key[2], n, machine)
        BY <3>1, <3>2, <3>3, <1>3, PageFields DEF Older, Key, Told
      <3>5. QED
        BY <2>1, <3>1, <3>4, <1>3, OlderStill
    <2>4. QED
      BY <2>2, <2>3 DEF StoredFromCalls
  <1>8. PagesInOrder'
    <2> SUFFICES ASSUME NEW x \in calls', NEW y \in calls', x.current, NEW i \in SentOf(x), NEW j \in SentOf(y),
                        y # x \/ j <= i
                 PROVE  NotNewer(Sent(y)[j], Sent(x)[i])
      BY DEF PagesInOrder, SentOf, Sent, NotNewer, Key
    <2>1. PICK c \in calls, d \in calls : From(x, c) /\ From(y, d) /\ (x = y <=> c = d)
      BY <1>4 DEF Shrunk, Descend
    <2>2. PICK k \in Nat : \A e \in SentOf(x) : e + k \in SentOf(c) /\ Sent(x)[e] = Sent(c)[e + k]
      BY <2>1, <1>5
    <2>3. CASE x # y
      <3>1. PICK l \in Nat : \A e \in SentOf(y) : e + l \in SentOf(d) /\ Sent(y)[e] = Sent(d)[e + l]
        BY <2>1, <1>5
      <3>2. QED
        BY <2>1, <2>2, <2>3, <3>1 DEF From, Ordered, PagesInOrder
    <2>4. CASE x = y
      <3>1. /\ i + k \in SentOf(c) /\ Sent(x)[i] = Sent(c)[i + k]
            /\ j + k \in SentOf(c) /\ Sent(y)[j] = Sent(c)[j + k]
            /\ j + k <= i + k /\ c.current
        BY <1>4, <2>1, <2>2, <2>4 DEF From
      <3>2. QED
        BY <3>1 DEF Ordered, PagesInOrder
    <2>5. QED
      BY <2>3, <2>4
  <1>9. AllUpToDate'
    <2> SUFFICES ASSUME NEW x \in calls', x.current, NEW i \in SentOf(x), NEW n \in Stored(Key(Sent(x)[i]))'
                 PROVE  n <= Sent(x)[i].latest
      BY DEF AllUpToDate, UpToDate, SentOf, Sent
    <2>1. PICK c \in calls : From(x, c)
      BY <1>4 DEF Shrunk, Descend
    <2>2. PICK k \in Nat : \A j \in SentOf(x) : j + k \in SentOf(c) /\ Sent(x)[j] = Sent(c)[j + k]
      BY <2>1, <1>5
    <2> DEFINE h == Sent(x)[i]
    <2>3. /\ i + k \in SentOf(c) /\ h = Sent(c)[i + k] /\ h \in PageSet /\ c.current
          /\ Key(h) \in Keys /\ h.latest \in Nat
      BY <1>4, <2>1, <2>2, PageFields DEF From
    <2> HIDE DEF h
    <2>4. CASE n \in Stored(Key(h))
      BY <2>3, <2>4 DEF Ordered, AllUpToDate, UpToDate, h
    <2>5. CASE \E d \in calls : /\ Sent(d) # <<>> /\ Key(Sent(d)[1]) = Key(h)
                                /\ n \in Nat /\ n <= Sent(d)[1].latest
      <3>1. PICK d \in calls : /\ Sent(d) # <<>> /\ Key(Sent(d)[1]) = Key(h)
                               /\ n \in Nat /\ n <= Sent(d)[1].latest
        BY <2>5
      <3>2. 1 \in SentOf(d) /\ Sent(d)[1] \in PageSet /\ i + k \in Nat /\ 1 <= i + k
        BY <1>1, <2>3, <3>1, SentTyped, HeadIsFirst DEF SentOf
      <3>3. Sent(d)[1].latest <= h.latest
        BY <2>3, <3>1, <3>2 DEF Ordered, PagesInOrder, NotNewer
      <3>4. n <= h.latest
        BY <2>3, <3>1, <3>2, <3>3, PageFields
      <3>5. QED
        BY <3>4 DEF h
    <2>6. QED
      BY <2>3, <2>4, <2>5 DEF StoredFromCalls, h
  <1>10. QED
    BY <1>6, <1>7, <1>8, <1>9 DEF Ordered

(* Every call comes of one there was. *)
LEMMA DescentKeepsOrder ==
  ASSUME Core, Core', Ordered, Advances, \A x, y \in calls' : Descend(x, y), StoredFromCalls
  PROVE  Ordered'
  <1>1. OneCurrent'
    BY DEF Ordered, OneCurrent, Descend, From
  <1>2. Shrunk
    BY DEF Shrunk
  <1>3. QED
    BY <1>1, <1>2, ShrunkKeepsOrder

LEMMA PartsWithin ==
  ASSUME NEW s \in Seq(PageSet), NEW t \in Seq(PageSet)
  PROVE  /\ Within(s, s \o t) /\ Within(t, s \o t)
         /\ s # <<>> => Within(Tail(s) \o t, s \o t)
  <1>1. /\ Len(s) \in Nat /\ Len(t) \in Nat /\ Len(s \o t) = Len(s) + Len(t)
        /\ \A i \in 1..Len(s) + Len(t) : (s \o t)[i] = IF i <= Len(s) THEN s[i] ELSE t[i - Len(s)]
    BY ConcatProperties, LenProperties
  <1>2. Within(s, s \o t)
    <2>1. \A i \in 1..Len(s) : s[i] = (s \o t)[i + 0]
      BY <1>1
    <2>2. Len(s) + 0 <= Len(s \o t)
      BY <1>1
    <2>3. QED
      BY <2>1, <2>2 DEF Within
  <1>3. Within(t, s \o t)
    <2>1. ASSUME NEW i \in 1..Len(t) PROVE t[i] = (s \o t)[i + Len(s)]
      BY <1>1
    <2>2. Len(t) + Len(s) <= Len(s \o t)
      BY <1>1
    <2>3. QED
      BY <1>1, <2>1, <2>2 DEF Within
  <1>4. ASSUME s # <<>> PROVE Within(Tail(s) \o t, s \o t)
    <2>1. /\ Tail(s) \in Seq(PageSet) /\ Len(Tail(s)) = Len(s) - 1 /\ Len(Tail(s)) \in Nat
          /\ \A i \in 1..Len(Tail(s)) : Tail(s)[i] = s[i + 1]
      BY <1>4, HeadTailProperties, LenProperties
    <2> DEFINE u == Tail(s)
    <2>2. /\ Len(u \o t) = Len(u) + Len(t)
          /\ \A i \in 1..Len(u) + Len(t) : (u \o t)[i] = IF i <= Len(u) THEN u[i] ELSE t[i - Len(u)]
      BY <2>1, ConcatProperties
    <2> HIDE DEF u
    <2>3. Len(u) \in Nat /\ Len(s) = Len(u) + 1 /\ \A i \in 1..Len(u) : u[i] = s[i + 1]
      BY <1>1, <2>1 DEF u
    <2>4. ASSUME NEW i \in 1..Len(u \o t) PROVE (u \o t)[i] = (s \o t)[i + 1]
      <3>1. i \in 1..Len(u) + Len(t) /\ i + 1 \in 1..Len(s) + Len(t)
        BY <1>1, <2>2, <2>3
      <3>2. CASE i <= Len(u)
        <4>1. (u \o t)[i] = u[i] /\ i \in 1..Len(u) /\ i + 1 <= Len(s)
          BY <2>2, <2>3, <3>1, <3>2
        <4>2. QED
          BY <1>1, <2>3, <3>1, <4>1
      <3>3. CASE ~(i <= Len(u))
        <4>1. (u \o t)[i] = t[i - Len(u)] /\ ~(i + 1 <= Len(s)) /\ i + 1 - Len(s) = i - Len(u)
          BY <2>2, <2>3, <3>1, <3>3
        <4>2. QED
          BY <1>1, <3>1, <4>1
      <3>4. QED
        BY <3>2, <3>3
    <2>5. Len(u \o t) + 1 <= Len(s \o t)
      BY <1>1, <2>2, <2>3
    <2>6. Within(u \o t, s \o t)
      BY <2>4, <2>5 DEF Within
    <2>7. QED
      BY <2>6 DEF u
  <1>5. QED
    BY <1>2, <1>3, <1>4

(* A call's pages when it is left as it is, or keeps of them only those of the   *)
(* chunk, those of the response, or all but the one it has stored.                *)
LEMMA FromSame ==
  ASSUME NEW c \in CallSet, NEW x, Sent(x) = Sent(c), x.current => c.current
  PROVE  From(x, c)
  <1>1. Sent(c) \in Seq(PageSet)
    BY SentTyped
  <1>2. Sent(c) \o <<>> = Sent(c) /\ <<>> \in Seq(PageSet)
    BY <1>1, ConcatEmptySeq
  <1>3. Within(Sent(c), Sent(c))
    BY <1>1, <1>2, PartsWithin
  <1>4. QED
    BY <1>3 DEF From
LEMMA FromPart ==
  ASSUME NEW c \in CallSet, NEW x, x.current => c.current,
         \/ x.chunk = c.chunk /\ x.pipe = <<>>
         \/ x.chunk = <<>> /\ x.pipe = c.pipe
         \/ x.chunk = Tail(c.chunk) /\ x.pipe = c.pipe /\ c.chunk # <<>>
  PROVE  From(x, c)
  <1>1. PICK s \in Seq(PageSet), t \in Seq(PageSet) : s = c.chunk /\ t = c.pipe
    BY DEF CallSet
  <1>2. Sent(x) \in {s, t} \/ (Sent(x) = Tail(s) \o t /\ s # <<>>)
    BY <1>1, ConcatEmptySeq DEF Sent
  <1>3. Sent(c) = s \o t
    BY <1>1 DEF Sent
  <1>4. QED
    BY <1>2, <1>3, PartsWithin DEF From

(* What becomes of every call is what one function makes of it. *)
LEMMA MapDescends ==
  ASSUME NEW m, \A c \in calls : From(m[c], c), NEW x, NEW y,
         x \in {m[c] : c \in calls}, y \in {m[c] : c \in calls}
  PROVE  Descend(x, y)
  <1>1. PICK c \in calls : x = m[c]
    OBVIOUS
  <1>2. PICK d \in calls : y = m[d]
    OBVIOUS
  <1>3. From(x, c) /\ From(y, d)
    BY <1>1, <1>2
  <1>4. CASE x = y
    BY <1>3, <1>4 DEF Descend
  <1>5. CASE x # y
    BY <1>1, <1>2, <1>3, <1>5 DEF Descend
  <1>6. QED
    BY <1>4, <1>5

LEMMA MapKeepsOrder ==
  ASSUME Core, Core', Ordered, Advances, StoredFromCalls,
         NEW m, \A c \in calls : From(m[c], c), calls' \subseteq {m[c] : c \in calls}
  PROVE  Ordered'
  <1>1. ASSUME NEW x \in calls', NEW y \in calls' PROVE Descend(x, y)
    BY MapDescends
  <1>2. QED
    BY <1>1, DescentKeepsOrder

LEMMA OneKeepsOrder ==
  ASSUME Core, Core', Ordered, Advances, StoredFromCalls,
         NEW c \in calls, NEW d, From(d, c), calls' \subseteq (calls \ {c}) \cup {d}
  PROVE  Ordered'
  <1> DEFINE m == [e \in calls |-> IF e = c THEN d ELSE e]
  <1>1. \A e \in calls : From(m[e], e)
    BY FromSame DEF Core, CallsInv, CallsOK, CallOK
  <1>2. calls' \subseteq {m[e] : e \in calls}
    <2>1. ASSUME NEW e \in calls' PROVE \E b \in calls : e = m[b]
      <3>1. CASE e = d
        <4>1. e = m[c]
          BY <3>1
        <4>2. QED
          BY <4>1
      <3>2. CASE e \in calls \ {c}
        <4>1. e = m[e]
          BY <3>2
        <4>2. QED
          BY <3>2, <4>1
      <3>3. QED
        BY <3>1, <3>2
    <2>2. QED
      BY <2>1
  <1> HIDE DEF m
  <1>3. QED
    BY <1>1, <1>2, MapKeepsOrder

LEMMA SameCallsKeepOrder ==
  ASSUME Core, Core', Ordered, Advances, StoredFromCalls, UNCHANGED calls
  PROVE  Ordered'
  <1> DEFINE m == [e \in calls |-> e]
  <1>1. \A e \in calls : From(m[e], e)
    BY FromSame DEF Core, CallsInv, CallsOK, CallOK
  <1>2. calls' \subseteq {m[e] : e \in calls}
    <2>1. ASSUME NEW e \in calls' PROVE \E b \in calls : e = m[b]
      <3>1. e = m[e]
        OBVIOUS
      <3>2. QED
        BY <3>1
    <2>2. QED
      BY <2>1
  <1> HIDE DEF m
  <1>3. QED
    BY <1>1, <1>2, MapKeepsOrder

(* All calls are superseded, and a new one may be begun. *)
LEMMA ConnectsKeepsOrder ==
  ASSUME Core, Core', Ordered, Advances, StoredFromCalls, NEW p, Connects(p, calls)
  PROVE  Ordered'
  <1> DEFINE m == [c \in calls |-> [c EXCEPT !.current = FALSE]]
  <1>1. \A c \in calls : c \in CallSet
    BY DEF Core, CallsInv, CallsOK, CallOK
  <1>2. calls' \subseteq {m[c] : c \in calls} \cup {NewCall(p.cursor)}
    BY DEF Connects, Superseded
  <1>3. ASSUME NEW c \in calls PROVE From(m[c], c) /\ ~m[c].current
    <2>1. /\ m[c] = [c EXCEPT !.current = FALSE] /\ c \in CallSet
      BY <1>1
    <2>2. m[c].chunk = c.chunk /\ m[c].pipe = c.pipe /\ m[c].current = FALSE
      BY <2>1 DEF CallSet
    <2> HIDE DEF m
    <2>3. Sent(m[c]) = Sent(c)
      BY <2>2 DEF Sent
    <2>4. QED
      BY <1>1, <2>2, <2>3, FromSame
  <1>4. Sent(NewCall(p.cursor)) = <<>>
    <2>1. NewCall(p.cursor).chunk = <<>> /\ NewCall(p.cursor).pipe = <<>>
      BY DEF NewCall
    <2>2. <<>> \o <<>> = <<>>
      BY EmptySeq, ConcatEmptySeq
    <2>3. QED
      BY <2>1, <2>2 DEF Sent
  <1> HIDE DEF m
  <1>5. OneCurrent'
    BY <1>2, <1>3 DEF OneCurrent
  <1>6. Shrunk
    <2> SUFFICES ASSUME NEW x \in calls', NEW y \in calls', Sent(x) # <<>>, Sent(y) # <<>>
                 PROVE  Descend(x, y)
      BY DEF Shrunk
    <2>1. x \in {m[c] : c \in calls} /\ y \in {m[c] : c \in calls}
      BY <1>2, <1>4
    <2>2. QED
      BY <1>3, <2>1, MapDescends
  <1>7. QED
    BY <1>5, <1>6, ShrunkKeepsOrder

(* The session's calls are cancelled, and superseded when it goes to background. *)
LEMMA AbortedFrom ==
  ASSUME NEW c \in CallSet
  PROVE  /\ From([c EXCEPT !.aborted = TRUE, !.pipe = <<>>], c)
         /\ From([[c EXCEPT !.aborted = TRUE, !.pipe = <<>>] EXCEPT !.current = FALSE], c)
  <1> DEFINE x == [c EXCEPT !.aborted = TRUE, !.pipe = <<>>]
             y == [x EXCEPT !.current = FALSE]
  <1>1. /\ x.chunk = c.chunk /\ x.pipe = <<>> /\ x.current = c.current
        /\ y.chunk = c.chunk /\ y.pipe = <<>> /\ y.current = FALSE
    BY DEF CallSet
  <1> HIDE DEF x, y
  <1>2. From(x, c) /\ From(y, c)
    BY <1>1, FromPart
  <1>3. QED
    BY <1>2 DEF x, y

LEMMA AbortedKeepOrder ==
  ASSUME Core, Core', Ordered, Advances, StoredFromCalls,
         calls' = Aborted \/ calls' = Superseded(Aborted)
  PROVE  Ordered'
  <1>1. \A c \in calls : c \in CallSet
    BY DEF Core, CallsInv, CallsOK, CallOK
  <1> DEFINE a(c) == [c EXCEPT !.aborted = TRUE, !.pipe = <<>>]
  <1>2. CASE calls' = Aborted
    <2> DEFINE m == [c \in calls |-> a(c)]
    <2>1. \A c \in calls : From(m[c], c)
      BY <1>1, AbortedFrom
    <2>2. calls' \subseteq {m[c] : c \in calls}
      BY <1>2 DEF Aborted
    <2> HIDE DEF m
    <2>3. QED
      BY <2>1, <2>2, MapKeepsOrder
  <1>3. CASE calls' = Superseded(Aborted)
    <2> DEFINE m == [c \in calls |-> [a(c) EXCEPT !.current = FALSE]]
    <2>1. \A c \in calls : From(m[c], c)
      BY <1>1, AbortedFrom
    <2>2. calls' \subseteq {m[c] : c \in calls}
      BY <1>3 DEF Aborted, Superseded
    <2> HIDE DEF m
    <2>3. QED
      BY <2>1, <2>2, MapKeepsOrder
  <1>4. QED
    BY <1>2, <1>3

(* What the machine sends is the newest there is, and only the current call gets it. *)
LEMMA ReceivedKeepsOrder ==
  ASSUME Core, Core', Ordered, Advances, UNCHANGED store,
         NEW c \in calls, c.current, NEW d, calls' = (calls \ {c}) \cup {d}, d.current = c.current,
         NEW pages \in Seq(PageSet), Sent(d) = Sent(c) \o pages,
         \A i \in 1..Len(pages) :
           Key(pages[i]) = <<machine'.boot, machine'.id>> /\ pages[i].latest = machine'.latest
  PROVE  Ordered'
  <1>1. \A e \in calls : e \in CallSet
    BY DEF Core, CallsInv, CallsOK, CallOK
  <1>2. \A e \in calls' : e \in CallSet
    BY DEF Core, CallsInv, CallsOK, CallOK
  <1>3. Told(machine) /\ Told(machine)' /\ Older(machine.boot, machine.id, machine.latest, machine')
    BY DEF Core, Advances
  <1>4. /\ Len(Sent(c)) \in Nat /\ Len(pages) \in Nat /\ Len(Sent(d)) = Len(Sent(c)) + Len(pages)
        /\ \A i \in 1..Len(Sent(c)) + Len(pages) :
             Sent(d)[i] = IF i <= Len(Sent(c)) THEN Sent(c)[i] ELSE pages[i - Len(Sent(c))]
    BY <1>1, SentTyped, ConcatProperties, LenProperties
  (* A page of a call is one of a call before it, or of what the machine tells now. *)
  <1>5. ASSUME NEW x \in calls', NEW i \in SentOf(x)
        PROVE  /\ Sent(x)[i] \in PageSet /\ i \in Nat
               /\ \/ x \in calls /\ x # d
                  \/ x = d /\ i \in SentOf(c) /\ Sent(x)[i] = Sent(c)[i]
                  \/ /\ x = d /\ i \notin SentOf(c)
                     /\ Key(Sent(x)[i]) = <<machine'.boot, machine'.id>>
                     /\ Sent(x)[i].latest = machine'.latest
    <2>1. Sent(x)[i] \in PageSet /\ i \in Nat
      BY <1>2, <1>5, SentTyped
    <2>2. CASE x # d
      BY <2>1, <2>2
    <2>3. CASE x = d
      <3>1. i \in 1..Len(Sent(c)) + Len(pages)
        BY <1>4, <1>5, <2>3 DEF SentOf
      <3>2. CASE i <= Len(Sent(c))
        BY <1>4, <2>1, <2>3, <3>1, <3>2 DEF SentOf
      <3>3. CASE ~(i <= Len(Sent(c)))
        <4>1. i - Len(Sent(c)) \in 1..Len(pages) /\ i \notin SentOf(c)
          BY <1>4, <3>1, <3>3 DEF SentOf
        <4>2. Sent(x)[i] = pages[i - Len(Sent(c))]
          BY <1>4, <2>3, <3>1, <3>3
        <4>3. QED
          BY <2>1, <2>3, <4>1, <4>2
      <3>4. QED
        BY <3>2, <3>3
    <2>4. QED
      BY <2>2, <2>3
  <1>6. ASSUME NEW g \in PageSet
        PROVE  /\ g.boot \in Nat /\ g.id \in Nat /\ g.latest \in Nat /\ Key(g) \in Keys
               /\ Key(g) = <<g.boot, g.id>>
    <2>1. g.boot \in Boots /\ g.id \in Shots /\ g.latest \in Nat /\ Key(g) \in Keys
      BY PageFields
    <2>2. Boots \subseteq Nat /\ Shots \subseteq Nat
      BY BoundsAssumption DEF Boots, Shots
    <2>3. QED
      BY <2>1, <2>2 DEF Key
  <1>7. PagesTold'
    <2> SUFFICES ASSUME NEW x \in calls', NEW i \in SentOf(x)
                 PROVE  Older(Sent(x)[i].boot, Sent(x)[i].id, Sent(x)[i].latest, machine')
      BY DEF PagesTold, SentOf, Sent, Older
    <2> DEFINE g == Sent(x)[i]
    <2>1. g \in PageSet
      BY <1>5
    <2>2. CASE Older(g.boot, g.id, g.latest, machine)
      BY <1>3, <1>6, <2>1, <2>2, OlderStill
    <2>3. CASE Key(g) = <<machine'.boot, machine'.id>> /\ g.latest = machine'.latest
      BY <1>6, <2>1, <2>3 DEF Older
    <2>4. QED
      BY <1>5, <2>2, <2>3 DEF Ordered, PagesTold
  <1>8. StoredTold'
    <2> SUFFICES ASSUME NEW key \in Keys, NEW n \in Stored(key)
                 PROVE  Older(key[1], key[2], n, machine')
      BY DEF StoredTold, Older, Stored
    <2>1. key[1] \in Nat /\ key[2] \in Nat /\ n \in Nat
      BY StoreFields, BoundsAssumption DEF Keys, Boots, Shots, Core, StoreInv
    <2>2. QED
      BY <1>3, <2>1, OlderStill DEF Ordered, StoredTold
  <1>9. OneCurrent'
    BY DEF Ordered, OneCurrent
  (* What the machine tells now is not older than any page, nor than what is stored. *)
  <1>10. ASSUME NEW b, NEW i, NEW n \in Nat, b = machine'.boot, i = machine'.id, Older(b, i, n, machine')
         PROVE  n <= machine'.latest
    BY <1>3, <1>10, BoundsAssumption DEF Older, Told, Boots
  <1>11. PagesInOrder'
    <2> SUFFICES ASSUME NEW x \in calls', NEW y \in calls', x.current, NEW i \in SentOf(x), NEW j \in SentOf(y),
                        y # x \/ j <= i, Key(Sent(y)[j]) = Key(Sent(x)[i])
                 PROVE  Sent(y)[j].latest <= Sent(x)[i].latest
      BY DEF PagesInOrder, SentOf, Sent, NotNewer, Key
    <2>1. x = d
      BY <1>9 DEF OneCurrent
    <2> DEFINE g == Sent(y)[j]
               h == Sent(x)[i]
    <2>2. g \in PageSet /\ h \in PageSet /\ i \in Nat /\ j \in Nat /\ Older(g.boot, g.id, g.latest, machine')
      BY <1>5, <1>7 DEF PagesTold, SentOf, Sent, Older
    <2>3. CASE Key(h) = <<machine'.boot, machine'.id>> /\ h.latest = machine'.latest
      <3>1. g.boot = machine'.boot /\ g.id = machine'.id /\ g.latest \in Nat
        BY <1>6, <2>2, <2>3
      <3>2. QED
        BY <1>10, <2>2, <2>3, <3>1
    <2>4. CASE i \in SentOf(c) /\ h = Sent(c)[i]
      <3>1. CASE y # d
        <4>1. y \in calls \ {c}
          BY <1>5, <3>1
        <4>2. QED
          BY <2>4, <4>1 DEF Ordered, PagesInOrder, NotNewer
      <3>2. CASE y = d
        <4>1. j <= i /\ j \in SentOf(c) /\ g = Sent(c)[j]
          <5>1. j \in 1..Len(Sent(c)) + Len(pages) /\ j <= i /\ i <= Len(Sent(c))
            BY <1>4, <2>1, <2>2, <2>4, <3>2 DEF SentOf
          <5>2. j <= Len(Sent(c)) /\ j \in SentOf(c)
            BY <1>4, <2>2, <5>1 DEF SentOf
          <5>3. QED
            BY <1>4, <3>2, <5>1, <5>2
        <4>2. QED
          BY <2>4, <4>1 DEF Ordered, PagesInOrder, NotNewer
      <3>3. QED
        BY <3>1, <3>2
    <2>5. QED
      BY <1>4, <1>5, <2>1, <2>3, <2>4 DEF SentOf
  <1>12. AllUpToDate'
    <2> SUFFICES ASSUME NEW x \in calls', x.current, NEW i \in SentOf(x), NEW n \in Stored(Key(Sent(x)[i]))
                 PROVE  n <= Sent(x)[i].latest
      BY DEF AllUpToDate, UpToDate, SentOf, Sent, Stored
    <2>1. x = d
      BY <1>9 DEF OneCurrent
    <2> DEFINE h == Sent(x)[i]
    <2>2. h \in PageSet /\ n \in Nat /\ Older(h.boot, h.id, n, machine')
      <3>1. h \in PageSet /\ Key(h) \in Keys /\ Key(h)[1] = h.boot /\ Key(h)[2] = h.id
        BY <1>5, <1>6
      <3>2. n \in Nat
        BY <3>1, StoreFields DEF Core, StoreInv
      <3>3. Stored(Key(h))' = Stored(Key(h))
        BY DEF Stored
      <3>4. QED
        BY <1>8, <3>1, <3>2, <3>3 DEF StoredTold, Older
    <2>3. CASE Key(h) = <<machine'.boot, machine'.id>> /\ h.latest = machine'.latest
      <3>1. h.boot = machine'.boot /\ h.id = machine'.id
        BY <1>6, <2>2, <2>3
      <3>2. QED
        BY <1>10, <2>2, <2>3, <3>1
    <2>4. CASE i \in SentOf(c) /\ h = Sent(c)[i]
      BY <2>4 DEF Ordered, AllUpToDate, UpToDate
    <2>5. QED
      BY <1>4, <1>5, <2>1, <2>3, <2>4 DEF SentOf
  <1>13. QED
    BY <1>7, <1>8, <1>9, <1>11, <1>12 DEF Ordered

(* Step by step: what is stored comes of what was, but for a commit. *)
LEMMA NothingStored ==
  ASSUME \A key \in Keys : Stored(key)' \subseteq Stored(key)
  PROVE  StoredFromCalls
  BY DEF StoredFromCalls
LEMMA MachineAdvances ==
  ASSUME Core, Core', StartShot \/ Capture \/ StopShot \/ Settled \/ PowerCycle
  PROVE  Advances
  <1>1. /\ machine.boot \in Nat /\ machine.id \in Nat /\ machine.latest \in Nat /\ Told(machine)'
        /\ machine \in [boot : Boots, id : 0..MaxShots, latest : Nat, status : TelemetryStatuses \cup {"idle"}]
    BY BoundsAssumption DEF Core, Told, Boots
  <1>2. CASE StartShot
    <2>1. machine' = [machine EXCEPT !.id = machine.id + 1, !.latest = 1, !.status = "running"]
      BY <1>1, <1>2 DEF StartShot, Captured
    <2>2. machine'.boot = machine.boot /\ machine'.id = machine.id + 1
      BY <1>1, <2>1
    <2>3. QED
      BY <1>1, <2>2 DEF Advances, Older
  <1>3. CASE Capture \/ StopShot \/ Settled
    <2>1. PICK s : machine' = [machine EXCEPT !.latest = machine.latest + 1, !.status = s]
      <3>1. CASE Capture
        <4>1. machine' = [machine EXCEPT !.latest = machine.latest + 1, !.status = machine.status]
          BY <1>1, <3>1 DEF Capture, Captured
        <4>2. QED
          BY <4>1
      <3>2. CASE StopShot \/ Settled
        BY <1>1, <3>2 DEF StopShot, Settled, Captured
      <3>3. QED
        BY <1>3, <3>1, <3>2
    <2>2. machine'.boot = machine.boot /\ machine'.id = machine.id /\ machine'.latest = machine.latest + 1
      BY <1>1, <2>1
    <2>3. QED
      BY <1>1, <2>2 DEF Advances, Older
  <1>4. CASE PowerCycle
    <2>1. machine'.boot = machine.boot + 1
      BY <1>4 DEF PowerCycle
    <2>2. QED
      BY <1>1, <2>1 DEF Advances, Older
  <1>5. QED
    BY <1>2, <1>3, <1>4

LEMMA CapturedKeepsOrder ==
  ASSUME Core, Core', Ordered, Advances, NEW m, Captured(m), machine' = m
  PROVE  Ordered'
  <1>1. UNCHANGED store
    BY DEF Captured
  <1>2. StoredFromCalls
    BY <1>1, NothingStored DEF Stored
  <1>3. CASE UNCHANGED calls
    BY <1>2, <1>3, SameCallsKeepOrder
  <1>4. CASE calls' # calls
    <2>1. PICK d : d = Drained(m, stream.cursor)
      OBVIOUS
    <2>2. /\ Subscribed
          /\ calls' = {IF Reading(c) THEN [c EXCEPT !.pipe = @ \o d.pages, !.over = d.over] ELSE c : c \in calls}
      BY <1>4, <2>1 DEF Captured, Subscribed
    <2>3. stream.cursor \in Cursors /\ Told(machine)'
      BY DEF Core, StreamSet, Advances
    <2>4. PICK pages : pages = Pages(m, stream.cursor)
      OBVIOUS
    <2>5. d.pages = pages
      BY <2>1, <2>4 DEF Drained
    <2>7. /\ pages \in Seq(PageSet)
          /\ \A i \in 1..Len(pages) :
               Key(pages[i]) = <<machine'.boot, machine'.id>> /\ pages[i].latest = machine'.latest
      <3>1. Told(m)
        BY <2>3 DEF Told
      <3>2. QED
        BY <2>3, <2>4, <3>1, PagesFollow
    <2>8. PICK c \in calls : Reading(c)
      BY <2>2 DEF Core, CallsInv, Resumes
    <2> DEFINE e == [c EXCEPT !.pipe = @ \o d.pages, !.over = d.over]
    <2>9. \A b \in calls : Reading(b) <=> b = c
      BY <2>8 DEF Core, CallsInv, OneAlive, Reading
    <2>10. calls' = (calls \ {c}) \cup {e}
      BY <2>2, <2>9
    <2>11. c \in CallSet /\ c.current
      BY <2>8 DEF Core, CallsInv, CallsOK, CallOK, Shaped, Reading
    <2>12. e.current = c.current /\ e.chunk = c.chunk /\ e.pipe = c.pipe \o pages
      BY <2>5, <2>11 DEF CallSet
    <2> HIDE DEF e
    <2>13. Sent(e) = Sent(c) \o pages
      <3>1. c.chunk \in Seq(PageSet) /\ c.pipe \in Seq(PageSet)
        BY <2>11, SentIs
      <3>2. c.chunk \o (c.pipe \o pages) = (c.chunk \o c.pipe) \o pages
        BY <2>7, <3>1, Regrouped
      <3>3. QED
        BY <2>12, <3>2 DEF Sent
    <2>14. QED
      BY <1>1, <2>7, <2>10, <2>11, <2>12, <2>13, ReceivedKeepsOrder
  <1>5. QED
    BY <1>3, <1>4

LEMMA ServeKeepsOrder ==
  ASSUME Core, Core', Ordered, Serve
  PROVE  Ordered'
  <1>1. PICK c \in calls :
          /\ c.stage = "asked" /\ ~c.aborted
          /\ IF stream.open \/ machine.id = 0
             THEN calls' = (calls \ {c}) \cup {[c EXCEPT !.stage = "reading", !.failed = TRUE]}
             ELSE LET d == Drained(machine, c.cursor) IN
                  calls' = (calls \ {c}) \cup
                       {[c EXCEPT !.stage = "reading", !.pipe = d.pages, !.over = d.over]}
    BY DEF Serve
  <1>2. UNCHANGED machine /\ UNCHANGED store /\ Advances
    BY StandingStill DEF Serve
  <1>3. StoredFromCalls
    BY <1>2, NothingStored DEF Stored
  <1>4. c \in CallSet /\ Shaped(c) /\ c.current
    BY <1>1 DEF Core, CallsInv, CallsOK, CallOK, Shaped
  <1>5. CASE stream.open \/ machine.id = 0
    <2> DEFINE d == [c EXCEPT !.stage = "reading", !.failed = TRUE]
    <2>1. calls' = (calls \ {c}) \cup {d}
      BY <1>1, <1>5
    <2>2. d.chunk = c.chunk /\ d.pipe = c.pipe
      BY <1>4 DEF CallSet
    <2> HIDE DEF d
    <2>3. From(d, c)
      BY <1>4, <2>2, FromSame DEF Sent
    <2>4. QED
      BY <1>2, <1>3, <2>1, <2>3, OneKeepsOrder
  <1>6. CASE ~(stream.open \/ machine.id = 0)
    <2>1. PICK pages : pages = Pages(machine, c.cursor)
      OBVIOUS
    <2>2. PICK over : over = Drained(machine, c.cursor).over
      OBVIOUS
    <2>3. Drained(machine, c.cursor).pages = pages
      BY <2>1 DEF Drained
    <2> DEFINE d == [c EXCEPT !.stage = "reading", !.pipe = pages, !.over = over]
    <2>4. calls' = (calls \ {c}) \cup {d}
      BY <1>1, <1>6, <2>2, <2>3
    <2>5. d.chunk = c.chunk /\ d.pipe = pages /\ d.current = c.current
      BY <1>4 DEF CallSet
    <2> HIDE DEF d
    <2>6. c.cursor \in Cursors /\ Told(machine)
      BY <1>4 DEF CallSet, Core
    <2>7. /\ pages \in Seq(PageSet)
          /\ \A i \in 1..Len(pages) :
               Key(pages[i]) = <<machine.boot, machine.id>> /\ pages[i].latest = machine.latest
      BY <2>1, <2>6, PagesFollow
    <2>8. c.chunk = <<>> /\ Sent(c) = <<>>
      BY <1>1, <1>4, SentIs DEF Shaped
    <2>9. Sent(d) = Sent(c) \o pages
      BY <2>5, <2>8 DEF Sent
    <2>10. QED
      BY <1>2, <1>4, <2>4, <2>5, <2>7, <2>9, ReceivedKeepsOrder
  <1>7. QED
    BY <1>5, <1>6

(* What a commit stores is not newer than its page, the next of its call. *)
LEMMA CommitKeepsOrder ==
  ASSUME Core, Core', Ordered, Commit
  PROVE  Ordered'
  <1>1. PICK c \in calls :
          /\ c.stage = "commit" /\ store' = Committed(Head(c.chunk), c.current).store
          /\ Becomes(c, [c EXCEPT !.stage = "select"]) \/ Becomes(c, Done(c))
    BY DEF Commit
  <1>2. UNCHANGED machine /\ Advances
    BY StandingStill DEF Commit
  <1>3. c.stage \in Pending
    BY <1>1 DEF Pending
  <1>4. PICK g : g = c.chunk[1]
    OBVIOUS
  <1>5. /\ c \in CallSet /\ c.chunk # <<>> /\ Head(c.chunk) = g /\ g \in PageSet /\ c.current \in BOOLEAN
        /\ Sent(c) # <<>> /\ Sent(c)[1] = g
    BY <1>3, <1>4, PendingPage, SentIs DEF CallSet
  <1>6. PICK st : st = Committed(g, c.current).store
    OBVIOUS
  <1>7. /\ st.traces[Key(g)].samples = StoredAfter(g) /\ store' = st
        /\ \A k \in Keys : k # Key(g) => st.traces[k].samples \subseteq Stored(k)
    <2>1. StoreTyped
      BY DEF Core, StoreInv
    <2>2. /\ st.traces[Key(g)] = [samples |-> StoredAfter(g), cache |-> Merged(g)]
          /\ \A k \in Keys : k # Key(g) =>
               \/ st.traces[k].samples = Stored(k)
               \/ st.traces[k].samples = {} /\ {k} \X Stored(k) \subseteq st.removed
      BY <1>5, <1>6, <2>1, CommittedIs
    <2>3. QED
      BY <1>1, <1>5, <1>6, <2>2
  <1>8. ASSUME NEW n \in StoredAfter(g) PROVE n \in Stored(Key(g)) \/ (n \in Nat /\ n <= g.latest)
    <2>1. g.first \in Nat /\ g.last \in Nat /\ g.latest \in Nat /\ g.last <= g.latest /\ Key(g) \in Keys
      BY <1>5, PageFields
    <2>2. Known(Key(g)) \subseteq Nat
      BY <2>1, StoreFields DEF Core, StoreInv, Known
    <2>3. CASE n \in Merged(g)
      <3>1. (n \in Known(Key(g)) /\ n <= g.latest) \/ n \in g.first..g.last
        BY <2>3 DEF Merged
      <3>2. QED
        BY <2>1, <2>2, <3>1
    <2>4. QED
      BY <1>8, <2>3 DEF StoredAfter
  <1>9. StoredFromCalls
    <2> SUFFICES ASSUME NEW key \in Keys, NEW n \in Stored(key)', n \notin Stored(key)
                 PROVE  \E e \in calls : /\ Sent(e) # <<>> /\ Key(Sent(e)[1]) = key
                                         /\ n \in Nat /\ n <= Sent(e)[1].latest
      BY DEF StoredFromCalls
    <2>1. key = Key(g)
      BY <1>7 DEF Stored
    <2>2. n \in Nat /\ n <= g.latest
      BY <1>7, <1>8, <2>1 DEF Stored
    <2>3. QED
      BY <1>5, <2>1, <2>2
  <1>10. CASE Becomes(c, [c EXCEPT !.stage = "select"])
    <2> DEFINE d == [c EXCEPT !.stage = "select"]
    <2>1. d.chunk = c.chunk /\ d.pipe = c.pipe /\ d.current = c.current
      BY <1>5 DEF CallSet
    <2>2. calls' = (calls \ {c}) \cup {d}
      BY <1>10 DEF Becomes
    <2> HIDE DEF d
    <2>3. From(d, c)
      BY <1>5, <2>1, FromSame DEF Sent
    <2>4. QED
      BY <1>2, <1>9, <2>2, <2>3, OneKeepsOrder
  <1>11. CASE Becomes(c, Done(c))
    <2>1. From(Done(c), c)
      BY <1>3, <1>5, DoneIs, FromPart
    <2>2. QED
      BY <1>2, <1>9, <1>11, <2>1, OneKeepsOrder DEF Becomes
  <1>12. QED
    BY <1>1, <1>10, <1>11

(* A step of one call that stores no sample: it takes pages, drops them, or ends. *)
LEMMA CallKeepsOrder ==
  ASSUME Core, Core', Ordered,
         Drop \/ Read \/ OnPage \/ SelectRecord \/ WriteRecord \/ Ends \/ StoreFails \/ InsertFails
  PROVE  Ordered'
  <1>1. UNCHANGED machine /\ Advances
    BY StandingStill
    DEF Drop, Read, OnPage, SelectRecord, WriteRecord, Ends, StoreFails, InsertFails, Breaks
  <1>2. StoredFromCalls
    <2>1. store'.traces = store.traces
      <3>1. CASE WriteRecord
        <4>1. PICK c \in calls :
                store' = Appended(Key(Head(c.chunk)), c.found, IF c.whole THEN "complete" ELSE "incomplete")
          BY <3>1 DEF WriteRecord
        <4>2. QED
          BY <4>1 DEF Appended, Core, StoreInv, StoreTyped, StoreSet
      <3>2. CASE ~WriteRecord
        BY <3>2 DEF Drop, Read, OnPage, SelectRecord, Ends, StoreFails, InsertFails, Breaks
      <3>3. QED
        BY <3>1, <3>2
    <2>2. QED
      BY <2>1, NothingStored DEF Stored
  <1>3. \E c \in calls : \E d : From(d, c) /\ calls' \subseteq (calls \ {c}) \cup {d}
    <2>1. \A c \in calls : c \in CallSet /\ From(c, c)
      BY FromSame DEF Core, CallsInv, CallsOK, CallOK
    <2>2. CASE Drop
      <3>1. PICK c \in calls : calls' = (calls \ {c}) \cup {[c EXCEPT !.pipe = <<>>, !.failed = TRUE]}
        BY <2>2 DEF Drop
      <3> DEFINE d == [c EXCEPT !.pipe = <<>>, !.failed = TRUE]
      <3>2. d.chunk = c.chunk /\ d.pipe = <<>> /\ d.current = c.current
        BY <2>1 DEF CallSet
      <3> HIDE DEF d
      <3>3. From(d, c)
        BY <2>1, <3>2, FromPart
      <3>4. QED
        BY <3>1, <3>3 DEF d
    <2>3. CASE Read
      <3>1. PICK c \in calls, n \in 1..MaxSamples :
              /\ Reading(c) /\ c.stage = "reading" /\ c.chunk = <<>> /\ c.pipe # <<>> /\ n <= Len(c.pipe)
              /\ calls' = (calls \ {c}) \cup
                   {[c EXCEPT !.chunk = SubSeq(c.pipe, 1, n), !.pipe = SubSeq(c.pipe, n + 1, Len(c.pipe))]}
        BY <2>3 DEF Read, Becomes
      <3> DEFINE d == [c EXCEPT !.chunk = SubSeq(c.pipe, 1, n), !.pipe = SubSeq(c.pipe, n + 1, Len(c.pipe))]
      <3>2. CallOK(c) /\ c \in CallSet
        BY DEF Core, CallsInv, CallsOK, CallOK
      <3>3. n \in 1..Len(c.pipe)
        BY <3>1, <3>2, BoundsAssumption, SentIs, LenProperties
      <3>4. Sent(d) = Sent(c) /\ d.current = c.current
        BY <3>1, <3>2, <3>3, ReadOK DEF CallSet
      <3> HIDE DEF d
      <3>5. From(d, c)
        BY <3>2, <3>4, FromSame
      <3>6. QED
        BY <3>1, <3>5 DEF d
    <2>4. CASE OnPage
      <3>1. PICK c \in calls :
              \/ Becomes(c, [c EXCEPT !.chunk = <<>>])
              \/ \E whole : Becomes(c, [c EXCEPT !.stage = "commit", !.whole = whole])
        BY <2>4 DEF OnPage
      <3>2. PICK d : /\ calls' = (calls \ {c}) \cup {d}
                     /\ d.chunk \in {c.chunk, <<>>} /\ d.pipe = c.pipe /\ d.current = c.current
        <4>1. CASE Becomes(c, [c EXCEPT !.chunk = <<>>])
          <5> DEFINE e == [c EXCEPT !.chunk = <<>>]
          <5>1. calls' = (calls \ {c}) \cup {e} /\ e.chunk = <<>> /\ e.pipe = c.pipe /\ e.current = c.current
            BY <2>1, <4>1 DEF Becomes, CallSet
          <5> HIDE DEF e
          <5>2. QED
            BY <5>1
        <4>2. CASE \E whole : Becomes(c, [c EXCEPT !.stage = "commit", !.whole = whole])
          <5>1. PICK whole : Becomes(c, [c EXCEPT !.stage = "commit", !.whole = whole])
            BY <4>2
          <5> DEFINE e == [c EXCEPT !.stage = "commit", !.whole = whole]
          <5>2. calls' = (calls \ {c}) \cup {e} /\ e.chunk = c.chunk /\ e.pipe = c.pipe /\ e.current = c.current
            BY <2>1, <5>1 DEF Becomes, CallSet
          <5> HIDE DEF e
          <5>3. QED
            BY <5>2
        <4>3. QED
          BY <3>1, <4>1, <4>2
      <3>3. From(d, c)
        <4>1. CASE d.chunk = c.chunk
          BY <2>1, <3>2, <4>1, FromSame DEF Sent
        <4>2. CASE d.chunk = <<>>
          BY <2>1, <3>2, <4>2, FromPart
        <4>3. QED
          BY <3>2, <4>1, <4>2
      <3>4. QED
        BY <3>2, <3>3
    <2>5. CASE SelectRecord
      <3>a. PICK c \in calls : \E found : Becomes(c, [c EXCEPT !.stage = "write", !.found = found])
        BY <2>5 DEF SelectRecord
      <3>1. PICK found : Becomes(c, [c EXCEPT !.stage = "write", !.found = found])
        BY <3>a
      <3> DEFINE d == [c EXCEPT !.stage = "write", !.found = found]
      <3>2. calls' = (calls \ {c}) \cup {d} /\ d.chunk = c.chunk /\ d.pipe = c.pipe /\ d.current = c.current
        BY <2>1, <3>1 DEF Becomes, CallSet
      <3> HIDE DEF d
      <3>3. From(d, c)
        BY <2>1, <3>2, FromSame DEF Sent
      <3>4. QED
        BY <3>2, <3>3
    <2>6. CASE WriteRecord
      <3>1. PICK c \in calls : c.stage = "write" /\ Becomes(c, [Done(c) EXCEPT !.found = <<>>])
        BY <2>6 DEF WriteRecord
      <3>2. c.stage \in Pending
        BY <3>1 DEF Pending
      <3> DEFINE d == [Done(c) EXCEPT !.found = <<>>]
      <3>3. d.chunk = Tail(c.chunk) /\ d.pipe = c.pipe /\ d.current = c.current /\ c.chunk # <<>>
        BY <3>2, DoneIs, PendingPage
      <3>4. calls' = (calls \ {c}) \cup {d}
        BY <3>1 DEF Becomes
      <3> HIDE DEF d
      <3>5. From(d, c)
        BY <2>1, <3>3, FromPart
      <3>6. QED
        BY <3>4, <3>5
    <2>7. CASE Ends \/ StoreFails \/ InsertFails
      <3>1. PICK c \in calls : calls' = calls \ {c}
        BY <2>7 DEF Ends, StoreFails, InsertFails, Breaks
      <3>2. QED
        BY <2>1, <3>1
    <2>8. QED
      BY <2>2, <2>3, <2>4, <2>5, <2>6, <2>7
  <1>4. QED
    BY <1>1, <1>2, <1>3, OneKeepsOrder

(* Steps of the database alone take samples away, or leave them. *)
LEMMA StoreStepKeepsOrder ==
  ASSUME Core, Core', Ordered, Release \/ Mark \/ SelectPending \/ WritePending \/ Clear
  PROVE  Ordered'
  <1>1. UNCHANGED machine /\ UNCHANGED calls /\ Advances
    BY StandingStill DEF Release, Mark, SelectPending, WritePending, Clear
  <1>2. \A key \in Keys : Stored(key)' \subseteq Stored(key)
    <2>1. CASE Release \/ SelectPending
      BY <2>1 DEF Release, SelectPending, Stored
    <2>2. CASE Mark \/ WritePending
      <3>1. store'.traces = store.traces
        <4>1. CASE Mark
          BY <4>1 DEF Mark, Core, StoreInv, StoreTyped, StoreSet
        <4>2. CASE WritePending
          <5>1. PICK key, found, status : store' \in {store, Appended(key, found, status)}
            BY <4>2 DEF WritePending
          <5>2. Appended(key, found, status).traces = store.traces
            BY DEF Appended, Core, StoreInv, StoreTyped, StoreSet
          <5>3. QED
            BY <5>1, <5>2
        <4>3. QED
          BY <2>2, <4>1, <4>2
      <3>2. QED
        BY <3>1 DEF Stored
    <2>3. CASE Clear
      BY <2>3 DEF Clear, Dropped, Stored
    <2>4. QED
      BY <2>1, <2>2, <2>3
  <1>3. QED
    BY <1>1, <1>2, NothingStored, SameCallsKeepOrder

(* The session's steps of all its calls. *)
LEMMA SessionStepKeepsOrder ==
  ASSUME Core, Core', Ordered, Poll \/ LoadTrace \/ Foreground \/ Background \/ Retry \/ Restart
  PROVE  Ordered'
  <1>1. UNCHANGED machine /\ Advances
    BY StandingStill DEF Poll, LoadTrace, Foreground, Background, Retry, Restart
  <1>2. StoredFromCalls
    <2>1. \A key \in Keys : Stored(key)' = Stored(key)
      <3>1. CASE LoadTrace
        BY <3>1, LoadedStays
      <3>2. CASE Restart
        BY <3>2, ForgottenCacheKeeps DEF Restart, Core, StoreInv, StoreTyped, StoreSet
      <3>3. CASE Poll \/ Foreground \/ Background \/ Retry
        BY <3>3 DEF Poll, Foreground, Background, Retry, Stored
      <3>4. QED
        BY <3>1, <3>2, <3>3
    <2>2. QED
      BY <2>1, NothingStored
  <1>3. \/ UNCHANGED calls \/ (\E p : Connects(p, calls)) \/ calls' = Aborted
        \/ calls' = Superseded(Aborted) \/ calls' = {}
    <2>1. CASE LoadTrace
      BY <2>1 DEF LoadTrace, EnsureConnected
    <2>2. CASE Foreground \/ Retry
      BY <2>2 DEF Foreground, Retry
    <2>3. CASE Poll \/ Background \/ Restart
      BY <2>3 DEF Poll, Background, Restart
    <2>4. QED
      BY <2>1, <2>2, <2>3
  <1>4. CASE calls' = {}
    <2>1. OneCurrent' /\ Shrunk
      BY <1>4 DEF OneCurrent, Shrunk
    <2>2. QED
      BY <1>1, <1>2, <2>1, ShrunkKeepsOrder
  <1>5. QED
    BY <1>1, <1>2, <1>3, <1>4, SameCallsKeepOrder, ConnectsKeepsOrder, AbortedKeepOrder

LEMMA NextOrdered == Core /\ Ordered /\ [Next]_vars => Ordered'
  <1> SUFFICES ASSUME Core, Ordered, [Next]_vars PROVE Ordered'
    OBVIOUS
  <1>1. Core'
    BY NextCore
  <1>2. CASE StartShot \/ Capture \/ StopShot \/ Settled
    <2>1. \E m : Captured(m) /\ machine' = m
      <3>1. PICK m : Captured(m)
        BY <1>2 DEF StartShot, Capture, StopShot, Settled
      <3>2. QED
        BY <3>1 DEF Captured
    <2>2. QED
      BY <1>1, <1>2, <2>1, MachineAdvances, CapturedKeepsOrder
  <1>3. CASE PowerCycle
    <2>1. StoredFromCalls /\ UNCHANGED calls
      BY <1>3, NothingStored DEF PowerCycle, Stored
    <2>2. QED
      BY <1>1, <1>3, <2>1, MachineAdvances, SameCallsKeepOrder
  <1>4. CASE Serve \/ Commit
    BY <1>1, <1>4, ServeKeepsOrder, CommitKeepsOrder
  <1>5. CASE Drop \/ Read \/ OnPage \/ SelectRecord \/ WriteRecord \/ Ends \/ StoreFails \/ InsertFails
    BY <1>1, <1>5, CallKeepsOrder
  <1>6. CASE Poll \/ LoadTrace \/ Foreground \/ Background \/ Retry \/ Restart
    BY <1>1, <1>6, SessionStepKeepsOrder
  <1>7. CASE Release \/ Mark \/ SelectPending \/ WritePending \/ Clear
    BY <1>1, <1>7, StoreStepKeepsOrder
  <1>8. CASE UNCHANGED vars
    <2>1. UNCHANGED machine /\ UNCHANGED calls /\ StoredFromCalls
      BY <1>8, NothingStored DEF vars, Stored
    <2>2. QED
      BY <1>1, <2>1, StandingStill, SameCallsKeepOrder
  <1>9. QED
    BY <1>2, <1>3, <1>4, <1>5, <1>6, <1>7, <1>8 DEF Next

LEMMA InitOrdered == Init => Ordered
  BY DEF Init, Ordered, PagesTold, StoredTold, OneCurrent, PagesInOrder, AllUpToDate, Stored, Dropped

LEMMA WorldStays == WorldTyped /\ [Next]_vars => WorldTyped'
  <1> SUFFICES ASSUME WorldTyped, [Next]_vars PROVE WorldTyped'
    OBVIOUS
  <1>1. ASSUME UNCHANGED world PROVE WorldTyped'
    BY <1>1 DEF WorldTyped
  <1>2. CASE StartShot
    BY <1>2, MayKeeps DEF StartShot
  <1>3. CASE PowerCycle \/ Drop
    BY <1>3, MayKeeps DEF PowerCycle, Drop
  <1>4. CASE Background \/ Restart
    BY <1>4, MayKeeps DEF Background, Restart
  <1>5. CASE StoreFails \/ Clear
    BY <1>5, MayKeeps DEF StoreFails, Clear
  <1>6. CASE Capture \/ StopShot \/ Settled \/ Serve \/ Release \/ Poll \/ LoadTrace \/ Foreground
    BY <1>1, <1>6 DEF Capture, StopShot, Settled, Serve, Release, Poll, LoadTrace, Foreground
  <1>7. CASE Read \/ OnPage \/ Commit \/ SelectRecord \/ WriteRecord \/ Ends \/ InsertFails \/ Retry
    BY <1>1, <1>7 DEF Read, OnPage, Commit, SelectRecord, WriteRecord, Ends, InsertFails, Retry
  <1>8. CASE Mark \/ SelectPending \/ WritePending
    BY <1>1, <1>8 DEF Mark, SelectPending, WritePending
  <1>9. CASE UNCHANGED vars
    BY <1>1, <1>9 DEF vars
  <1>10. QED
    BY <1>2, <1>3, <1>4, <1>5, <1>6, <1>7, <1>8, <1>9 DEF Next

LEMMA InitWorld == Init => WorldTyped
  BY WorldsAssumption DEF Init, WorldTyped

-----------------------------------------------------------------------------
(* The properties.                                                              *)

(* The inductive invariant holds in every state. *)
THEOREM InvHolds == Spec => []IInv
  <1>1. Init => IInv
    BY InitCore, InitOrdered, InitWorld DEF IInv
  <1>2. IInv /\ [Next]_vars => IInv'
    BY NextCore, NextOrdered, WorldStays DEF IInv
  <1>3. QED
    BY <1>1, <1>2, PTL DEF Spec

(* The cursor that extraction-stream-session.ts resumes the stream after: every   *)
(* sample up to it is in the database, or was until the user cleared it, another   *)
(* boot's shot took its place or the late commit of a superseded call trimmed it;  *)
(* commitExtractionTracePage of a current call removes no sample of its shot.      *)
THEOREM CursorStored == Spec => []CursorIsStored
  <1>1. IInv => CursorIsStored
    BY DEF IInv, Core, PhoneInv, Covered, UpTo, CursorIsStored
  <1>2. QED
    BY <1>1, InvHolds, PTL

(* What the machine sends fits the schema the phone parses it with, and goes on   *)
(* where the page before it ended or begins another shot.                         *)
THEOREM PagesAreFit == Spec => []PagesFit
  <1>1. IInv => PagesFit
    <2> SUFFICES ASSUME IInv, NEW c \in calls
                 PROVE  LET sent == c.chunk \o c.pipe IN
                        /\ \A i \in DOMAIN sent : Schema!TelemetryPage(AsSent(sent[i]))
                        /\ \A i \in 2..Len(sent) :
                             IF Key(sent[i]) = Key(sent[i - 1]) THEN sent[i].first = sent[i - 1].last + 1
                             ELSE sent[i].continuity = "reset" /\ sent[i].first = 1
      BY DEF PagesFit
    <2>1. c \in CallSet /\ Fits(c.chunk \o c.pipe)
      BY DEF IInv, Core, CallsInv, CallsOK, CallOK, Shaped, Sent
    <2>2. PICK sent : sent = c.chunk \o c.pipe
      OBVIOUS
    <2>3. sent \in Seq(PageSet)
      BY <2>1, <2>2, SentIs DEF Sent
    <2>4. \A i \in DOMAIN sent : Schema!TelemetryPage(AsSent(sent[i]))
      BY <2>3, PageIsValid
    <2>5. \A i \in 2..Len(sent) : Follows(sent[i - 1], sent[i])
      BY <2>1, <2>2 DEF Fits
    <2>6. QED
      BY <2>2, <2>4, <2>5 DEF Follows
  <1>2. QED
    BY <1>1, InvHolds, PTL

(* A poll's record, written late between the steps of the stream's own, does not   *)
(* take back what the stream has recorded complete.                               *)
THEOREM CompletedStays == Spec => CompleteStays
  <1> DEFINE Kept == \A k \in RecordKeys : store.records[k] = "complete" => store'.records[k] = "complete"
             Step == calls' = calls /\ world'.clears = world.clears => Kept
  <1>1. IInv /\ [Next]_vars => Step
    <2> SUFFICES ASSUME Core, Ordered, WorldTyped, [Next]_vars, calls' = calls, world'.clears = world.clears
                 PROVE  Kept
      BY DEF IInv
    <2>1. ASSUME store'.records = store.records PROVE Kept
      BY <2>1
    <2> HIDE DEF Kept
    <2>2. CASE StartShot \/ Capture \/ StopShot \/ Settled \/ PowerCycle \/ Serve \/ Release \/ Drop
      BY <2>1, <2>2
      DEF StartShot, Capture, StopShot, Settled, PowerCycle, Serve, Release, Drop, Captured
    <2>3. CASE Poll \/ Foreground \/ Background \/ Read \/ OnPage
      BY <2>1, <2>3 DEF Poll, Foreground, Background, Read, OnPage
    <2>12. CASE LoadTrace
      BY <2>1, <2>12, LoadedStays
    <2>4. CASE Commit
      BY <2>1, <2>4, CommitStepKeeps
    <2>5. CASE SelectRecord \/ Ends \/ StoreFails \/ InsertFails \/ Retry \/ SelectPending
      BY <2>1, <2>5 DEF SelectRecord, Ends, StoreFails, InsertFails, Breaks, Retry, SelectPending
    <2>13. CASE Restart
      BY <2>1, <2>13, ForgottenCacheKeeps DEF Restart, Core, StoreInv, StoreTyped, StoreSet
    <2>6. CASE WriteRecord
      BY <2>6, WriteRecordKeeps
    <2>7. CASE Mark
      BY <2>7, MarkKeeps DEF Core, Kept
    <2>8. CASE WritePending
      BY <2>8, WritePendingKeeps DEF Core, Kept
    <2>9. CASE Clear
      BY <2>9, MayKeeps DEF Clear
    <2>10. CASE UNCHANGED vars
      BY <2>1, <2>10 DEF vars
    <2>11. QED
      BY <2>2, <2>3, <2>4, <2>5, <2>6, <2>7, <2>8, <2>9, <2>10, <2>12, <2>13 DEF Next
  <1>2. QED
    BY <1>1, InvHolds, PTL DEF Spec, CompleteStays
=============================================================================
