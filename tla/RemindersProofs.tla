-------------------------- MODULE RemindersProofs --------------------------
(***************************************************************************)
(* Proofs about Reminders, for any number of reminders, callers and        *)
(* processes: what is stored keeps its type, an occurrence is recorded     *)
(* once, for the schedule in force, and notified at most once.             *)
(*                                                                         *)
(* Where next_run_at never goes back (Forward), a reminder, its job and    *)
(* its occurrences are of one schedule.                                    *)
(***************************************************************************)
EXTENDS Reminders, FiniteSetTheorems, TLAPS

-----------------------------------------------------------------------------
(* next_occurrence. *)

\* The clocks of the zone do not go back, or no recurrence reads them.
Forward ==
    \/ Local.before <= Local.after
    \/ \A rec \in Recurrences : rec.kind \in {"once", "interval"}

LEMMA Division ==
    ASSUME NEW a \in Int, NEW d \in Nat \ {0}
    PROVE  /\ a \div d \in Int /\ (a \div d) * d <= a /\ a < (a \div d) * d + d
           /\ a % d \in 0 .. d - 1
  OBVIOUS

LEMMA WallForward ==
    ASSUME NEW z \in Zone, NEW u \in Int, NEW v \in Int
    PROVE  /\ Wall(z, u) \in Int /\ Instant(z, u) \in Int
           /\ z.before <= z.after =>
                 /\ u <= v => Wall(z, u) <= Wall(z, v)
                 /\ Wall(z, Instant(z, u)) >= u
  BY DEF Wall, Zone, Instant, OccursBefore, OccursAfter

LEMMA IntervalLater ==
    ASSUME NEW slot \in Int, NEW s \in Nat \ {0}, NEW ref \in Int
    PROVE  /\ NextInterval(slot, s, ref) \in Int
           /\ NextInterval(slot, s, ref) > ref
  <1> DEFINE q == (ref - slot) \div s
  <1>1. q \in Int /\ ref - slot < q * s + s /\ q * s \in Int
    BY Division
  <1>2. NextInterval(slot, s, ref) = slot + (q + 1) * s
    BY DEF NextInterval
  <1> HIDE DEF q
  <1>3. (q + 1) * s = q * s + s
    BY <1>1
  <1>4. QED
    BY <1>1, <1>2, <1>3

\* A day that begins after the reference's has only later times.
LEMMA DayLater ==
    ASSUME NEW z \in Zone, NEW ref \in Int, NEW d \in Int, NEW c \in 0 .. Day - 1
    PROVE  /\ Candidate(z, d, c) \in Int
           /\ z.before <= z.after /\ d > Wall(z, ref) \div Day => Candidate(z, d, c) > ref
  <1> DEFINE w == d * Day + c
             q == Wall(z, ref) \div Day
  <1>1. Day \in Nat \ {0} /\ w \in Int /\ Wall(z, ref) \in Int
    <2>1. Day \in Nat \ {0} /\ d * Day \in Int
      BY CalendarAssumption
    <2>2. QED
      BY <2>1, WallForward
  <1>2. q \in Int /\ q * Day \in Int /\ Wall(z, ref) < q * Day + Day
    <2>1. q \in Int /\ Wall(z, ref) < q * Day + Day
      BY <1>1, Division
    <2> HIDE DEF q
    <2>2. QED
      BY <1>1, <2>1
  <1>3. Candidate(z, d, c) = Instant(z, w) /\ Instant(z, w) \in Int
    BY <1>1, WallForward DEF Candidate
  <1>4. ASSUME z.before <= z.after, d > q PROVE Instant(z, w) > ref
    <2> HIDE DEF q
    <2>1. d * Day >= (q + 1) * Day /\ (q + 1) * Day = q * Day + Day /\ d * Day \in Int
      BY <1>1, <1>2, <1>4
    <2>2. w >= q * Day + Day
      BY <1>1, <1>2, <2>1
    <2>3. Wall(z, Instant(z, w)) >= w /\ Wall(z, Instant(z, w)) \in Int
      BY <1>1, <1>3, <1>4, WallForward
    <2>4. ~ (Wall(z, Instant(z, w)) <= Wall(z, ref))
      BY <1>1, <1>2, <2>2, <2>3
    <2>5. ~ (Instant(z, w) <= ref)
      BY <1>3, <1>4, <2>4, WallForward
    <2>6. QED
      BY <1>3, <2>5
  <1>5. QED
    BY <1>3, <1>4

LEMMA NotPassedLater ==
    ASSUME NEW z \in Zone, NEW u \in Int, NEW ref \in Int, z.before <= z.after,
           ~Passed(z, u, ref)
    PROVE  u > ref
  <1>1. ~ (u <= ref)
    BY WallForward DEF Passed
  <1>2. QED
    BY <1>1

LEMMA DailyLater ==
    ASSUME NEW z \in Zone, NEW ref \in Int, NEW c \in 0 .. Day - 1
    PROVE  /\ NextDaily(c, z, ref) \in Int
           /\ z.before <= z.after => NextDaily(c, z, ref) > ref
  <1> DEFINE d == Wall(z, ref) \div Day
  <1>1. d \in Int /\ d + 1 \in Int /\ d + 1 > d
    BY CalendarAssumption, WallForward, Division
  <1>2. NextDaily(c, z, ref) = IF Passed(z, Candidate(z, d, c), ref)
                               THEN Candidate(z, d + 1, c) ELSE Candidate(z, d, c)
    BY DEF NextDaily
  <1>3. /\ Candidate(z, d, c) \in Int /\ Candidate(z, d + 1, c) \in Int
        /\ z.before <= z.after => Candidate(z, d + 1, c) > ref
    BY <1>1, DayLater
  <1>4. QED
    BY <1>2, <1>3, NotPassedLater

LEMMA WeeklyLater ==
    ASSUME NEW z \in Zone, NEW ref \in Int, NEW c \in 0 .. Day - 1, NEW day \in 0 .. Week - 1
    PROVE  /\ NextWeekly(day, c, z, ref) \in Int
           /\ z.before <= z.after => NextWeekly(day, c, z, ref) > ref
  <1> DEFINE d == Wall(z, ref) \div Day
             a == (day - d) % Week
             u == Candidate(z, d + a, c)
             e == Wall(z, u) \div Day
  <1>1. d \in Int /\ a \in Nat /\ d + a \in Int
    <2>1. d \in Int /\ Wall(z, ref) \in Int
      BY CalendarAssumption, WallForward, Division
    <2>2. day - d \in Int
      BY <2>1, CalendarAssumption
    <2>3. a \in 0 .. Week - 1
      BY <2>2, CalendarAssumption, Division
    <2>4. QED
      BY <2>1, <2>3
  <1>2. u \in Int /\ Wall(z, u) \in Int /\ Week \in Nat \ {0}
    <2> HIDE DEF d, a
    <2>1. u \in Int
      BY <1>1, DayLater
    <2> HIDE DEF u
    <2>2. QED
      BY <2>1, WallForward, CalendarAssumption
  <1>3. e \in Int /\ e + Week \in Int /\ Wall(z, u) < e * Day + Day
    <2> HIDE DEF u
    <2>1. e \in Int /\ Wall(z, u) < e * Day + Day
      BY <1>2, CalendarAssumption, Division
    <2> HIDE DEF e
    <2>2. QED
      BY <1>2, <2>1
  <1>4. NextWeekly(day, c, z, ref) = IF Passed(z, u, ref)
                                     THEN Candidate(z, e + Week, c) ELSE u
    BY DEF NextWeekly
  <1>5. Candidate(z, e + Week, c) \in Int
    BY <1>3, DayLater
  <1>6. ASSUME z.before <= z.after PROVE Candidate(z, e + Week, c) > ref
    <2> DEFINE w == (d + a) * Day + c
    <2>1. w \in Int /\ u = Instant(z, w) /\ Day \in Nat \ {0}
      BY <1>1, CalendarAssumption DEF Candidate
    <2>2. Wall(z, u) >= w
      BY <1>6, <2>1, WallForward
    <2>3. w >= d * Day /\ d * Day \in Int
      <3> HIDE DEF a, d
      <3>1. (d + a) * Day = d * Day + a * Day /\ a * Day >= 0 /\ d * Day \in Int /\ a * Day \in Int
        BY <1>1, <2>1
      <3>2. QED
        BY <3>1, <2>1
    <2> HIDE DEF w
    <2>4. e >= d
      <3> HIDE DEF e, d, u, a
      <3>1. SUFFICES ASSUME e + 1 <= d PROVE FALSE
        BY <1>1, <1>3
      <3>2. (e + 1) * Day <= d * Day /\ (e + 1) * Day = e * Day + Day /\ e * Day \in Int
        BY <1>1, <1>3, <2>1, <3>1
      <3>3. QED
        BY <1>2, <1>3, <2>1, <2>2, <2>3, <3>2
    <2>5. e + Week > d
      BY <1>1, <1>2, <1>3, <2>4
    <2>6. QED
      BY <1>3, <1>6, <2>5, DayLater
  <1>7. QED
    BY <1>2, <1>4, <1>5, <1>6, NotPassedLater

\* next_occurrence gives a time; where the clocks do not go back, a later one.
LEMMA NextLater ==
    ASSUME NEW rec \in Recurrences, rec # Once, NEW slot \in Int, NEW at \in Int
    PROVE  /\ NextOccurrence(slot, rec, Local, at) \in Int
           /\ Forward => NextOccurrence(slot, rec, Local, at) > slot
  <1> DEFINE ref == Later(slot, at)
  <1>1. ref \in Int /\ ref >= slot /\ Local \in Zone /\ rec \in Rule
    BY RemindersAssumption DEF Later
  <1> HIDE DEF ref
  <1>2. CASE rec \in [kind : {"interval"}, seconds : Nat \ {0}]
    <2>1. rec.kind = "interval" /\ rec.seconds \in Nat \ {0}
      BY <1>2
    <2>2. NextOccurrence(slot, rec, Local, at) = NextInterval(slot, rec.seconds, ref)
      BY <2>1 DEF NextOccurrence, ref
    <2>3. QED
      BY <1>1, <2>1, <2>2, IntervalLater
  <1>3. CASE rec \in [kind : {"daily"}, time : 0 .. Day - 1]
    <2>1. rec.kind = "daily" /\ rec.time \in 0 .. Day - 1
      BY <1>3
    <2>2. NextOccurrence(slot, rec, Local, at) = NextDaily(rec.time, Local, ref)
      BY <2>1 DEF NextOccurrence, ref
    <2>3. QED
      BY <1>1, <2>1, <2>2, DailyLater DEF Forward
  <1>4. CASE rec \in [kind : {"weekly"}, weekday : 0 .. Week - 1, time : 0 .. Day - 1]
    <2>1. rec.kind = "weekly" /\ rec.time \in 0 .. Day - 1 /\ rec.weekday \in 0 .. Week - 1
      BY <1>4
    <2>2. NextOccurrence(slot, rec, Local, at)
            = NextWeekly(rec.weekday, rec.time, Local, ref)
      BY <2>1 DEF NextOccurrence, ref
    <2>3. QED
      BY <1>1, <2>1, <2>2, WeeklyLater DEF Forward
  <1>5. QED
    BY <1>1, <1>2, <1>3, <1>4 DEF Rule

-----------------------------------------------------------------------------
(* References: the program counters, and what threads and rows hold on to. *)

CallerPc == {"down", "idle", "enqueue", "repair", "link", "undo", "cancelOld"}

\* A process that holds no delivery job, and a worker at its job.
FreePc == {"down", "list", "next", "recover", "poll"}
JobPc == {"check", "read", "trigger", "notify", "check2", "finish", "cancel", "fail"}

\* Where a thread has a reminder in mind, and where a job as well.
CopyPc == {"enqueue", "repair", "link", "undo", "cancelOld", "trigger", "notify", "check2"}
LinkPc == {"link", "undo", "cancelOld"}

\* A row of a table that exists, of this revision or a later one.
Known(table, r, rev) == table[r].status # "absent" /\ rev <= table[r].rev

\* What a thread at a label may rely on of the copy and the link it has.
Mind(table, keys, label, copy, job) ==
    /\ copy # NoCopy => copy \in Copy /\ Known(table, copy.rem, copy.rev)
    /\ label \in CopyPc => copy # NoCopy
    /\ label \in InEnsure => copy.status = "active"
    /\ label \in LinkPc => job.job \in keys
    /\ label \in {"link", "undo"} => job.job = KeyFor(copy, job.job.copy)

\* A process and its worker.
ProcFit(p) ==
    /\ pc[p] \in FreePc \cup JobPc \cup InEnsure
    /\ pc[p] \in FreePc => held[p] = NoJob
    /\ pc[p] \in JobPc => held[p] # NoJob
    /\ held[p] # NoJob => held[p] \in DOMAIN jobs /\ held[p].slot <= now
    /\ phase[p] = "down" => pc[p] = "down"
    /\ \A c \in todo[p] : Known(rows, c.rem, c.rev) /\ c.status = "active"

ThreadsFit ==
    /\ \A t \in Callers : pc[t] \in CallerPc
    /\ \A p \in Procs : ProcFit(p)
    /\ \A t \in Threads : Mind(rows, DOMAIN jobs, pc[t], seen[t], link[t])

RefsFit ==
    /\ \A k \in DOMAIN jobs : Known(rows, k.rem, k.rev)
    /\ \A o \in DOMAIN fired : Known(rows, o.rem, o.rev)

\* A job is claimed only when its slot has come.
Timely(time, k, row) ==
    /\ row.due => k.slot <= time
    /\ row.status = "running" => row.due
    /\ row.max = Attempts

JobsFit == \A k \in DOMAIN jobs : Timely(now, k, jobs[k])

\* Whoever is about to notify has recorded the occurrence itself.
NotifierFits(p) ==
    pc[p] = "notify" =>
        LET o == OccurrenceOf(held[p])
        IN  /\ o \in DOMAIN fired /\ fired[o].told = 0
            /\ \A q \in Procs \ {p} : pc[q] = "notify" => OccurrenceOf(held[q]) # o

RemInv ==
    /\ TypeOK /\ ThreadsFit /\ RefsFit /\ JobsFit /\ LinkedJobFits /\ FiredOnce
    /\ \A p \in Procs : NotifierFits(p)
    /\ IsFiniteSet(DOMAIN fired) /\ IsFiniteSet(DOMAIN jobs)

\* Where next_occurrence moves on: no occurrence at or behind next_run_at, and
\* no delivery that would take it back.
ForwardInv ==
    /\ RemInv /\ SlotsAdvance
    /\ \A p \in Procs : pc[p] = "trigger" => after[p] = NoTime \/ after[p] > held[p].slot

-----------------------------------------------------------------------------
(* Copies, rows and keys. *)

LEMMA NoThings == NoCopy \notin Copy /\ NoJob \notin Key /\ Absent \notin Reminder
  BY DEF NoCopy, Copy, NoJob, Key, Absent, Reminder

LEMMA RowIs ==
    ASSUME TypeOK, NEW r \in Ids
    PROVE  /\ Exists(r) <=> rows[r] \in Reminder
           /\ ~Exists(r) <=> rows[r] = Absent
           /\ Exists(r) => rows[r].rev \in Nat \ {0} /\ rows[r].next \in Int /\ rows[r].count \in Nat
  BY DEF TypeOK, Exists, Absent, Reminder

LEMMA CopyIs ==
    ASSUME NEW r \in Ids, NEW row \in Reminder
    PROVE  /\ CopyOf(r, row) \in Copy /\ CopyOf(r, row) # NoCopy
           /\ CopyOf(r, row).rem = r /\ CopyOf(r, row).rev = row.rev
           /\ CopyOf(r, row).next = row.next /\ CopyOf(r, row).status = row.status
           /\ CopyOf(r, row).rec = row.rec
  BY DEF CopyOf, Copy, Reminder, NoCopy

LEMMA KeyIs ==
    ASSUME NEW c \in Copy, NEW n \in Nat
    PROVE  /\ KeyFor(c, n) \in Key
           /\ KeyFor(c, n).rem = c.rem /\ KeyFor(c, n).rev = c.rev
           /\ KeyFor(c, n).slot = c.next /\ KeyFor(c, n).copy = n
  BY DEF KeyFor, Copy, Key

LEMMA KeyIsKey ==
    ASSUME NEW k \in Key, NEW l \in Key,
           k.rem = l.rem, k.rev = l.rev, k.slot = l.slot, k.copy = l.copy
    PROVE  k = l
  BY DEF Key

LEMMA NewReminderIs ==
    ASSUME NEW slot \in Slots, NEW rec \in Recurrences
    PROVE  LET row == NewReminder(slot, rec)
           IN  /\ row \in Reminder /\ row.job = NoJob /\ row.rev = 1
               /\ row.status = "active" /\ row.count = 0 /\ row.next = slot
  BY RemindersAssumption DEF NewReminder, Reminder

LEMMA CancelledIs ==
    ASSUME NEW row \in Reminder
    PROVE  LET new == [row EXCEPT !.status = "cancelled", !.next = NoTime, !.job = NoJob]
           IN  /\ new \in Reminder /\ new.status = "cancelled" /\ new.rev = row.rev
               /\ new.job = NoJob /\ new.count = row.count
  <1>1. NoTime \in Int
    BY DEF NoTime
  <1>2. QED
    BY <1>1 DEF Reminder

LEMMA LinkedIs ==
    ASSUME NEW row \in Reminder, NEW k \in Key
    PROVE  LET new == [row EXCEPT !.job = k]
           IN  /\ new \in Reminder /\ new.rev = row.rev /\ new.next = row.next
               /\ new.job = k /\ new.count = row.count /\ new.status = row.status
               /\ new.rec = row.rec
  BY DEF Reminder

LEMMA AdvancedIs ==
    ASSUME NEW row \in Reminder, NEW next \in Int, NEW new \in BOOLEAN
    PROVE  LET s == Advanced(row, next, new)
           IN  /\ s \in Reminder /\ s.rev = row.rev /\ s.job = NoJob /\ s.rec = row.rec
               /\ s.count = IF new THEN row.count + 1 ELSE row.count
               /\ \/ s.status = row.status /\ next # NoTime /\ s.next = next
                  \/ s.status = "completed" /\ s.next = NoTime
  <1> DEFINE c == [row EXCEPT !.count = IF new THEN @ + 1 ELSE @, !.job = NoJob]
  <1>1. /\ c \in Reminder /\ c.rev = row.rev /\ c.job = NoJob /\ c.rec = row.rec
        /\ c.count = IF new THEN row.count + 1 ELSE row.count
        /\ c.status = row.status
    <2>1. row.count + 1 \in Nat
      BY DEF Reminder
    <2>2. QED
      BY <2>1 DEF Reminder
  <1>2. Advanced(row, next, new) = IF row.rec # Once /\ next # NoTime
                                   THEN [c EXCEPT !.next = next]
                                   ELSE [c EXCEPT !.status = "completed", !.next = NoTime]
    BY DEF Advanced
  <1> HIDE DEF c
  <1>3. NoTime \in Int
    BY DEF NoTime
  <1>4. QED
    BY <1>1, <1>2, <1>3 DEF Reminder

-----------------------------------------------------------------------------
(* Rows of the jobs table. *)

LEMMA RowCounts ==
    ASSUME NEW r \in J!Row
    PROVE  /\ r.attempts \in Nat /\ r.attempts + 1 \in Nat
           /\ r.starts \in Nat /\ r.starts + 1 \in Nat
  <1>1. r.attempts \in Nat /\ r.starts \in Nat
    BY DEF J!Row
  <1>2. QED
    BY <1>1

Method(r, s) ==
    s \in {r, J!RequestCancel(r), J!Complete(r), J!MarkCancelled(r), J!Fail(r, TRUE),
           J!Recover(r, TRUE)}

\* The methods of the repository, which do not start a job.
LEMMA MethodIs ==
    ASSUME NEW r \in J!Row, NEW s, Method(r, s)
    PROVE  /\ s \in J!Row /\ s.max = r.max /\ s.attempts = r.attempts
           /\ s.status = "running" => r.status = "running" /\ s.due = r.due
           /\ s.due => r.due \/ r.status = "running"
           /\ r.status \in J!Terminal => s = r
           /\ r.cancel => s.cancel
  <1>1. /\ {"queued", "running", "waiting_approval", "succeeded", "failed", "cancelled"}
              = J!Status
        /\ "none" \in J!Approval
    BY DEF J!Status, J!Approval, J!Terminal
  <1>2. CASE s = r
    BY <1>2
  <1>3. CASE r.status \notin J!Terminal /\ s = J!Cancelled(r)
    BY <1>1, <1>3 DEF J!Cancelled, J!Row
  <1>4. CASE r.status \notin J!Terminal /\ s = J!Failed(r)
    BY <1>1, <1>4 DEF J!Failed, J!Row
  <1>5. CASE r.status \notin J!Terminal /\ s = [r EXCEPT !.cancel = TRUE]
    BY <1>1, <1>5 DEF J!Row
  <1>6. CASE r.status \notin J!Terminal /\ s = [r EXCEPT !.status = "succeeded"]
    BY <1>1, <1>6 DEF J!Row
  <1>7. CASE r.status \notin J!Terminal /\ s = [r EXCEPT !.status = "queued", !.due = FALSE]
    BY <1>1, <1>7 DEF J!Row
  <1>8. CASE r.status = "running" /\ s = [r EXCEPT !.status = "queued", !.due = TRUE]
    BY <1>1, <1>8 DEF J!Row, J!Terminal
  <1>9. QED
    BY <1>2, <1>3, <1>4, <1>5, <1>6, <1>7, <1>8 DEF Method, J!RequestCancel, J!Complete,
       J!MarkCancelled, J!Fail, J!Recover, J!Terminal

LEMMA ClaimIs ==
    ASSUME NEW r \in J!Row, J!Claimable(r)
    PROVE  LET s == J!Claim(r)
           IN  /\ s \in J!Row /\ s.max = r.max /\ s.attempts = r.attempts + 1
               /\ s.status = "running" /\ s.due /\ r.status = "queued" /\ r.due
               /\ s.cancel = r.cancel /\ ~r.cancel /\ r.attempts < r.max
  <1>1. "running" \in J!Status
    BY DEF J!Status
  <1>2. QED
    BY <1>1, RowCounts DEF J!Row, J!Claim, J!Claimable

LEMMA DueIs ==
    ASSUME NEW r \in J!Row, r.status = "queued"
    PROVE  LET s == [r EXCEPT !.due = TRUE]
           IN  /\ s \in J!Row /\ s.max = r.max /\ s.attempts = r.attempts
               /\ s.status = "queued" /\ s.cancel = r.cancel
  BY DEF J!Row

LEMMA DeliveryJobIs ==
    ASSUME NEW k \in Key, now \in Nat
    PROVE  LET s == DeliveryJob(k)
           IN  /\ s \in J!Row /\ s.max = Attempts /\ s.attempts = 0 /\ s.status = "queued"
               /\ s.due => k.slot <= now
               /\ ~s.cancel
  <1>1. k.rem \in Ids /\ (k.slot <= now) \in BOOLEAN
    BY DEF Key
  <1>2. Attempts \in Nat \ {0} /\ "queued" \in J!Status /\ "none" \in J!Approval
    BY RemindersAssumption DEF J!Status, J!Approval
  <1>3. QED
    BY <1>1, <1>2 DEF DeliveryJob, J!NewRow, J!Row

LEMMA PutIs ==
    ASSUME NEW k, NEW row, Put(k, row)
    PROVE  /\ DOMAIN jobs' = DOMAIN jobs \cup {k} /\ jobs'[k] = row
           /\ \A i \in DOMAIN jobs \ {k} : jobs'[i] = jobs[i]
  BY DEF Put

\* A repair key nobody has used: there are more numbers than jobs.
LEMMA UnusedIs ==
    ASSUME IsFiniteSet(DOMAIN jobs), NEW c \in Copy
    PROVE  /\ Unused(c) \in Nat \ {0}
           /\ KeyFor(c, Unused(c)) \notin DOMAIN jobs
  <1> DEFINE n == Cardinality(DOMAIN jobs) + 1
             f == [i \in 1 .. n |-> KeyFor(c, i)]
  <1>1. n \in Nat /\ Cardinality(DOMAIN jobs) < n /\ IsFiniteSet(1 .. n) /\ Cardinality(1 .. n) = n
    <2>1. Cardinality(DOMAIN jobs) \in Nat
      BY FS_CardinalityType
    <2>2. n \in Nat /\ n >= 1 /\ Cardinality(DOMAIN jobs) < n
      BY <2>1
    <2> HIDE DEF n
    <2>3. IsFiniteSet(1 .. n) /\ Cardinality(1 .. n) = IF 1 > n THEN 0 ELSE n - 1 + 1
      BY <2>2, FS_Interval
    <2>4. QED
      BY <2>2, <2>3
  <1> HIDE DEF n
  <1>2. \E i \in 1 .. n : KeyFor(c, i) \notin DOMAIN jobs
    <2>1. SUFFICES ASSUME \A i \in 1 .. n : KeyFor(c, i) \in DOMAIN jobs PROVE FALSE
      OBVIOUS
    <2>2. f \in [1 .. n -> DOMAIN jobs]
      BY <2>1
    <2>3. PICK x, y \in 1 .. n : x # y /\ f[x] = f[y]
      <3> HIDE DEF f
      <3>1. QED
        BY <1>1, <2>2, FS_PigeonHole
    <2>4. KeyFor(c, x).copy = KeyFor(c, y).copy
      BY <2>3
    <2>5. QED
      BY <2>3, <2>4 DEF KeyFor
  <1>3. Unused(c) \in 1 .. n /\ KeyFor(c, Unused(c)) \notin DOMAIN jobs
    BY <1>2 DEF Unused, n
  <1>4. QED
    BY <1>1, <1>3

-----------------------------------------------------------------------------
(* What a step does to the tables. *)

Made(r) ==
    /\ ~Exists(r)
    /\ \E slot \in Slots, rec \in Recurrences : rows' = [rows EXCEPT ![r] = NewReminder(slot, rec)]
    /\ UNCHANGED fired

Replaced(r) ==
    /\ Exists(r)
    /\ \E row \in Reminder :
          /\ rows' = [rows EXCEPT ![r] = row]
          /\ row.job = NoJob /\ row.count = rows[r].count
          /\ \/ row.status = "cancelled" /\ row.rev = rows[r].rev
             \/ row.status = "active" /\ row.rev = rows[r].rev + 1
    /\ UNCHANGED fired

Linked(r) ==
    /\ Active(r)
    /\ \E k \in DOMAIN jobs :
          /\ k.rem = r /\ k.rev = rows[r].rev /\ k.slot = rows[r].next
          /\ rows' = [rows EXCEPT ![r].job = k]
    /\ UNCHANGED fired

Acked(o) == fired' = [fired EXCEPT ![o].acked = TRUE] /\ UNCHANGED rows

Told(p) ==
    /\ pc[p] = "notify"
    /\ fired' = [fired EXCEPT ![OccurrenceOf(held[p])].told = @ + 1]
    /\ pc' = [pc EXCEPT ![p] = "check2"]
    /\ UNCHANGED rows

Recorded(p) ==
    /\ pc[p] = "trigger"
    /\ Current(held[p].rem, held[p].rev, held[p].slot)
    /\ Record(p, held[p])

TablesMove ==
    \/ UNCHANGED <<rows, fired>>
    \/ \E r \in Ids : Made(r) \/ Replaced(r) \/ Linked(r)
    \/ \E o \in DOMAIN fired : Acked(o)
    \/ \E p \in Procs : Told(p) \/ Recorded(p)

JobsMove ==
    \/ UNCHANGED jobs
    \/ \E k \in DOMAIN jobs : \E row :
          /\ Put(k, row)
          /\ \/ Method(jobs[k], row)
             \/ J!Claimable(jobs[k]) /\ row = J!Claim(jobs[k])
             \/ /\ jobs[k].status = "queued" /\ k.slot <= now
                /\ row = [jobs[k] EXCEPT !.due = TRUE]
    \/ \E t \in Threads, k \in Key :
          /\ pc[t] \in {"enqueue", "repair"} /\ k \notin DOMAIN jobs
          /\ k = KeyFor(seen[t], k.copy)
          /\ Put(k, DeliveryJob(k))
    \/ /\ DOMAIN jobs' = DOMAIN jobs
       /\ \A k \in DOMAIN jobs : Method(jobs[k], jobs'[k])

LEMMA MindThread ==
    ASSUME RemInv, NEW t \in Threads
    PROVE  /\ Mind(rows, DOMAIN jobs, pc[t], seen[t], link[t])
           /\ pc[t] \in CopyPc => seen[t] \in Copy /\ Known(rows, seen[t].rem, seen[t].rev)
           /\ pc[t] \in InEnsure => seen[t].status = "active"
           /\ pc[t] \in LinkPc => link[t].job \in DOMAIN jobs /\ link[t].job \in Key
  <1>1. Mind(rows, DOMAIN jobs, pc[t], seen[t], link[t]) /\ DOMAIN jobs \subseteq Key
    BY DEF RemInv, ThreadsFit, TypeOK
  <1>2. QED
    BY <1>1 DEF Mind

LEMMA HeldIs ==
    ASSUME RemInv, NEW p \in Procs, held[p] # NoJob
    PROVE  /\ held[p] \in DOMAIN jobs /\ held[p] \in Key /\ held[p].slot <= now
           /\ held[p].rem \in Ids /\ held[p].rev \in Nat \ {0} /\ held[p].slot \in Int
           /\ Exists(held[p].rem) /\ held[p].rev <= rows[held[p].rem].rev
           /\ rows[held[p].rem] \in Reminder
           /\ OccurrenceOf(held[p]) \in Occurrence
           /\ OccurrenceOf(held[p]).rem = held[p].rem /\ OccurrenceOf(held[p]).rev = held[p].rev
           /\ OccurrenceOf(held[p]).slot = held[p].slot
  <1>1. held[p] \in DOMAIN jobs /\ held[p] \in Key /\ held[p].slot <= now
    BY DEF RemInv, ThreadsFit, ProcFit, TypeOK
  <1>2. held[p].rem \in Ids /\ held[p].rev \in Nat \ {0} /\ held[p].slot \in Int
    BY <1>1 DEF Key
  <1>3. Exists(held[p].rem) /\ held[p].rev <= rows[held[p].rem].rev
    BY <1>1 DEF RemInv, RefsFit, Known, Exists
  <1>4. TypeOK
    BY DEF RemInv
  <1>5. QED
    BY <1>1, <1>2, <1>3, <1>4, RowIs DEF OccurrenceOf, Occurrence

LEMMA ReplaceIs ==
    ASSUME RemInv, NEW t \in Callers, NEW r \in Ids, CancelReminder(t, r) \/ Reschedule(t, r)
    PROVE  /\ Replaced(r)
           /\ \E row \in Reminder :
                /\ Replace(t, r, row) /\ row.rev >= rows[r].rev
                /\ row.status = "cancelled" \/ (row.status = "active" /\ row.rev = rows[r].rev + 1)
  <1>1. Exists(r) /\ rows[r] \in Reminder /\ rows[r].rev \in Nat /\ rows \in [Ids -> Reminder \cup {Absent}]
    <2>1. TypeOK /\ Exists(r)
      BY DEF CancelReminder, Reschedule, Exists, RemInv
    <2>2. QED
      BY <2>1, RowIs DEF TypeOK
  <1>2. CASE CancelReminder(t, r)
    <2> DEFINE row == [rows[r] EXCEPT !.status = "cancelled", !.next = NoTime, !.job = NoJob]
    <2>1. Replace(t, r, row) /\ UNCHANGED fired
      BY <1>2 DEF CancelReminder
    <2>2. row \in Reminder /\ row.status = "cancelled" /\ row.rev = rows[r].rev
          /\ row.job = NoJob /\ row.count = rows[r].count
      BY <1>1, CancelledIs
    <2> HIDE DEF row
    <2>3. rows' = [rows EXCEPT ![r] = row]
      BY <2>1 DEF Replace
    <2>4. row.rev >= rows[r].rev
      BY <1>1, <2>2
    <2>5. Replaced(r)
      BY <1>1, <2>1, <2>2, <2>3 DEF Replaced
    <2>6. QED
      BY <2>1, <2>2, <2>4, <2>5
  <1>3. CASE Reschedule(t, r)
    <2>1. PICK slot \in Slots, rec \in Recurrences :
            Replace(t, r, [rows[r] EXCEPT !.status = "active", !.rev = @ + 1, !.rec = rec,
                                          !.next = slot, !.job = NoJob])
      BY <1>3 DEF Reschedule
    <2> DEFINE row == [rows[r] EXCEPT !.status = "active", !.rev = @ + 1, !.rec = rec,
                                      !.next = slot, !.job = NoJob]
    <2>2. row \in Reminder /\ row.status = "active" /\ row.rev = rows[r].rev + 1
          /\ row.job = NoJob /\ row.count = rows[r].count
      <3>1. slot \in Int /\ rows[r].rev + 1 \in Nat \ {0} /\ rec \in Recurrences
        BY <1>1, RemindersAssumption
      <3>2. QED
        BY <1>1, <3>1 DEF Reminder
    <2>3. Replace(t, r, row) /\ UNCHANGED fired
      BY <1>3, <2>1 DEF Reschedule
    <2> HIDE DEF row
    <2>4. rows' = [rows EXCEPT ![r] = row]
      BY <2>3 DEF Replace
    <2>5. row.rev >= rows[r].rev
      BY <1>1, <2>2
    <2>6. Replaced(r)
      BY <1>1, <2>2, <2>3, <2>4 DEF Replaced
    <2>7. QED
      BY <2>2, <2>3, <2>5, <2>6
  <1>4. QED
    BY <1>2, <1>3

LEMMA LinkIs ==
    ASSUME RemInv, NEW t \in Threads, Link(t)
    PROVE  \/ UNCHANGED <<rows, fired>>
           \/ Linked(seen[t].rem) /\ seen[t].rem \in Ids
  <1>1. pc[t] = "link" /\ UNCHANGED fired
    BY DEF Link
  <1>2. /\ seen[t] \in Copy /\ link[t].job \in DOMAIN jobs /\ link[t].job \in Key
        /\ link[t].job = KeyFor(seen[t], link[t].job.copy)
    BY <1>1, MindThread DEF CopyPc, LinkPc, Mind
  <1>3. /\ seen[t].rem \in Ids /\ link[t].job.rem = seen[t].rem
        /\ link[t].job.rev = seen[t].rev /\ link[t].job.slot = seen[t].next
    BY <1>2 DEF KeyFor, Copy
  <1>4. CASE /\ Current(seen[t].rem, seen[t].rev, seen[t].next)
             /\ rows' = [rows EXCEPT ![seen[t].rem].job = link[t].job]
    BY <1>1, <1>2, <1>3, <1>4 DEF Linked, Current, Active
  <1>5. QED
    BY <1>1, <1>4 DEF Link

LEMMA TablesStep ==
    ASSUME RemInv, Next PROVE TablesMove
  <1> USE DEF Made, TablesMove
  <1>1. ASSUME NEW t \in Callers, CallerCalls(t) PROVE TablesMove
    <2>1. ASSUME NEW r \in Ids, Create(t, r) PROVE Made(r)
      BY <2>1 DEF Create
    <2>2. ASSUME NEW r \in Ids, CancelReminder(t, r) \/ Reschedule(t, r) PROVE Replaced(r)
      BY <2>2, ReplaceIs
    <2>3. ASSUME NEW r \in Ids, CreateAgain(t, r) PROVE UNCHANGED <<rows, fired>>
      BY <2>3 DEF CreateAgain, tables
    <2>4. ASSUME NEW o \in DOMAIN fired, Acknowledge(t, o) PROVE Acked(o)
      BY <2>4 DEF Acknowledge, Acked
    <2>5. ASSUME NEW k \in DOMAIN jobs, CancelJob(t, k) PROVE UNCHANGED <<rows, fired>>
      BY <2>5 DEF CancelJob
    <2>6. QED
      BY <1>1, <2>1, <2>2, <2>3, <2>4, <2>5 DEF CallerCalls
  <1>2. ASSUME NEW t \in Threads, EnsureStep(t) \/ EnqueueRefused(t) \/ CallFault(t) PROVE TablesMove
    <2>1. CASE Link(t)
      BY <2>1, LinkIs
    <2>2. CASE Enqueue(t) \/ Repair(t) \/ Undo(t) \/ EnqueueRefused(t) \/ CallFault(t)
      BY <2>2 DEF Enqueue, Repair, Undo, EnqueueRefused, CallFault, Raise, tables
    <2>3. QED
      BY <1>2, <2>1, <2>2 DEF EnsureStep
  <1>3. ASSUME NEW p \in Procs, WorkerStep(p) PROVE TablesMove
    <2>1. CASE Trigger(p)
      BY <2>1 DEF Trigger, Recorded, Skip
    <2>2. CASE Notify(p)
      BY <2>2 DEF Notify, Told, Goto, Move
    <2>3. CASE Claim(p) \/ Check(p) \/ Read(p) \/ Settle(p)
      BY <2>3 DEF Claim, Check, Read, Settle, tables
    <2>4. QED
      BY <1>3, <2>1, <2>2, <2>3 DEF WorkerStep
  <1>4. ASSUME NEW p \in Procs, Startup(p) \/ Close(p) \/ Exit(p) \/ Crash(p) \/ ClaimFault(p) \/ SettleFault(p)
        PROVE  UNCHANGED <<rows, fired>>
    BY <1>4 DEF Startup, Boot, List, Reconcile, Recover, Serve, Close, Exit, Crash, End, ClaimFault,
       SettleFault, tables
  <1>5. ASSUME NEW t \in Callers, CancelOld(t) PROVE UNCHANGED <<rows, fired>>
    BY <1>5 DEF CancelOld
  <1>6. ASSUME Tick \/ \E k \in DOMAIN jobs : BecomeDue(k) PROVE UNCHANGED <<rows, fired>>
    BY <1>6 DEF Tick, BecomeDue, tables
  <1>7. Callers \subseteq Threads /\ Procs \subseteq Threads
    BY DEF Threads
  <1>8. QED
    BY <1>1, <1>2, <1>3, <1>4, <1>5, <1>6, <1>7 DEF Next, CallerStep, ProcessStep

-----------------------------------------------------------------------------
(* The reminders and their occurrences. *)

\* The row of a reminder after its present slot was delivered.
Delivered(p, row) ==
    /\ row \in Reminder /\ row.rev = held[p].rev /\ row.job = NoJob
    /\ row.rec = rows[held[p].rem].rec
    /\ row.count = IF OccurrenceOf(held[p]) \notin DOMAIN fired
                   THEN rows[held[p].rem].count + 1 ELSE rows[held[p].rem].count
    /\ \/ row.status = "active" /\ after[p] # NoTime /\ row.next = after[p]
       \/ row.status = "completed" /\ row.next = NoTime

LEMMA RecordIs ==
    ASSUME RemInv, NEW p \in Procs, Recorded(p)
    PROVE  /\ held[p] # NoJob
           /\ Active(held[p].rem) /\ rows[held[p].rem].rev = held[p].rev
           /\ rows[held[p].rem].next = held[p].slot
           /\ DOMAIN fired' = DOMAIN fired \cup {OccurrenceOf(held[p])}
           /\ \A o \in DOMAIN fired : fired'[o] = fired[o]
           /\ OccurrenceOf(held[p]) \notin DOMAIN fired =>
                 fired'[OccurrenceOf(held[p])] = [told |-> 0, acked |-> FALSE]
           /\ \E row : /\ Delivered(p, row)
                       /\ rows' = [rows EXCEPT ![held[p].rem] = row]
                       /\ Move(p, IF OccurrenceOf(held[p]) \in DOMAIN fired THEN "check2" ELSE "notify",
                               CopyOf(held[p].rem, row), NoLink)
  <1>1. pc[p] = "trigger" /\ held[p] # NoJob
    BY DEF RemInv, ThreadsFit, ProcFit, Recorded, JobPc
  <1>2. Active(held[p].rem) /\ rows[held[p].rem].rev = held[p].rev
        /\ rows[held[p].rem].next = held[p].slot /\ rows[held[p].rem] \in Reminder
    BY <1>1, HeldIs DEF Recorded, Current, Active
  <1> DEFINE k == held[p]
             row == Advanced(rows[k.rem], after[p], OccurrenceOf(k) \notin DOMAIN fired)
  <1>3. Delivered(p, row)
    <2>1. after[p] \in Int
      BY DEF RemInv, TypeOK
    <2>2. (OccurrenceOf(k) \notin DOMAIN fired) \in BOOLEAN
      OBVIOUS
    <2> HIDE DEF k
    <2>3. /\ row \in Reminder /\ row.rev = rows[k.rem].rev /\ row.job = NoJob
          /\ row.rec = rows[k.rem].rec
          /\ row.count = IF OccurrenceOf(k) \notin DOMAIN fired
                         THEN rows[k.rem].count + 1 ELSE rows[k.rem].count
          /\ \/ row.status = rows[k.rem].status /\ after[p] # NoTime /\ row.next = after[p]
             \/ row.status = "completed" /\ row.next = NoTime
      BY <1>2, <2>1, <2>2, AdvancedIs DEF k
    <2> HIDE DEF row
    <2>4. QED
      BY <1>2, <2>3 DEF Delivered, Active, k
  <1>4. /\ rows' = [rows EXCEPT ![k.rem] = row]
        /\ Move(p, IF OccurrenceOf(k) \in DOMAIN fired THEN "check2" ELSE "notify",
                CopyOf(k.rem, row), NoLink)
        /\ fired' = [x \in DOMAIN fired \cup {OccurrenceOf(k)} |->
                      IF x \in DOMAIN fired THEN fired[x] ELSE [told |-> 0, acked |-> FALSE]]
    BY DEF Recorded, Record
  <1> HIDE DEF row
  <1>5. QED
    BY <1>1, <1>2, <1>3, <1>4

\* What a step leaves of a reminder: the row stays, its revision only grows.
RowKept(r) ==
    /\ rows'[r] \in Reminder \cup {Absent}
    /\ Exists(r) => rows'[r] \in Reminder /\ rows[r].rev <= rows'[r].rev

LEMMA RowsGo ==
    ASSUME RemInv, TablesMove
    PROVE  /\ rows' \in [Ids -> Reminder \cup {Absent}]
           /\ \A r \in Ids : RowKept(r)
  <1>1. rows \in [Ids -> Reminder \cup {Absent}]
        /\ \A r \in Ids : Exists(r) => rows[r] \in Reminder /\ rows[r].rev \in Nat
    <2>1. TypeOK
      BY DEF RemInv
    <2>2. QED
      BY <2>1, RowIs DEF TypeOK
  <1>2. ASSUME UNCHANGED rows PROVE \A r \in Ids : RowKept(r)
    BY <1>1, <1>2 DEF RowKept
  <1>3. ASSUME NEW r \in Ids, NEW row \in Reminder, rows' = [rows EXCEPT ![r] = row],
               Exists(r) => rows[r].rev <= row.rev
        PROVE  rows' \in [Ids -> Reminder \cup {Absent}] /\ \A x \in Ids : RowKept(x)
    BY <1>1, <1>3 DEF RowKept
  <1>4. ASSUME NEW r \in Ids, Made(r) PROVE \E row \in Reminder : rows' = [rows EXCEPT ![r] = row]
    BY <1>4, NewReminderIs DEF Made
  <1>5. ASSUME NEW r \in Ids, Replaced(r)
        PROVE  \E row \in Reminder : rows' = [rows EXCEPT ![r] = row] /\ rows[r].rev <= row.rev
    <2>1. PICK row \in Reminder :
            /\ rows' = [rows EXCEPT ![r] = row]
            /\ \/ row.rev = rows[r].rev
               \/ row.rev = rows[r].rev + 1
      BY <1>5 DEF Replaced
    <2>2. rows[r].rev \in Nat
      BY <1>1, <1>5 DEF Replaced
    <2>3. rows[r].rev <= row.rev
      BY <2>1, <2>2
    <2>4. QED
      BY <2>1, <2>3
  <1>6. ASSUME NEW r \in Ids, Linked(r)
        PROVE  \E row \in Reminder : rows' = [rows EXCEPT ![r] = row] /\ rows[r].rev <= row.rev
    <2>1. PICK k \in DOMAIN jobs : rows' = [rows EXCEPT ![r].job = k]
      BY <1>6 DEF Linked
    <2>2. k \in Key /\ rows[r] \in Reminder /\ rows[r].rev \in Nat
      BY <1>1, <1>6 DEF RemInv, TypeOK, Linked, Active, Exists
    <2> DEFINE row == [rows[r] EXCEPT !.job = k]
    <2>3. row \in Reminder /\ row.rev = rows[r].rev
      BY <2>2, LinkedIs
    <2>4. rows' = [rows EXCEPT ![r] = row]
      BY <2>1
    <2> HIDE DEF row
    <2>5. rows[r].rev <= row.rev
      BY <2>2, <2>3
    <2>6. QED
      BY <2>3, <2>4, <2>5
  <1>7. ASSUME NEW p \in Procs, Recorded(p)
        PROVE  \E row \in Reminder : /\ rows' = [rows EXCEPT ![held[p].rem] = row]
                                     /\ rows[held[p].rem].rev <= row.rev /\ held[p].rem \in Ids
    <2>1. held[p] # NoJob /\ rows[held[p].rem].rev = held[p].rev
      BY <1>7, RecordIs
    <2>2. PICK row : Delivered(p, row) /\ rows' = [rows EXCEPT ![held[p].rem] = row]
      BY <1>7, RecordIs
    <2>3. held[p].rem \in Ids /\ held[p].rev \in Nat
      BY <2>1, HeldIs
    <2>4. row \in Reminder /\ rows[held[p].rem].rev <= row.rev
      BY <2>1, <2>2, <2>3 DEF Delivered
    <2>5. QED
      BY <2>2, <2>3, <2>4
  <1>8. ASSUME \/ \E o \in DOMAIN fired : Acked(o)
               \/ \E p \in Procs : Told(p)
        PROVE  UNCHANGED rows
    BY <1>8 DEF Acked, Told
  <1>9. CASE \E r \in Ids : Made(r)
    BY <1>9, <1>3, <1>4 DEF Made
  <1>10. CASE \E r \in Ids : Replaced(r) \/ Linked(r)
    BY <1>10, <1>3, <1>5, <1>6
  <1>11. CASE \E p \in Procs : Recorded(p)
    BY <1>11, <1>3, <1>7
  <1>12. CASE UNCHANGED rows
    BY <1>12, <1>1, <1>2
  <1>13. QED
    BY <1>8, <1>9, <1>10, <1>11, <1>12 DEF TablesMove

LEMMA KnownKept ==
    ASSUME RemInv, \A r \in Ids : RowKept(r), NEW r \in Ids, NEW v \in Nat, Known(rows, r, v)
    PROVE  Known(rows', r, v)
  <1>1. Exists(r) /\ v <= rows[r].rev
    BY DEF Known, Exists
  <1>2. rows[r].rev \in Nat
    BY <1>1, RowIs DEF RemInv
  <1>3. rows'[r] \in Reminder /\ rows[r].rev <= rows'[r].rev
    BY <1>1 DEF RowKept
  <1>4. rows'[r].rev \in Nat /\ rows'[r].status # "absent"
    BY <1>3 DEF Reminder
  <1>5. QED
    BY <1>1, <1>2, <1>3, <1>4 DEF Known

LEMMA LinksGo ==
    ASSUME RemInv, TablesMove, DOMAIN jobs \subseteq DOMAIN jobs'
    PROVE  LinkedJobFits'
  <1> DEFINE Fits(table, r) ==
               table[r].status # "absent" /\ table[r].job # NoJob =>
                   /\ table[r].status = "active"
                   /\ table[r].job \in DOMAIN jobs
                   /\ table[r].job.rem = r
                   /\ table[r].job.rev = table[r].rev
                   /\ table[r].job.slot = table[r].next
  <1>1. \A r \in Ids : Fits(rows, r)
    BY DEF RemInv, LinkedJobFits, Exists, Active
  <1>2. SUFFICES \A r \in Ids : Fits(rows', r)
    BY DEF LinkedJobFits, Exists, Active
  <1>3. rows \in [Ids -> Reminder \cup {Absent}]
    BY DEF RemInv, TypeOK
  <1>4. ASSUME NEW r \in Ids, NEW row, row.job = NoJob, rows' = [rows EXCEPT ![r] = row]
        PROVE  \A x \in Ids : Fits(rows', x)
    BY <1>1, <1>3, <1>4
  <1>5. ASSUME NEW r \in Ids, Made(r) PROVE \E row : row.job = NoJob /\ rows' = [rows EXCEPT ![r] = row]
    BY <1>5, NewReminderIs DEF Made
  <1>6. ASSUME NEW r \in Ids, Linked(r) PROVE \A x \in Ids : Fits(rows', x)
    <2>1. PICK k \in DOMAIN jobs :
            /\ k.rem = r /\ k.rev = rows[r].rev /\ k.slot = rows[r].next
            /\ rows' = [rows EXCEPT ![r].job = k]
      BY <1>6 DEF Linked
    <2>2. k \in Key /\ rows[r] \in Reminder /\ rows[r].status = "active"
      BY <1>3, <1>6 DEF RemInv, TypeOK, Linked, Active, Absent
    <2> DEFINE row == [rows[r] EXCEPT !.job = k]
    <2>3. row.job = k /\ row.status = "active" /\ row.rev = rows[r].rev /\ row.next = rows[r].next
      BY <2>2, LinkedIs
    <2>4. rows' = [rows EXCEPT ![r] = row]
      BY <2>1
    <2> HIDE DEF row
    <2>5. \A x \in Ids \ {r} : Fits(rows', x)
      BY <1>1, <1>3, <2>4
    <2>6. rows'[r] = row
      BY <1>3, <2>4
    <2>7. Fits(rows', r)
      BY <2>1, <2>3, <2>6
    <2>8. QED
      BY <2>5, <2>7
  <1>7. ASSUME NEW p \in Procs, Recorded(p)
        PROVE  held[p].rem \in Ids /\ \E row : row.job = NoJob /\ rows' = [rows EXCEPT ![held[p].rem] = row]
    <2>1. PICK row : Delivered(p, row) /\ rows' = [rows EXCEPT ![held[p].rem] = row]
      BY <1>7, RecordIs
    <2>2. held[p].rem \in Ids
      BY <1>7, RecordIs, HeldIs
    <2>3. QED
      BY <2>1, <2>2 DEF Delivered
  <1>8. ASSUME NEW r \in Ids, Replaced(r) PROVE \E row : row.job = NoJob /\ rows' = [rows EXCEPT ![r] = row]
    BY <1>8 DEF Replaced
  <1>9. CASE UNCHANGED rows
    BY <1>1, <1>9
  <1> HIDE DEF Fits
  <1>10. CASE \E r \in Ids : Made(r) \/ Replaced(r)
    BY <1>10, <1>4, <1>5, <1>8
  <1>11. CASE \E p \in Procs : Recorded(p)
    BY <1>11, <1>4, <1>7
  <1>12. QED
    BY <1>6, <1>9, <1>10, <1>11 DEF TablesMove, Acked, Told

Notice == [told : Nat, acked : BOOLEAN]

\* The occurrences a reminder has in a set of them.
Of(set, r) == {o \in set : o.rem = r}

LEMMA FiredGo ==
    ASSUME RemInv, TablesMove
    PROVE  /\ DOMAIN fired' \subseteq Occurrence /\ IsFiniteSet(DOMAIN fired')
           /\ DOMAIN fired \subseteq DOMAIN fired'
           /\ \A o \in DOMAIN fired' : fired'[o] \in Notice /\ fired'[o].told <= 1
           /\ \A o \in DOMAIN fired' : Known(rows', o.rem, o.rev)
  <1>1. /\ DOMAIN fired \subseteq Occurrence /\ IsFiniteSet(DOMAIN fired)
        /\ \A o \in DOMAIN fired : fired[o] \in Notice /\ fired[o].told <= 1
        /\ \A o \in DOMAIN fired : Known(rows, o.rem, o.rev)
    BY DEF RemInv, TypeOK, FiredOnce, RefsFit, Notice
  <1>2. \A o \in DOMAIN fired : Known(rows', o.rem, o.rev)
    <2>1. \A r \in Ids : RowKept(r)
      BY RowsGo
    <2>2. QED
      BY <1>1, <2>1, KnownKept DEF Occurrence
  <1>3. CASE UNCHANGED fired
    BY <1>1, <1>2, <1>3
  <1>4. ASSUME NEW o \in DOMAIN fired, Acked(o)
        PROVE  /\ DOMAIN fired' = DOMAIN fired
               /\ \A x \in DOMAIN fired : fired'[x] \in Notice /\ fired'[x].told <= 1
    <2>1. DOMAIN fired' = DOMAIN fired /\ \A x \in DOMAIN fired \ {o} : fired'[x] = fired[x]
      BY <1>4 DEF Acked
    <2>2. fired'[o] = [fired[o] EXCEPT !.acked = TRUE]
      BY <1>4 DEF Acked
    <2>3. fired'[o] \in Notice /\ fired'[o].told = fired[o].told
      BY <1>1, <2>2 DEF Notice
    <2>4. QED
      BY <1>1, <2>1, <2>3
  <1>5. ASSUME NEW p \in Procs, Told(p)
        PROVE  /\ DOMAIN fired' = DOMAIN fired
               /\ \A x \in DOMAIN fired : fired'[x] \in Notice /\ fired'[x].told <= 1
    <2> DEFINE o == OccurrenceOf(held[p])
    <2>1. o \in DOMAIN fired /\ fired[o].told = 0
      BY <1>5 DEF RemInv, NotifierFits, Told
    <2> HIDE DEF o
    <2>2. DOMAIN fired' = DOMAIN fired /\ \A x \in DOMAIN fired \ {o} : fired'[x] = fired[x]
      BY <1>5 DEF Told, o
    <2>3. fired'[o] = [fired[o] EXCEPT !.told = @ + 1]
      BY <1>5, <2>1 DEF Told, o
    <2>4. fired'[o] = [fired[o] EXCEPT !.told = 1]
      BY <1>1, <2>1, <2>3 DEF Notice
    <2>5. fired'[o] \in Notice /\ fired'[o].told = 1
      BY <1>1, <2>1, <2>4 DEF Notice
    <2>6. QED
      BY <1>1, <2>2, <2>5
  <1>6. ASSUME NEW p \in Procs, Recorded(p)
        PROVE  /\ DOMAIN fired' \subseteq Occurrence /\ IsFiniteSet(DOMAIN fired')
               /\ DOMAIN fired \subseteq DOMAIN fired'
               /\ \A o \in DOMAIN fired' : fired'[o] \in Notice /\ fired'[o].told <= 1
               /\ \A o \in DOMAIN fired' : Known(rows', o.rem, o.rev)
    <2> DEFINE o == OccurrenceOf(held[p])
    <2>1. /\ held[p] # NoJob /\ DOMAIN fired' = DOMAIN fired \cup {o}
          /\ \A x \in DOMAIN fired : fired'[x] = fired[x]
          /\ o \notin DOMAIN fired => fired'[o] = [told |-> 0, acked |-> FALSE]
          /\ rows[held[p].rem].rev = held[p].rev
      BY <1>6, RecordIs
    <2>2. o \in Occurrence /\ o.rem \in Ids /\ Exists(o.rem) /\ o.rev = rows[o.rem].rev /\ o.rev \in Nat
      BY <2>1, HeldIs
    <2>3. Known(rows, o.rem, o.rev)
      BY <2>2 DEF Known, Exists
    <2>4. Known(rows', o.rem, o.rev)
      BY <2>2, <2>3, RowsGo, KnownKept
    <2> HIDE DEF o
    <2>5. IsFiniteSet(DOMAIN fired')
      BY <1>1, <2>1, FS_AddElement
    <2>6. [told |-> 0, acked |-> FALSE] \in Notice /\ [told |-> 0, acked |-> FALSE].told <= 1
      BY DEF Notice
    <2>7. QED
      BY <1>1, <1>2, <2>1, <2>2, <2>4, <2>5, <2>6
  <1>7. CASE \E r \in Ids : Made(r) \/ Replaced(r) \/ Linked(r)
    BY <1>3, <1>7 DEF Made, Replaced, Linked
  <1>8. CASE \E o \in DOMAIN fired : Acked(o)
    BY <1>1, <1>2, <1>4, <1>8
  <1>9. CASE \E p \in Procs : Told(p)
    BY <1>1, <1>2, <1>5, <1>9
  <1>10. CASE \E p \in Procs : Recorded(p)
    BY <1>6, <1>10
  <1>11. QED
    BY <1>3, <1>7, <1>8, <1>9, <1>10 DEF TablesMove

LEMMA CountsGo ==
    ASSUME RemInv, TablesMove, NEW r \in Ids, Exists(r)'
    PROVE  rows'[r].count = Cardinality(Of(DOMAIN fired', r))
  <1>1. /\ rows \in [Ids -> Reminder \cup {Absent}] /\ IsFiniteSet(DOMAIN fired)
        /\ Exists(r) => rows[r].count = Cardinality(Of(DOMAIN fired, r)) /\ rows[r] \in Reminder
        /\ \A o \in DOMAIN fired : Known(rows, o.rem, o.rev)
    <2>1. TypeOK
      BY DEF RemInv
    <2>2. QED
      BY <2>1, RowIs DEF RemInv, TypeOK, FiredOnce, RefsFit, Of
  <1>2. CASE UNCHANGED rows /\ DOMAIN fired' = DOMAIN fired
    BY <1>1, <1>2 DEF Exists
  <1>3. ASSUME NEW x \in Ids, Made(x) PROVE rows'[r].count = Cardinality(Of(DOMAIN fired', r))
    <2>1. PICK slot \in Slots, rec \in Recurrences : rows' = [rows EXCEPT ![x] = NewReminder(slot, rec)]
      BY <1>3 DEF Made
    <2>2. CASE x = r
      <3>1. rows'[r].count = 0
        BY <1>1, <2>1, <2>2, NewReminderIs
      <3>2. Of(DOMAIN fired, r) = {}
        BY <1>1, <1>3, <2>2 DEF Of, Known, Made, Exists
      <3>3. QED
        BY <1>3, <3>1, <3>2, FS_EmptySet DEF Made
    <2>3. CASE x # r
      BY <1>1, <1>3, <2>1, <2>3 DEF Made, Exists
    <2>4. QED
      BY <2>2, <2>3
  <1>4. ASSUME NEW x \in Ids, Replaced(x) \/ Linked(x)
        PROVE  rows'[r].count = Cardinality(Of(DOMAIN fired', r))
    <2>1. rows'[x].count = rows[x].count /\ Exists(x) /\ \A y \in Ids \ {x} : rows'[y] = rows[y]
      <3>1. CASE Replaced(x)
        BY <1>1, <3>1 DEF Replaced
      <3>2. CASE Linked(x)
        <4>1. PICK k \in DOMAIN jobs : rows' = [rows EXCEPT ![x].job = k]
          BY <3>2 DEF Linked
        <4>2. k \in Key /\ rows[x] \in Reminder /\ rows[x].status = "active"
          BY <1>1, <3>2 DEF RemInv, TypeOK, Linked, Active, Absent
        <4>3. [rows[x] EXCEPT !.job = k].count = rows[x].count
          BY <4>2, LinkedIs
        <4>4. QED
          BY <1>1, <4>1, <4>2, <4>3 DEF Exists
      <3>3. QED
        BY <1>4, <3>1, <3>2
    <2>2. UNCHANGED fired
      BY <1>4 DEF Replaced, Linked
    <2>3. QED
      BY <1>1, <2>1, <2>2 DEF Exists
  <1>5. ASSUME NEW p \in Procs, Recorded(p)
        PROVE  rows'[r].count = Cardinality(Of(DOMAIN fired', r))
    <2> DEFINE o == OccurrenceOf(held[p])
    <2>1. held[p] # NoJob /\ DOMAIN fired' = DOMAIN fired \cup {o}
      BY <1>5, RecordIs
    <2>2. PICK row : Delivered(p, row) /\ rows' = [rows EXCEPT ![held[p].rem] = row]
      BY <1>5, RecordIs
    <2>3. o.rem = held[p].rem /\ held[p].rem \in Ids /\ Exists(held[p].rem)
      BY <2>1, HeldIs
    <2>4. row.count = IF o \notin DOMAIN fired THEN rows[o.rem].count + 1 ELSE rows[o.rem].count
      BY <2>2, <2>3 DEF Delivered
    <2> HIDE DEF o
    <2>5. CASE o.rem # r
      <3>1. Of(DOMAIN fired', r) = Of(DOMAIN fired, r)
        BY <2>1, <2>5 DEF Of
      <3>2. rows'[r] = rows[r]
        BY <1>1, <2>2, <2>3, <2>5
      <3>3. QED
        BY <1>1, <3>1, <3>2 DEF Exists
    <2>6. CASE o.rem = r
      <3>1. rows'[r] = row /\ rows[r].count = Cardinality(Of(DOMAIN fired, r))
        BY <1>1, <2>2, <2>3, <2>6
      <3>2. CASE o \in DOMAIN fired
        <4>1. DOMAIN fired' = DOMAIN fired
          BY <2>1, <3>2
        <4>2. QED
          BY <2>4, <2>6, <3>1, <3>2, <4>1
      <3>3. CASE o \notin DOMAIN fired
        <4>1. Of(DOMAIN fired', r) = Of(DOMAIN fired, r) \cup {o} /\ o \notin Of(DOMAIN fired, r)
          BY <2>1, <2>6, <3>3 DEF Of
        <4>2. IsFiniteSet(Of(DOMAIN fired, r))
          <5>1. Of(DOMAIN fired, r) \in SUBSET (DOMAIN fired)
            BY DEF Of
          <5>2. QED
            BY <1>1, <5>1, FS_Subset
        <4>3. Cardinality(Of(DOMAIN fired', r)) = Cardinality(Of(DOMAIN fired, r)) + 1
          BY <4>1, <4>2, FS_AddElement
        <4>4. QED
          BY <2>4, <2>6, <3>1, <3>3, <4>3
      <3>4. QED
        BY <3>2, <3>3
    <2>7. QED
      BY <2>5, <2>6
  <1>6. CASE \/ \E o \in DOMAIN fired : Acked(o)
             \/ \E p \in Procs : Told(p)
    BY <1>2, <1>6 DEF Acked, Told
  <1>7. CASE UNCHANGED <<rows, fired>>
    BY <1>2, <1>7
  <1>8. QED
    BY <1>3, <1>4, <1>5, <1>6, <1>7 DEF TablesMove

LEMMA FiredStep ==
    ASSUME RemInv, TablesMove PROVE FiredOnce'
  <1>1. \A r \in Ids : Exists(r)' => rows'[r].count = Cardinality(Of(DOMAIN fired', r))
    BY CountsGo
  <1>2. \A o \in DOMAIN fired' : fired'[o].told <= 1
    BY FiredGo
  <1>3. QED
    BY <1>1, <1>2 DEF FiredOnce, Of

-----------------------------------------------------------------------------
(* The jobs table. *)

LEMMA WorkerJob ==
    ASSUME RemInv, NEW p \in Procs, pc[p] \in JobPc
    PROVE  held[p] \in DOMAIN jobs /\ held[p] \in Key /\ held[p] # NoJob
  <1>1. held[p] # NoJob
    BY DEF RemInv, ThreadsFit, ProcFit
  <1>2. QED
    BY <1>1, HeldIs

LEMMA JobsStep ==
    ASSUME RemInv, Next PROVE JobsMove
  <1>1. ASSUME NEW t \in Callers, CallerCalls(t) PROVE JobsMove
    <2>1. ASSUME NEW k \in DOMAIN jobs, CancelJob(t, k) PROVE JobsMove
      BY <2>1 DEF CancelJob, JobsMove, Method
    <2>2. ASSUME NEW r \in Ids, Create(t, r) \/ CreateAgain(t, r) \/ CancelReminder(t, r) \/ Reschedule(t, r)
          PROVE UNCHANGED jobs
      BY <2>2 DEF Create, CreateAgain, CancelReminder, Reschedule, tables
    <2>3. ASSUME NEW o \in DOMAIN fired, Acknowledge(t, o) PROVE UNCHANGED jobs
      BY <2>3 DEF Acknowledge
    <2>4. QED
      BY <1>1, <2>1, <2>2, <2>3 DEF CallerCalls, JobsMove
  <1>2. ASSUME NEW t \in Threads, EnsureStep(t) \/ EnqueueRefused(t) \/ CallFault(t) PROVE JobsMove
    <2>1. CASE Undo(t)
      <3>1. link[t].job \in DOMAIN jobs
        BY <2>1, MindThread DEF Undo, LinkPc
      <3>2. QED
        BY <2>1, <3>1 DEF Undo, JobsMove, Method
    <2>2. CASE Link(t) \/ EnqueueRefused(t) \/ CallFault(t)
      BY <2>2 DEF Link, EnqueueRefused, CallFault, Raise, tables, JobsMove
    <2>3. ASSUME NEW n \in Nat, pc[t] \in {"enqueue", "repair"},
                 KeyFor(seen[t], n) \notin DOMAIN jobs, Make(t, KeyFor(seen[t], n))
          PROVE  JobsMove
      <3>1. seen[t] \in Copy
        BY <2>3, MindThread DEF CopyPc
      <3> DEFINE k == KeyFor(seen[t], n)
      <3>2. k \in Key /\ k.copy = n
        BY <3>1, KeyIs
      <3>3. k = KeyFor(seen[t], k.copy) /\ Put(k, DeliveryJob(k)) /\ k \notin DOMAIN jobs
        BY <2>3, <3>2 DEF Make
      <3> HIDE DEF k
      <3>4. QED
        BY <2>3, <3>2, <3>3 DEF JobsMove
    <2>4. CASE Enqueue(t)
      <3>1. pc[t] = "enqueue" /\ (UNCHANGED jobs \/
              (KeyFor(seen[t], 0) \notin DOMAIN jobs /\ Make(t, KeyFor(seen[t], 0))))
        BY <2>4 DEF Enqueue
      <3>2. QED
        BY <2>3, <3>1 DEF JobsMove
    <2>5. CASE Repair(t)
      <3>1. pc[t] = "repair" /\ Make(t, KeyFor(seen[t], Unused(seen[t])))
        BY <2>5 DEF Repair
      <3>2. seen[t] \in Copy /\ IsFiniteSet(DOMAIN jobs)
        BY <3>1, MindThread DEF CopyPc, RemInv
      <3>3. Unused(seen[t]) \in Nat /\ KeyFor(seen[t], Unused(seen[t])) \notin DOMAIN jobs
        BY <3>2, UnusedIs
      <3>4. QED
        BY <2>3, <3>1, <3>3
    <2>6. QED
      BY <1>2, <2>1, <2>2, <2>4, <2>5 DEF EnsureStep
  <1>3. ASSUME NEW p \in Procs, Claim(p) \/ ClaimFault(p) PROVE JobsMove
    BY <1>3 DEF Claim, ClaimFault, JobsMove
  <1>4. ASSUME NEW p \in Procs, Settle(p) PROVE JobsMove
    <2>1. held[p] \in DOMAIN jobs
      BY <1>4, WorkerJob DEF Settle, JobPc
    <2>2. Put(held[p], Settlement(p)) /\ pc[p] \in {"finish", "cancel", "fail"}
      BY <1>4 DEF Settle
    <2>3. Method(jobs[held[p]], Settlement(p))
      BY <2>2 DEF Settlement, Method
    <2>4. QED
      BY <2>1, <2>2, <2>3 DEF JobsMove
  <1>5. ASSUME NEW p \in Procs, Check(p) \/ Read(p) \/ Trigger(p) \/ Notify(p) PROVE UNCHANGED jobs
    BY <1>5 DEF Check, Read, Trigger, Notify, tables
  <1>6. ASSUME NEW p \in Procs, Recover(p) PROVE JobsMove
    BY <1>6 DEF Recover, JobsMove, Method
  <1>7. ASSUME NEW p \in Procs, \/ Boot(p) \/ List(p) \/ Reconcile(p) \/ Close(p) \/ Exit(p) \/ Crash(p)
                                \/ SettleFault(p)
        PROVE UNCHANGED jobs
    BY <1>7 DEF Boot, List, Reconcile, Close, Exit, Crash, End, SettleFault, tables
  <1>8. ASSUME NEW t \in Callers, CancelOld(t) PROVE JobsMove
    <2>1. link[t].job \in DOMAIN jobs
      BY <1>8, MindThread DEF CancelOld, LinkPc, Threads
    <2>2. QED
      BY <1>8, <2>1 DEF CancelOld, JobsMove, Method
  <1>9. CASE Tick
    BY <1>9 DEF Tick, tables, JobsMove
  <1>10. ASSUME NEW k \in DOMAIN jobs, BecomeDue(k) PROVE JobsMove
    BY <1>10 DEF BecomeDue, JobsMove
  <1>11. Callers \subseteq Threads /\ Procs \subseteq Threads
    BY DEF Threads
  <1>12. ASSUME NEW t \in Callers, CallerCalls(t) \/ CallerStep(t) PROVE JobsMove
    BY <1>1, <1>2, <1>8, <1>11, <1>12 DEF CallerStep
  <1>13. ASSUME NEW p \in Procs, ProcessStep(p) \/ Close(p) \/ Exit(p) \/ Crash(p) \/ ClaimFault(p) \/ SettleFault(p)
         PROVE JobsMove
    <2>1. UNCHANGED jobs => JobsMove
      BY DEF JobsMove
    <2>2. QED
      BY <1>2, <1>3, <1>4, <1>5, <1>6, <1>7, <1>11, <1>13, <2>1 DEF ProcessStep, Startup, WorkerStep
  <1>14. QED
    BY <1>2, <1>9, <1>10, <1>12, <1>13 DEF Next

LEMMA JobsGo ==
    ASSUME RemInv, JobsMove, \A r \in Ids : RowKept(r), now' \in Nat, now <= now'
    PROVE  /\ DOMAIN jobs \subseteq DOMAIN jobs' /\ DOMAIN jobs' \subseteq Key
           /\ IsFiniteSet(DOMAIN jobs')
           /\ \A k \in DOMAIN jobs' : /\ jobs'[k] \in J!Row /\ Timely(now', k, jobs'[k])
                                      /\ Known(rows', k.rem, k.rev)
  <1>1. /\ DOMAIN jobs \subseteq Key /\ IsFiniteSet(DOMAIN jobs) /\ now \in Nat
        /\ \A k \in DOMAIN jobs : /\ jobs[k] \in J!Row /\ Timely(now, k, jobs[k])
                                  /\ Known(rows, k.rem, k.rev)
    BY DEF RemInv, TypeOK, JobsFit, RefsFit
  <1>2. \A k \in Key : \A row : Timely(now, k, row) => Timely(now', k, row)
    <2>1. SUFFICES ASSUME NEW k \in Key, NEW row, Timely(now, k, row) PROVE Timely(now', k, row)
      OBVIOUS
    <2>2. k.slot \in Int
      BY DEF Key
    <2>3. k.slot <= now => k.slot <= now'
      BY <1>1, <2>2
    <2>4. QED
      BY <2>1, <2>3 DEF Timely
  <1>3. \A k \in DOMAIN jobs : /\ jobs[k] \in J!Row /\ Timely(now', k, jobs[k])
                              /\ Known(rows', k.rem, k.rev)
    <2>1. \A k \in Key : k.rem \in Ids /\ k.rev \in Nat
      BY DEF Key
    <2>2. QED
      BY <1>1, <1>2, <2>1, KnownKept
  <1>4. ASSUME NEW k \in DOMAIN jobs, NEW row, Method(jobs[k], row)
        PROVE  row \in J!Row /\ Timely(now', k, row)
    <2>1. jobs[k] \in J!Row
      BY <1>3
    <2>2. /\ row \in J!Row /\ row.max = jobs[k].max
          /\ row.status = "running" => jobs[k].status = "running" /\ row.due = jobs[k].due
          /\ row.due => jobs[k].due \/ jobs[k].status = "running"
      BY <1>4, <2>1, MethodIs
    <2>3. QED
      BY <1>3, <2>2 DEF Timely
  <1>5. ASSUME NEW k \in DOMAIN jobs, NEW row, Put(k, row), row \in J!Row, Timely(now', k, row)
        PROVE  /\ DOMAIN jobs' = DOMAIN jobs
               /\ \A x \in DOMAIN jobs : jobs'[x] \in J!Row /\ Timely(now', x, jobs'[x])
    BY <1>3, <1>5, PutIs
  <1>6. CASE UNCHANGED jobs
    BY <1>1, <1>3, <1>6
  <1>7. ASSUME NEW k \in DOMAIN jobs, NEW row, Put(k, row),
               \/ Method(jobs[k], row)
               \/ J!Claimable(jobs[k]) /\ row = J!Claim(jobs[k])
               \/ /\ jobs[k].status = "queued" /\ k.slot <= now
                  /\ row = [jobs[k] EXCEPT !.due = TRUE]
        PROVE  row \in J!Row /\ Timely(now', k, row)
    <2>1. jobs[k] \in J!Row /\ Timely(now', k, jobs[k]) /\ k \in Key
      BY <1>1, <1>3
    <2>2. CASE J!Claimable(jobs[k]) /\ row = J!Claim(jobs[k])
      BY <2>1, <2>2, ClaimIs DEF Timely
    <2>3. CASE jobs[k].status = "queued" /\ k.slot <= now /\ row = [jobs[k] EXCEPT !.due = TRUE]
      <3>1. row \in J!Row /\ row.max = jobs[k].max /\ row.status = "queued"
        BY <2>1, <2>3, DueIs
      <3>2. k.slot \in Int
        BY <2>1 DEF Key
      <3>3. k.slot <= now'
        BY <1>1, <2>3, <3>2
      <3>4. QED
        BY <2>1, <3>1, <3>3 DEF Timely
    <2>4. QED
      BY <1>4, <1>7, <2>2, <2>3
  <1>8. ASSUME NEW t \in Threads, NEW k \in Key, pc[t] \in {"enqueue", "repair"},
               k = KeyFor(seen[t], k.copy), Put(k, DeliveryJob(k))
        PROVE  /\ DOMAIN jobs' = DOMAIN jobs \cup {k} /\ \A x \in DOMAIN jobs \ {k} : jobs'[x] = jobs[x]
               /\ jobs'[k] \in J!Row /\ Timely(now', k, jobs'[k]) /\ Known(rows', k.rem, k.rev)
               /\ IsFiniteSet(DOMAIN jobs')
    <2>1. /\ DOMAIN jobs' = DOMAIN jobs \cup {k} /\ jobs'[k] = DeliveryJob(k)
          /\ \A x \in DOMAIN jobs \ {k} : jobs'[x] = jobs[x]
      BY <1>8, PutIs
    <2>2. jobs'[k] \in J!Row /\ Timely(now, k, jobs'[k])
      <3>1. DeliveryJob(k) \in J!Row /\ Timely(now, k, DeliveryJob(k))
        BY <1>1, DeliveryJobIs DEF Timely
      <3>2. QED
        BY <2>1, <3>1
    <2>3. seen[t] \in Copy /\ Known(rows, seen[t].rem, seen[t].rev)
      BY <1>8, MindThread DEF CopyPc
    <2>4. k.rem = seen[t].rem /\ k.rev = seen[t].rev /\ k.rem \in Ids /\ k.rev \in Nat
      BY <1>8 DEF KeyFor, Key
    <2>5. Known(rows', k.rem, k.rev)
      BY <2>3, <2>4, KnownKept
    <2>6. QED
      BY <1>1, <1>2, <2>1, <2>2, <2>5, FS_AddElement
  <1>9. CASE \E k \in DOMAIN jobs : \E row :
                /\ Put(k, row)
                /\ \/ Method(jobs[k], row)
                   \/ J!Claimable(jobs[k]) /\ row = J!Claim(jobs[k])
                   \/ /\ jobs[k].status = "queued" /\ k.slot <= now
                      /\ row = [jobs[k] EXCEPT !.due = TRUE]
    <2>1. PICK k \in DOMAIN jobs : \E row :
                /\ Put(k, row)
                /\ \/ Method(jobs[k], row)
                   \/ J!Claimable(jobs[k]) /\ row = J!Claim(jobs[k])
                   \/ /\ jobs[k].status = "queued" /\ k.slot <= now
                      /\ row = [jobs[k] EXCEPT !.due = TRUE]
      BY <1>9
    <2>2. PICK row : /\ Put(k, row)
                     /\ row \in J!Row /\ Timely(now', k, row)
      BY <1>7, <2>1
    <2>3. /\ DOMAIN jobs' = DOMAIN jobs
          /\ \A x \in DOMAIN jobs : jobs'[x] \in J!Row /\ Timely(now', x, jobs'[x])
      BY <1>5, <2>2
    <2>4. QED
      BY <1>1, <1>3, <2>3
  <1>10. CASE \E t \in Threads, k \in Key :
                /\ pc[t] \in {"enqueue", "repair"} /\ k \notin DOMAIN jobs
                /\ k = KeyFor(seen[t], k.copy)
                /\ Put(k, DeliveryJob(k))
    <2>1. PICK k \in Key :
            /\ DOMAIN jobs' = DOMAIN jobs \cup {k} /\ \A x \in DOMAIN jobs \ {k} : jobs'[x] = jobs[x]
            /\ jobs'[k] \in J!Row /\ Timely(now', k, jobs'[k]) /\ Known(rows', k.rem, k.rev)
            /\ IsFiniteSet(DOMAIN jobs')
      BY <1>8, <1>10
    <2>2. QED
      BY <1>1, <1>3, <2>1
  <1>11. CASE /\ DOMAIN jobs' = DOMAIN jobs
              /\ \A k \in DOMAIN jobs : Method(jobs[k], jobs'[k])
    BY <1>1, <1>3, <1>4, <1>11
  <1>12. QED
    BY <1>6, <1>9, <1>10, <1>11 DEF JobsMove

-----------------------------------------------------------------------------
(* The threads. *)

LinkType == [job : Key \cup {NoJob}, made : BOOLEAN]

\* The tables have grown, and the clock has not gone back.
Grown ==
    /\ \A r \in Ids : RowKept(r)
    /\ DOMAIN jobs \subseteq DOMAIN jobs' /\ DOMAIN jobs' \subseteq Key
    /\ now' \in Nat /\ now <= now'

\* One thread has moved, and knows what it has to.
Steps(t) ==
    /\ \E l, c, j : Move(t, l, c, j)
    /\ pc'[t] \in Pc /\ link'[t] \in LinkType
    /\ Mind(rows', DOMAIN jobs', pc'[t], seen'[t], link'[t])

LEMMA GrownNext ==
    ASSUME RemInv, Next PROVE Grown
  <1>1. \A r \in Ids : RowKept(r)
    BY TablesStep, RowsGo
  <1>2. now \in Nat
    BY DEF RemInv, TypeOK
  <1>3. now' = now \/ now' = now + 1
    BY ZenonT(30) DEF Next, CallerCalls, Create, CreateAgain, CancelReminder, Reschedule, Acknowledge, CancelJob,
       CallerStep, ProcessStep, EnsureStep, Enqueue, Repair, Link, Undo, CancelOld, EnqueueRefused,
       Raise, CallFault, Startup, Boot, List, Reconcile, Recover, Serve, WorkerStep, Claim, Check,
       Read, Trigger, Notify, Settle, Close, Exit, Crash, End, ClaimFault, SettleFault, Tick, BecomeDue
  <1>4. now' \in Nat /\ now <= now'
    BY <1>2, <1>3
  <1>5. QED
    BY <1>1, <1>4, JobsStep, JobsGo DEF Grown

LEMMA MindKept ==
    ASSUME RemInv, Grown, NEW l, NEW c, NEW j, Mind(rows, DOMAIN jobs, l, c, j)
    PROVE  Mind(rows', DOMAIN jobs', l, c, j)
  <1>1. c # NoCopy => c.rem \in Ids /\ c.rev \in Nat
    BY DEF Mind, Copy
  <1>2. c # NoCopy => Known(rows', c.rem, c.rev)
    BY <1>1, KnownKept DEF Mind, Grown
  <1>3. QED
    BY <1>2 DEF Mind, Grown

LEMMA ThreadIs ==
    ASSUME RemInv, NEW t \in Threads
    PROVE  /\ pc \in [Threads -> Pc] /\ seen \in [Threads -> Copy \cup {NoCopy}]
           /\ link \in [Threads -> LinkType]
           /\ t \in Callers => pc[t] \in CallerPc
           /\ t \in Procs <=> t \notin Callers
  BY RemindersAssumption DEF RemInv, TypeOK, LinkType, ThreadsFit, Threads

LEMMA MoveSteps ==
    ASSUME RemInv, NEW t \in Threads, NEW l \in Pc, NEW c, NEW j \in LinkType, Move(t, l, c, j),
           Mind(rows', DOMAIN jobs', l, c, j)
    PROVE  Steps(t) /\ pc'[t] = l /\ seen'[t] = c /\ link'[t] = j
  <1>1. pc'[t] = l /\ seen'[t] = c /\ link'[t] = j
    BY ThreadIs DEF Move
  <1>2. QED
    BY <1>1 DEF Steps

LEMMA StepsFrame ==
    ASSUME RemInv, NEW t \in Threads, Steps(t)
    PROVE  /\ \A u \in Threads \ {t} : pc'[u] = pc[u] /\ seen'[u] = seen[u] /\ link'[u] = link[u]
           /\ pc' \in [Threads -> Pc] /\ seen' \in [Threads -> Copy \cup {NoCopy}]
           /\ link' \in [Threads -> LinkType]
  <1>1. PICK l, c, j : Move(t, l, c, j)
    BY DEF Steps
  <1>2. pc'[t] = l /\ seen'[t] = c /\ link'[t] = j
    BY <1>1, ThreadIs DEF Move
  <1>3. l \in Pc /\ j \in LinkType /\ c \in Copy \cup {NoCopy}
    BY <1>2 DEF Steps, Mind
  <1>4. QED
    BY <1>1, <1>3, ThreadIs DEF Move

\* A label that asks for no copy and no link.
PlainPc == Pc \ (CopyPc \cup LinkPc \cup InEnsure)

LEMMA PlainSteps ==
    ASSUME RemInv, NEW t \in Threads, NEW l \in PlainPc, NEW c, NEW j,
           Move(t, l, c, j), j = NoLink, c = NoCopy \/ (c = seen[t] /\ Grown)
    PROVE  Steps(t) /\ pc'[t] = l /\ seen'[t] = c
  <1>1. NoLink \in LinkType /\ l \in Pc
    BY DEF NoLink, LinkType, PlainPc
  <1>2. Mind(rows', DOMAIN jobs', l, c, j)
    <2>1. CASE c = NoCopy
      BY <2>1 DEF Mind, PlainPc, LinkPc, InEnsure
    <2>2. CASE c = seen[t] /\ Grown
      <3>1. Mind(rows, DOMAIN jobs, l, c, j)
        BY <2>2, MindThread DEF Mind, PlainPc, LinkPc, InEnsure
      <3>2. QED
        BY <2>2, <3>1, MindKept
    <2>3. QED
      BY <2>1, <2>2
  <1>3. QED
    BY <1>1, <1>2, MoveSteps

LEMMA Returns ==
    ASSUME NEW t
    PROVE  /\ Return(t) \in PlainPc
           /\ t \notin Procs => Return(t) = "idle"
           /\ t \in Procs /\ held[t] # NoJob => Return(t) = "finish"
           /\ t \in Procs /\ held[t] = NoJob => Return(t) = "next"
  BY DEF Return, PlainPc, Pc, CopyPc, LinkPc, InEnsure

LEMMA DoneSteps ==
    ASSUME RemInv, NEW t \in Threads, Done(t)
    PROVE  Steps(t) /\ pc'[t] = Return(t)
  BY Returns, PlainSteps DEF Done

LEMMA EnsureSteps ==
    ASSUME RemInv, NEW t \in Threads, NEW c \in Copy, Known(rows', c.rem, c.rev), Ensure(t, c)
    PROVE  /\ Steps(t)
           /\ \/ pc'[t] = "enqueue" /\ seen'[t] = c /\ c.status = "active"
              \/ pc'[t] = Return(t) /\ c.status # "active"
  <1>1. CASE c.status = "active"
    <2>1. Move(t, "enqueue", c, NoLink)
      BY <1>1 DEF Ensure
    <2>2. Mind(rows', DOMAIN jobs', "enqueue", c, NoLink)
      BY <1>1, NoThings DEF Mind, LinkPc
    <2>3. NoLink \in LinkType /\ "enqueue" \in Pc
      BY DEF NoLink, LinkType, Pc
    <2>4. QED
      BY <1>1, <2>1, <2>2, <2>3, MoveSteps
  <1>2. CASE c.status # "active"
    BY <1>2, DoneSteps DEF Ensure
  <1>3. QED
    BY <1>1, <1>2

LEMMA EnsureStepIs ==
    ASSUME RemInv, Grown, NEW t \in Threads, EnsureStep(t)
    PROVE  /\ pc[t] \in InEnsure
           /\ Steps(t) /\ pc'[t] \in InEnsure \cup {Return(t)}
           /\ UNCHANGED <<now, phase, work, bounds>>
  <1>1. pc[t] \in InEnsure /\ UNCHANGED <<now, phase, work, bounds>>
    BY DEF EnsureStep, Enqueue, Repair, Link, Undo, InEnsure
  <1>2. /\ seen[t] \in Copy /\ seen[t].status = "active" /\ Mind(rows, DOMAIN jobs, pc[t], seen[t], link[t])
        /\ link[t] \in LinkType /\ InEnsure \subseteq Pc
    BY <1>1, MindThread, ThreadIs DEF InEnsure, CopyPc, Pc
  <1>3. Mind(rows', DOMAIN jobs', pc[t], seen[t], link[t])
    BY <1>2, MindKept
  <1>4. ASSUME NEW n \in Nat, Make(t, KeyFor(seen[t], n)) PROVE Steps(t) /\ pc'[t] = "link"
    <2> DEFINE k == KeyFor(seen[t], n)
    <2>1. Move(t, "link", seen[t], [job |-> k, made |-> TRUE]) /\ k \in DOMAIN jobs'
      BY <1>4, PutIs DEF Make
    <2>2. k \in Key /\ k.copy = n
      BY <1>2, KeyIs
    <2>3. k = KeyFor(seen[t], k.copy)
      BY <2>2
    <2> HIDE DEF k
    <2>6. Mind(rows', DOMAIN jobs', "link", seen[t], [job |-> k, made |-> TRUE])
      BY <1>2, <1>3, <2>1, <2>3, NoThings DEF Mind
    <2>4. [job |-> k, made |-> TRUE] \in LinkType /\ "link" \in Pc
      BY <2>2 DEF LinkType, Pc
    <2>5. QED
      BY <2>1, <2>6, <2>4, MoveSteps
  <1>5. CASE Enqueue(t)
    <2> DEFINE k == KeyFor(seen[t], 0)
    <2>1. CASE k \notin DOMAIN jobs /\ Make(t, k)
      <3>1. Steps(t) /\ pc'[t] = "link"
        BY <1>4, <2>1
      <3>2. QED
        BY <1>1, <3>1 DEF InEnsure
    <2>2. ASSUME k \in DOMAIN jobs, NEW l \in {"repair", "link"},
                 Move(t, l, seen[t], [job |-> k, made |-> FALSE])
          PROVE  Steps(t) /\ pc'[t] = l
      <3>1. k \in Key /\ k.copy = 0
        BY <1>2, KeyIs
      <3>5. k = KeyFor(seen[t], k.copy)
        BY <3>1
      <3> HIDE DEF k
      <3>2. Mind(rows', DOMAIN jobs', l, seen[t], [job |-> k, made |-> FALSE])
        BY <1>2, <1>3, <2>2, <3>5, NoThings DEF Mind, Grown, LinkPc
      <3>3. [job |-> k, made |-> FALSE] \in LinkType /\ l \in Pc
        BY <3>1 DEF LinkType, Pc
      <3>4. QED
        BY <2>2, <3>2, <3>3, MoveSteps
    <2>3. QED
      BY <1>1, <1>5, <2>1, <2>2 DEF Enqueue, InEnsure
  <1>6. CASE Repair(t)
    <2>1. Unused(seen[t]) \in Nat
      BY <1>2, UnusedIs DEF RemInv
    <2>2. QED
      BY <1>1, <1>4, <1>6, <2>1 DEF Repair, InEnsure
  <1>7. CASE Link(t)
    <2>1. CASE Done(t)
      BY <1>1, <2>1, DoneSteps
    <2>2. CASE Move(t, "undo", seen[t], link[t])
      <3>1. Mind(rows', DOMAIN jobs', "undo", seen[t], link[t])
        BY <1>1, <1>2, <1>3, <1>7 DEF Mind, Link, CopyPc, LinkPc, InEnsure
      <3>2. Steps(t) /\ pc'[t] = "undo"
        BY <1>2, <2>2, <3>1, MoveSteps DEF InEnsure
      <3>3. QED
        BY <1>1, <3>2 DEF InEnsure
    <2>3. QED
      BY <1>7, <2>1, <2>2 DEF Link
  <1>8. CASE Undo(t)
    BY <1>1, <1>8, DoneSteps DEF Undo
  <1>9. QED
    BY <1>5, <1>6, <1>7, <1>8 DEF EnsureStep

LEMMA RaiseIs ==
    ASSUME RemInv, NEW t \in Threads, EnqueueRefused(t) \/ CallFault(t)
    PROVE  /\ Steps(t) /\ pc'[t] = (IF t \in Callers THEN "idle" ELSE "fail")
           /\ t \in Procs => held[t] # NoJob
           /\ UNCHANGED <<tables, now, phase, work>>
  <1>1. Raise(t)
    BY DEF EnqueueRefused, CallFault
  <1>2. Move(t, IF t \in Callers THEN "idle" ELSE "fail", NoCopy, NoLink)
    BY <1>1 DEF Raise
  <1>3. "idle" \in PlainPc /\ "fail" \in PlainPc
    BY DEF PlainPc, Pc, CopyPc, LinkPc, InEnsure
  <1>4. Steps(t) /\ pc'[t] = (IF t \in Callers THEN "idle" ELSE "fail")
    BY <1>2, <1>3, PlainSteps
  <1>5. QED
    BY <1>1, <1>4, ThreadIs DEF Raise

LEMMA CallerIs ==
    ASSUME RemInv, Grown, NEW t \in Callers, CallerCalls(t) \/ CallerStep(t) \/ CallFault(t)
    PROVE  /\ UNCHANGED thread \/ (Steps(t) /\ pc'[t] \in CallerPc)
           /\ UNCHANGED <<now, phase, work, lives>>
  <1>0. t \in Threads /\ t \notin Procs /\ Return(t) = "idle" /\ "enqueue" \in CallerPc /\ "idle" \in CallerPc
        /\ InEnsure \subseteq CallerPc
    BY RemindersAssumption, Returns DEF Threads, CallerPc, InEnsure
  <1>1. ASSUME NEW r \in Ids, Create(t, r) PROVE Steps(t) /\ pc'[t] \in CallerPc
    <2>1. PICK slot \in Slots, rec \in Recurrences :
            /\ rows' = [rows EXCEPT ![r] = NewReminder(slot, rec)]
            /\ Ensure(t, CopyOf(r, NewReminder(slot, rec)))
      BY <1>1 DEF Create
    <2> DEFINE row == NewReminder(slot, rec)
    <2>2. row \in Reminder /\ row.rev = 1
      BY NewReminderIs
    <2> HIDE DEF row
    <2>3. rows'[r] = row
      BY <2>1 DEF RemInv, TypeOK, row
    <2>4. /\ CopyOf(r, row) \in Copy /\ CopyOf(r, row).rem = r /\ CopyOf(r, row).rev = row.rev
          /\ row.status # "absent"
      BY <2>2, CopyIs DEF Reminder
    <2>5. Known(rows', CopyOf(r, row).rem, CopyOf(r, row).rev)
      BY <2>2, <2>3, <2>4 DEF Known
    <2>6. QED
      BY <1>0, <2>1, <2>4, <2>5, EnsureSteps DEF row
  <1>2. ASSUME NEW r \in Ids, CreateAgain(t, r) PROVE Steps(t) /\ pc'[t] \in CallerPc
    <2>1. Exists(r) /\ Ensure(t, CopyOf(r, rows[r])) /\ rows' = rows
      BY <1>2 DEF CreateAgain, tables
    <2>2. rows[r] \in Reminder
      BY <2>1, RowIs DEF RemInv
    <2>3. /\ CopyOf(r, rows[r]) \in Copy /\ CopyOf(r, rows[r]).rem = r
          /\ CopyOf(r, rows[r]).rev = rows[r].rev /\ rows[r].rev \in Nat
      BY <2>2, CopyIs DEF Reminder
    <2>4. Known(rows', CopyOf(r, rows[r]).rem, CopyOf(r, rows[r]).rev)
      BY <2>1, <2>3 DEF Known, Exists
    <2>5. QED
      BY <1>0, <2>1, <2>3, <2>4, EnsureSteps
  <1>3. ASSUME NEW r \in Ids, CancelReminder(t, r) \/ Reschedule(t, r)
        PROVE  Steps(t) /\ pc'[t] \in CallerPc
    <2>1. PICK row \in Reminder : Replace(t, r, row)
      BY <1>3, ReplaceIs
    <2>2. rows'[r] = row
      BY <2>1 DEF Replace, RemInv, TypeOK
    <2>3. /\ CopyOf(r, row) \in Copy /\ CopyOf(r, row) # NoCopy /\ CopyOf(r, row).rem = r
          /\ CopyOf(r, row).rev = row.rev /\ row.status # "absent" /\ row.rev \in Nat
      BY CopyIs DEF Reminder
    <2>4. Known(rows', CopyOf(r, row).rem, CopyOf(r, row).rev)
      BY <2>2, <2>3 DEF Known
    <2>5. CASE rows[r].job = NoJob
      BY <1>0, <2>1, <2>3, <2>4, <2>5, EnsureSteps DEF Replace
    <2>6. CASE rows[r].job # NoJob
      <3>1. Move(t, "cancelOld", CopyOf(r, row), [job |-> rows[r].job, made |-> FALSE])
        BY <2>1, <2>6 DEF Replace
      <3>2. rows[r].job \in DOMAIN jobs /\ rows[r].job \in Key
        <4>1. Exists(r)
          BY <1>3 DEF CancelReminder, Reschedule, Exists
        <4>2. QED
          BY <2>6, <4>1 DEF RemInv, LinkedJobFits, TypeOK
      <3>3. Mind(rows', DOMAIN jobs', "cancelOld", CopyOf(r, row), [job |-> rows[r].job, made |-> FALSE])
        BY <2>3, <2>4, <3>2 DEF Mind, InEnsure, Grown
      <3>4. [job |-> rows[r].job, made |-> FALSE] \in LinkType /\ "cancelOld" \in Pc /\ "cancelOld" \in CallerPc
        BY <3>2 DEF LinkType, Pc, CallerPc
      <3>5. QED
        BY <1>0, <3>1, <3>3, <3>4, MoveSteps
    <2>7. QED
      BY <2>5, <2>6
  <1>4. ASSUME \/ \E o \in DOMAIN fired : Acknowledge(t, o)
               \/ \E k \in DOMAIN jobs : CancelJob(t, k)
        PROVE UNCHANGED thread
    BY <1>4 DEF Acknowledge, CancelJob
  <1>5. CASE CallerCalls(t)
    <2>1. UNCHANGED <<now, phase, work, lives>>
      BY <1>5 DEF CallerCalls, Create, CreateAgain, CancelReminder, Reschedule, Acknowledge, CancelJob, bounds
    <2>2. QED
      BY <1>1, <1>2, <1>3, <1>4, <1>5, <2>1 DEF CallerCalls
  <1>6. CASE CancelOld(t)
    <2>1. Ensure(t, seen[t]) /\ pc[t] = "cancelOld" /\ rows' = rows /\ UNCHANGED <<now, phase, work, bounds>>
      BY <1>6 DEF CancelOld
    <2>2. seen[t] \in Copy /\ Known(rows, seen[t].rem, seen[t].rev)
      BY <1>0, <2>1, MindThread DEF CopyPc
    <2>3. Known(rows', seen[t].rem, seen[t].rev)
      BY <2>1, <2>2
    <2>4. Steps(t) /\ pc'[t] \in CallerPc
      BY <1>0, <2>1, <2>2, <2>3, EnsureSteps
    <2>5. QED
      BY <2>1, <2>4 DEF bounds
  <1>7. CASE EnsureStep(t)
    BY <1>0, <1>7, EnsureStepIs DEF bounds
  <1>8. CASE EnqueueRefused(t) \/ CallFault(t)
    <2>1. Steps(t) /\ pc'[t] \in CallerPc /\ UNCHANGED <<now, phase, work>>
      BY <1>0, <1>8, RaiseIs
    <2>2. UNCHANGED lives
      BY <1>8 DEF EnqueueRefused, CallFault, Fault, bounds
    <2>3. QED
      BY <2>1, <2>2
  <1>9. QED
    BY <1>5, <1>6, <1>7, <1>8 DEF CallerStep


-----------------------------------------------------------------------------
(* The processes. *)

\* A process has made a step: what it works on fits, and the others go on.
Worked(p) ==
    /\ Steps(p) /\ ProcFit(p)'
    /\ phase' \in [Procs -> {"down", "starting", "running", "closing"}]
    /\ after' \in [Procs -> Int] /\ todo' \in [Procs -> SUBSET Copy]
    /\ held' \in [Procs -> Key \cup {NoJob}]
    /\ \A q \in Procs \ {p} : /\ phase'[q] = phase[q] /\ after'[q] = after[q]
                              /\ todo'[q] = todo[q] /\ held'[q] = held[q]
    /\ pc'[p] = "notify" =>
          /\ Recorded(p) /\ OccurrenceOf(held[p]) \notin DOMAIN fired
          /\ held'[p] = held[p]
    /\ pc'[p] = "trigger" =>
          after'[p] = NoTime \/ (Forward => after'[p] > held'[p].slot)

LEMMA ProcIs ==
    ASSUME RemInv, NEW p \in Procs
    PROVE  /\ p \in Threads /\ p \notin Callers
           /\ phase \in [Procs -> {"down", "starting", "running", "closing"}]
           /\ after \in [Procs -> Int] /\ todo \in [Procs -> SUBSET Copy]
           /\ held \in [Procs -> Key \cup {NoJob}]
           /\ pc[p] \in FreePc => held[p] = NoJob
           /\ pc[p] \in JobPc => held[p] # NoJob
           /\ phase[p] = "down" => pc[p] = "down"
           /\ NoTime \in Int
  BY RemindersAssumption DEF RemInv, TypeOK, ThreadsFit, ProcFit, Threads, NoTime

\* What a process works on stays right as the tables grow.
LEMMA ProcFits ==
    ASSUME RemInv, Grown, NEW p \in Procs,
           pc'[p] \in FreePc \cup JobPc \cup InEnsure,
           pc'[p] \in FreePc => held'[p] = NoJob,
           pc'[p] \in JobPc => held'[p] # NoJob,
           \/ held'[p] \in {NoJob, held[p]}
           \/ held'[p] \in DOMAIN jobs /\ held'[p].slot <= now,
           phase'[p] = "down" => pc'[p] = "down",
           \A c \in todo'[p] : /\ c \in Copy /\ c.status = "active"
                               /\ c \in todo[p] \/ Known(rows, c.rem, c.rev)
    PROVE  ProcFit(p)'
  <1>1. held'[p] # NoJob => held'[p] \in DOMAIN jobs' /\ held'[p].slot <= now'
    <2>1. held'[p] # NoJob => held'[p] \in DOMAIN jobs /\ held'[p].slot <= now /\ held'[p] \in Key
      BY DEF RemInv, ThreadsFit, ProcFit, TypeOK
    <2>2. held'[p] # NoJob => held'[p].slot \in Int
      BY <2>1 DEF Key
    <2>3. now \in Nat /\ now' \in Nat /\ now <= now' /\ DOMAIN jobs \subseteq DOMAIN jobs'
      BY DEF RemInv, TypeOK, Grown
    <2>4. held'[p] # NoJob => held'[p].slot <= now'
      BY <2>1, <2>2, <2>3
    <2>5. QED
      BY <2>1, <2>3, <2>4
  <1>2. \A c \in todo'[p] : Known(rows', c.rem, c.rev) /\ c.status = "active"
    <2>1. \A c \in todo[p] : Known(rows, c.rem, c.rev)
      BY DEF RemInv, ThreadsFit, ProcFit
    <2>2. SUFFICES ASSUME NEW c \in todo'[p] PROVE Known(rows', c.rem, c.rev)
      OBVIOUS
    <2>3. c.rem \in Ids /\ c.rev \in Nat /\ Known(rows, c.rem, c.rev)
      BY <2>1 DEF Copy
    <2>4. QED
      BY <2>3, KnownKept DEF Grown
  <1>3. QED
    BY <1>1, <1>2 DEF ProcFit

\* A step of a process that does not touch what it holds.
LEMMA Working ==
    ASSUME RemInv, Grown, NEW p \in Procs, Steps(p), UNCHANGED <<phase, todo, held>>,
           pc[p] # "down",
           after' \in [Procs -> Int], \A q \in Procs \ {p} : after'[q] = after[q],
           pc'[p] \in FreePc \cup JobPc \cup InEnsure,
           pc'[p] \in FreePc => held[p] = NoJob,
           pc'[p] \in JobPc => held[p] # NoJob,
           pc'[p] = "notify" => Recorded(p) /\ OccurrenceOf(held[p]) \notin DOMAIN fired,
           pc'[p] = "trigger" => after'[p] = NoTime \/ (Forward => after'[p] > held[p].slot)
    PROVE  Worked(p)
  <1>1. \A c \in todo[p] : c \in Copy /\ c.status = "active"
    BY ProcIs DEF RemInv, ThreadsFit, ProcFit
  <1>2. ProcFit(p)'
    BY <1>1, ProcIs, ProcFits
  <1>3. QED
    BY <1>2, ProcIs DEF Worked

LEMMA ReturnsTo ==
    ASSUME RemInv, NEW p \in Procs
    PROVE  /\ Return(p) \in FreePc \cup JobPc
           /\ Return(p) \in FreePc => held[p] = NoJob
           /\ Return(p) \in JobPc => held[p] # NoJob
           /\ Return(p) \notin {"notify", "trigger"}
  BY Returns DEF FreePc, JobPc

LEMMA EnsureWorks ==
    ASSUME RemInv, Grown, NEW p \in Procs, EnsureStep(p) PROVE Worked(p)
  <1>1. /\ pc[p] \in InEnsure /\ Steps(p) /\ pc'[p] \in InEnsure \cup {Return(p)}
        /\ UNCHANGED <<now, phase, work, bounds>>
    BY ProcIs, EnsureStepIs
  <1>2. UNCHANGED <<phase, todo, held, after>> /\ pc[p] # "down"
    BY <1>1 DEF work, InEnsure
  <1>3. pc'[p] \in InEnsure => pc'[p] \notin FreePc \cup JobPc /\ pc'[p] \notin {"notify", "trigger"}
    BY DEF InEnsure, FreePc, JobPc
  <1>4. QED
    BY <1>1, <1>2, <1>3, ReturnsTo, ProcIs, Working

LEMMA FaultWorks ==
    ASSUME RemInv, Grown, NEW p \in Procs, EnqueueRefused(p) \/ CallFault(p) PROVE Worked(p)
  <1>1. /\ Steps(p) /\ pc'[p] = "fail" /\ held[p] # NoJob /\ UNCHANGED <<tables, now, phase, work>>
    BY ProcIs, RaiseIs
  <1>2. UNCHANGED <<phase, todo, held, after>> /\ pc[p] # "down"
    <2>1. pc[p] # "down"
      BY <1>1, ProcIs DEF FreePc
    <2>2. QED
      BY <1>1, <2>1 DEF work
  <1>3. "fail" \in JobPc /\ "fail" \notin FreePc
    BY DEF JobPc, FreePc
  <1>4. QED
    BY <1>1, <1>2, <1>3, ProcIs, Working

LEMMA CheckWorks ==
    ASSUME RemInv, Grown, NEW p \in Procs, Check(p) PROVE Worked(p)
  <1>1. pc[p] \in {"check", "check2"} /\ UNCHANGED <<tables, now, phase, work, bounds>>
    BY DEF Check
  <1>2. UNCHANGED <<rows, phase, todo, held, after>> /\ pc[p] # "down" /\ held[p] # NoJob
    BY <1>1, ProcIs DEF work, tables, JobPc
  <1>3. {"cancel", "read"} \subseteq PlainPc /\ {"cancel", "read"} \subseteq JobPc
        /\ {"cancel", "read", "enqueue"} \cap (FreePc \cup {"notify", "trigger"}) = {}
        /\ "enqueue" \in InEnsure /\ "enqueue" \notin JobPc
    BY DEF PlainPc, Pc, CopyPc, LinkPc, InEnsure, JobPc, FreePc
  <1>4. Steps(p) /\ pc'[p] \in {"cancel", "read", "enqueue", Return(p)}
    <2>1. CASE Move(p, "cancel", NoCopy, NoLink)
      BY <1>3, <2>1, ProcIs, PlainSteps
    <2>2. CASE Goto(p, "read")
      BY <1>3, <2>2, ProcIs, PlainSteps DEF Goto
    <2>3. CASE pc[p] = "check2" /\ Ensure(p, seen[p])
      <3>1. seen[p] \in Copy /\ Known(rows', seen[p].rem, seen[p].rev)
        BY <1>2, <2>3, ProcIs, MindThread DEF CopyPc
      <3>2. QED
        BY <2>3, <3>1, ProcIs, EnsureSteps
    <2>4. QED
      BY <1>1, <2>1, <2>2, <2>3 DEF Check
  <1>5. QED
    BY <1>2, <1>3, <1>4, ReturnsTo, ProcIs, Working

LEMMA ReadWorks ==
    ASSUME RemInv, Grown, NEW p \in Procs, Read(p) PROVE Worked(p)
  <1> DEFINE k == held[p]
             c == CopyOf(k.rem, rows[k.rem])
  <1>1. /\ pc[p] = "read" /\ UNCHANGED <<rows, now, phase, todo, held>>
        /\ pc[p] # "down" /\ held[p] # NoJob
    BY ProcIs DEF Read, tables, JobPc
  <1>2. /\ k \in Key /\ k.slot \in Int /\ k.rem \in Ids /\ rows[k.rem] \in Reminder
    BY <1>1, HeldIs
  <1>3. /\ c \in Copy /\ c # NoCopy /\ c.rem = k.rem /\ c.rev = rows[k.rem].rev
        /\ c.rec \in Recurrences
    BY <1>2, CopyIs DEF Reminder
  <1>4. Known(rows', c.rem, c.rev)
    BY <1>1, <1>2, <1>3 DEF Known, Reminder
  <1>5. now \in Int /\ NoTime \in Int /\ Recurrences \subseteq Rule
    BY ProcIs, RemindersAssumption DEF RemInv, TypeOK
  <1> DEFINE next == IF c.rec = Once THEN NoTime ELSE NextOccurrence(k.slot, c.rec, Local, now)
  <1>6. next \in Int /\ (next = NoTime \/ (Forward => next > k.slot))
    <2> HIDE DEF k, c
    <2>1. CASE c.rec = Once
      BY <1>5, <2>1
    <2>2. CASE c.rec # Once
      <3>1. /\ NextOccurrence(k.slot, c.rec, Local, now) \in Int
            /\ Forward => NextOccurrence(k.slot, c.rec, Local, now) > k.slot
        BY <1>2, <1>3, <1>5, <2>2, NextLater
      <3>2. QED
        BY <2>2, <3>1
    <2>3. QED
      BY <2>1, <2>2
  <1>7. \/ after' = [after EXCEPT ![p] = next] /\ Move(p, "trigger", c, NoLink)
        \/ Ensure(p, c) /\ UNCHANGED after
    BY DEF Read
  <1> HIDE DEF c, next, k
  <1>8. \A q \in Procs \ {p} : after'[q] = after[q]
    BY <1>7, ProcIs
  <1>9. CASE after' = [after EXCEPT ![p] = next] /\ Move(p, "trigger", c, NoLink)
    <2>1. Mind(rows', DOMAIN jobs', "trigger", c, NoLink)
      BY <1>3, <1>4 DEF Mind, InEnsure, LinkPc
    <2>2. NoLink \in LinkType /\ "trigger" \in Pc
      BY DEF NoLink, LinkType, Pc
    <2>3. Steps(p) /\ pc'[p] = "trigger"
      BY <1>9, <2>1, <2>2, ProcIs, MoveSteps
    <2>4. after' \in [Procs -> Int] /\ after'[p] = next
      BY <1>6, <1>9, ProcIs
    <2>5. "trigger" \in JobPc /\ "trigger" \notin FreePc
      BY DEF JobPc, FreePc
    <2>6. QED
      BY <1>1, <1>6, <1>8, <2>3, <2>4, <2>5, Working DEF k
  <1>10. CASE Ensure(p, c) /\ UNCHANGED after
    <2>1. Steps(p) /\ pc'[p] \in {"enqueue", Return(p)}
      BY <1>3, <1>4, <1>10, ProcIs, EnsureSteps
    <2>2. "enqueue" \in InEnsure /\ "enqueue" \notin JobPc \cup FreePc
      BY DEF InEnsure, JobPc, FreePc
    <2>3. after' \in [Procs -> Int]
      BY <1>10, ProcIs
    <2>4. QED
      BY <1>1, <1>8, <2>1, <2>2, <2>3, ReturnsTo, Working
  <1>11. QED
    BY <1>7, <1>9, <1>10

LEMMA TriggerWorks ==
    ASSUME RemInv, Grown, NEW p \in Procs, Trigger(p) PROVE Worked(p)
  <1>1. /\ pc[p] = "trigger" /\ UNCHANGED <<now, phase, todo, held, after>>
        /\ pc[p] # "down" /\ held[p] # NoJob
    BY ProcIs DEF Trigger, work, JobPc
  <1>2. NoLink \in LinkType /\ {"check2", "notify"} \subseteq Pc
        /\ {"check2", "notify"} \cap (InEnsure \cup LinkPc \cup FreePc \cup {"trigger"}) = {}
        /\ {"check2", "notify"} \subseteq JobPc
    BY DEF NoLink, LinkType, Pc, InEnsure, LinkPc, JobPc, FreePc
  <1>3. held[p].rem \in Ids /\ Exists(held[p].rem) /\ rows[held[p].rem] \in Reminder
    BY <1>1, HeldIs
  <1>4. ASSUME NEW l \in {"check2", "notify"}, NEW row \in Reminder, rows'[held[p].rem] = row,
               Move(p, l, CopyOf(held[p].rem, row), NoLink)
        PROVE  Steps(p) /\ pc'[p] = l
    <2>1. /\ CopyOf(held[p].rem, row) \in Copy /\ CopyOf(held[p].rem, row) # NoCopy
          /\ CopyOf(held[p].rem, row).rem = held[p].rem /\ CopyOf(held[p].rem, row).rev = row.rev
          /\ row.rev \in Nat /\ row.status # "absent"
      BY <1>3, CopyIs DEF Reminder
    <2>2. Known(rows', held[p].rem, row.rev)
      BY <1>4, <2>1 DEF Known
    <2>3. Mind(rows', DOMAIN jobs', l, CopyOf(held[p].rem, row), NoLink)
      BY <1>2, <2>1, <2>2 DEF Mind
    <2>4. QED
      BY <1>2, <1>4, <2>3, ProcIs, MoveSteps
  <1>5. Steps(p) /\ \/ pc'[p] = "check2"
                    \/ pc'[p] = "notify" /\ Recorded(p) /\ OccurrenceOf(held[p]) \notin DOMAIN fired
    <2>1. CASE Recorded(p)
      <3>1. PICK row : /\ Delivered(p, row)
                       /\ rows' = [rows EXCEPT ![held[p].rem] = row]
                       /\ Move(p, IF OccurrenceOf(held[p]) \in DOMAIN fired THEN "check2" ELSE "notify",
                               CopyOf(held[p].rem, row), NoLink)
        BY <2>1, RecordIs
      <3>2. row \in Reminder /\ rows'[held[p].rem] = row
        BY <1>3, <3>1 DEF Delivered, RemInv, TypeOK
      <3>3. CASE OccurrenceOf(held[p]) \in DOMAIN fired
        BY <1>4, <3>1, <3>2, <3>3
      <3>4. CASE OccurrenceOf(held[p]) \notin DOMAIN fired
        BY <1>4, <2>1, <3>1, <3>2, <3>4
      <3>5. QED
        BY <3>3, <3>4
    <2>2. CASE Skip(p, held[p])
      BY <1>3, <1>4, <2>2 DEF Skip
    <2>3. QED
      BY <1>1, <2>1, <2>2 DEF Trigger, Recorded
  <1>6. after' \in [Procs -> Int] /\ \A q \in Procs \ {p} : after'[q] = after[q]
    BY <1>1, ProcIs
  <1>7. QED
    BY <1>1, <1>2, <1>5, <1>6, Working

LEMMA NotifyWorks ==
    ASSUME RemInv, Grown, NEW p \in Procs, Notify(p) PROVE Worked(p)
  <1>1. /\ pc[p] = "notify" /\ UNCHANGED <<now, phase, todo, held, after>> /\ DOMAIN jobs' = DOMAIN jobs
        /\ pc[p] # "down" /\ held[p] # NoJob
    BY ProcIs DEF Notify, work, JobPc
  <1>2. NoLink \in LinkType /\ "check2" \in Pc \cap JobPc \cap CopyPc
        /\ "check2" \notin InEnsure \cup LinkPc \cup FreePc
    BY DEF NoLink, LinkType, Pc, InEnsure, LinkPc, JobPc, FreePc, CopyPc
  <1>3. Mind(rows, DOMAIN jobs, "check2", seen[p], NoLink)
    BY <1>1, <1>2, ProcIs, MindThread DEF Mind, CopyPc
  <1>4. Steps(p) /\ pc'[p] = "check2"
    <2>1. Move(p, "check2", seen[p], NoLink)
      BY DEF Notify, Goto
    <2>2. QED
      BY <1>2, <1>3, <2>1, ProcIs, MindKept, MoveSteps
  <1>5. after' \in [Procs -> Int] /\ \A q \in Procs \ {p} : after'[q] = after[q]
    BY <1>1, ProcIs
  <1>6. QED
    BY <1>1, <1>2, <1>4, <1>5, Working

LEMMA ClaimWorks ==
    ASSUME RemInv, Grown, NEW p \in Procs, Claim(p) PROVE Worked(p)
  <1>1. /\ pc[p] = "poll" /\ phase[p] = "running" /\ UNCHANGED <<phase, after, todo, now>>
        /\ Goto(p, "check")
    BY DEF Claim
  <1>2. PICK k \in DOMAIN jobs : J!Claimable(jobs[k]) /\ held' = [held EXCEPT ![p] = k]
    BY DEF Claim
  <1>3. k \in Key /\ k # NoJob /\ k.slot <= now
    BY <1>2, NoThings DEF RemInv, TypeOK, JobsFit, Timely, J!Claimable
  <1>4. "check" \in PlainPc /\ "check" \in JobPc /\ "check" \notin FreePc
    BY DEF PlainPc, Pc, CopyPc, LinkPc, InEnsure, JobPc, FreePc
  <1>5. Steps(p) /\ pc'[p] = "check"
    BY <1>1, <1>4, ProcIs, PlainSteps DEF Goto
  <1>6. held'[p] = k /\ held' \in [Procs -> Key \cup {NoJob}] /\ \A q \in Procs \ {p} : held'[q] = held[q]
    BY <1>2, <1>3, ProcIs
  <1>7. \A c \in todo[p] : c \in Copy /\ c.status = "active"
    BY ProcIs DEF RemInv, ThreadsFit, ProcFit
  <1>8. ProcFit(p)'
    <2>1. phase'[p] # "down" /\ todo'[p] = todo[p]
      BY <1>1
    <2>2. QED
      BY <1>2, <1>3, <1>4, <1>5, <1>6, <1>7, <2>1, ProcFits
  <1>9. QED
    BY <1>1, <1>5, <1>6, <1>8, ProcIs DEF Worked

LEMMA SettleWorks ==
    ASSUME RemInv, Grown, NEW p \in Procs, Settle(p) \/ SettleFault(p) PROVE Worked(p)
  <1>1. /\ Release(p) /\ UNCHANGED <<phase, todo, now>> /\ pc[p] # "down"
    BY DEF Settle, SettleFault
  <1>2. "poll" \in PlainPc /\ "poll" \in FreePc /\ "poll" \notin JobPc
    BY DEF PlainPc, Pc, CopyPc, LinkPc, InEnsure, JobPc, FreePc
  <1>3. Steps(p) /\ pc'[p] = "poll"
    BY <1>1, <1>2, ProcIs, PlainSteps DEF Release
  <1>4. /\ held'[p] = NoJob /\ held' \in [Procs -> Key \cup {NoJob}]
        /\ after' \in [Procs -> Int]
        /\ \A q \in Procs \ {p} : held'[q] = held[q] /\ after'[q] = after[q]
    BY <1>1, ProcIs DEF Release
  <1>5. \A c \in todo[p] : c \in Copy /\ c.status = "active"
    BY ProcIs DEF RemInv, ThreadsFit, ProcFit
  <1>6. ProcFit(p)'
    <2>1. phase'[p] # "down" /\ todo'[p] = todo[p]
      BY <1>1, ProcIs
    <2>2. QED
      BY <1>2, <1>3, <1>4, <1>5, <2>1, ProcFits
  <1>7. QED
    BY <1>1, <1>3, <1>4, <1>6, ProcIs DEF Worked

LEMMA StartupWorks ==
    ASSUME RemInv, Grown, NEW p \in Procs, Boot(p) \/ List(p) \/ Reconcile(p) PROVE Worked(p)
  <1>1. {"list", "next", "recover"} \subseteq PlainPc \cap FreePc
        /\ {"list", "next", "recover"} \cap (JobPc \cup {"down"}) = {}
        /\ "enqueue" \in InEnsure /\ "enqueue" \notin FreePc \cup JobPc
    BY DEF PlainPc, Pc, CopyPc, LinkPc, InEnsure, JobPc, FreePc
  <1>2. held[p] = NoJob /\ UNCHANGED <<held, after>>
    BY ProcIs DEF Boot, List, Reconcile, work, FreePc
  <1>3. \A c \in todo[p] : c \in Copy /\ c.status = "active" /\ Known(rows, c.rem, c.rev)
    BY ProcIs DEF RemInv, ThreadsFit, ProcFit
  <1>4. CASE Boot(p)
    <2>1. /\ Goto(p, "list") /\ phase' = [phase EXCEPT ![p] = "starting"] /\ todo' = todo
      BY <1>4 DEF Boot, work
    <2>2. /\ phase'[p] = "starting" /\ phase' \in [Procs -> {"down", "starting", "running", "closing"}]
          /\ \A q \in Procs \ {p} : phase'[q] = phase[q]
      BY <2>1, ProcIs
    <2>3. Steps(p) /\ pc'[p] = "list"
      BY <1>1, <2>1, ProcIs, PlainSteps DEF Goto
    <2>4. ProcFit(p)'
      BY <1>1, <1>2, <1>3, <2>1, <2>2, <2>3, ProcFits
    <2>5. QED
      BY <1>2, <2>1, <2>2, <2>3, <2>4, ProcIs DEF Worked
  <1>5. CASE List(p)
    <2> DEFINE set == {CopyOf(r, rows[r]) : r \in {x \in Ids : rows[x].status = "active"}}
    <2>1. /\ pc[p] = "list" /\ Goto(p, "next") /\ todo' = [todo EXCEPT ![p] = set] /\ UNCHANGED phase
      BY <1>5 DEF List
    <2>2. \A c \in set : c \in Copy /\ c.status = "active" /\ Known(rows, c.rem, c.rev)
      <3>1. ASSUME NEW r \in Ids, rows[r].status = "active"
            PROVE  LET c == CopyOf(r, rows[r])
                   IN  c \in Copy /\ c.status = "active" /\ Known(rows, c.rem, c.rev)
        <4>1. rows[r] \in Reminder /\ rows[r].rev \in Nat
          BY <3>1, RowIs DEF RemInv, Exists
        <4>2. QED
          BY <3>1, <4>1, CopyIs DEF Known
      <3>2. QED
        BY <3>1
    <2> HIDE DEF set
    <2>3. /\ todo'[p] = set /\ todo' \in [Procs -> SUBSET Copy]
          /\ \A q \in Procs \ {p} : todo'[q] = todo[q]
      BY <2>1, <2>2, ProcIs
    <2>4. Steps(p) /\ pc'[p] = "next"
      BY <1>1, <2>1, ProcIs, PlainSteps DEF Goto
    <2>5. phase'[p] # "down"
      BY <2>1, ProcIs
    <2>6. ProcFit(p)'
      BY <1>1, <1>2, <2>2, <2>3, <2>4, <2>5, ProcFits
    <2>7. QED
      BY <1>2, <2>1, <2>3, <2>4, <2>6, ProcIs DEF Worked
  <1>6. CASE Reconcile(p)
    <2>1. pc[p] = "next" /\ UNCHANGED <<tables, phase>>
      BY <1>6 DEF Reconcile
    <2>2. phase'[p] # "down"
      BY <2>1, ProcIs
    <2>3. /\ Steps(p) /\ pc'[p] \in {"enqueue", Return(p), "recover"}
          /\ todo' \in [Procs -> SUBSET Copy] /\ todo'[p] \subseteq todo[p]
          /\ \A q \in Procs \ {p} : todo'[q] = todo[q]
      <3>1. CASE Goto(p, "recover") /\ UNCHANGED todo
        BY <1>1, <3>1, ProcIs, PlainSteps DEF Goto
      <3>2. CASE \E c \in todo[p] : todo' = [todo EXCEPT ![p] = @ \ {c}] /\ Ensure(p, c)
        <4>1. PICK c \in todo[p] : todo' = [todo EXCEPT ![p] = @ \ {c}] /\ Ensure(p, c)
          BY <3>2
        <4>2. c \in Copy /\ Known(rows', c.rem, c.rev)
          BY <1>3, <2>1 DEF tables
        <4>3. Steps(p) /\ pc'[p] \in {"enqueue", Return(p)}
          BY <4>1, <4>2, ProcIs, EnsureSteps
        <4>4. /\ todo' \in [Procs -> SUBSET Copy] /\ todo'[p] \subseteq todo[p]
              /\ \A q \in Procs \ {p} : todo'[q] = todo[q]
          BY <4>1, ProcIs
        <4>5. QED
          BY <4>3, <4>4
      <3>3. QED
        BY <1>6, <3>1, <3>2 DEF Reconcile
    <2>4. Return(p) = "next"
      BY <1>2, Returns
    <2>5. ProcFit(p)'
      BY <1>1, <1>2, <1>3, <2>2, <2>3, <2>4, ProcFits
    <2>6. QED
      BY <1>1, <1>2, <2>1, <2>3, <2>4, <2>5, ProcIs DEF Worked
  <1>7. QED
    BY <1>4, <1>5, <1>6

-----------------------------------------------------------------------------
(* Every step is one of a thread, or of a whole process. *)

Untouched ==
    /\ UNCHANGED <<thread, after, todo, held>>
    /\ phase' \in [Procs -> {"down", "starting", "running", "closing"}]
    /\ \A p \in Procs : phase'[p] = "down" => phase[p] = "down"

Called(t) ==
    /\ UNCHANGED thread \/ (Steps(t) /\ pc'[t] \in CallerPc)
    /\ UNCHANGED <<phase, work>>

ThreadMove ==
    \/ Untouched
    \/ \E t \in Callers : Called(t)
    \/ \E p \in Procs : Worked(p)
    \/ \E p \in Procs : pc[p] = "recover" /\ Serve(p)
    \/ \E p \in Procs : End(p)

LEMMA ThreadStep ==
    ASSUME RemInv, Grown, Next PROVE ThreadMove
  <1>1. ASSUME NEW t \in Callers, CallerCalls(t) \/ CallerStep(t) \/ CallFault(t) PROVE Called(t)
    BY <1>1, CallerIs DEF Called
  <1>2. ASSUME NEW p \in Procs, WorkerStep(p) PROVE Worked(p)
    BY <1>2, CheckWorks, ReadWorks, TriggerWorks, NotifyWorks, ClaimWorks, SettleWorks DEF WorkerStep
  <1>3. ASSUME NEW p \in Procs, Startup(p) PROVE Worked(p) \/ (pc[p] = "recover" /\ Serve(p))
    BY <1>3, StartupWorks DEF Startup, Recover
  <1>4. ASSUME NEW p \in Procs, ProcessStep(p) \/ CallFault(p) \/ SettleFault(p)
        PROVE  Worked(p) \/ (pc[p] = "recover" /\ Serve(p))
    BY <1>2, <1>3, <1>4, EnsureWorks, FaultWorks, SettleWorks DEF ProcessStep
  <1>5. ASSUME NEW p \in Procs, Exit(p) \/ Crash(p) PROVE End(p)
    BY <1>5 DEF Exit, Crash
  <1>6. ASSUME \/ \E p \in Procs : Close(p) \/ ClaimFault(p)
               \/ Tick
               \/ \E k \in DOMAIN jobs : BecomeDue(k)
        PROVE  Untouched
    <2>1. ASSUME NEW p \in Procs, Close(p) PROVE Untouched
      <3>1. phase' = [phase EXCEPT ![p] = "closing"] /\ UNCHANGED <<thread, after, todo, held>>
        BY <2>1 DEF Close, work
      <3>2. /\ phase' \in [Procs -> {"down", "starting", "running", "closing"}]
            /\ \A q \in Procs : phase'[q] = "down" => phase[q] = "down"
        BY <3>1, ProcIs
      <3>3. QED
        BY <3>1, <3>2 DEF Untouched
    <2>2. ASSUME UNCHANGED <<phase, thread, work>> PROVE Untouched
      BY <2>2 DEF RemInv, TypeOK, Untouched, work
    <2>3. QED
      BY <1>6, <2>1, <2>2 DEF ClaimFault, Tick, BecomeDue
  <1>7. ASSUME NEW t \in Threads, CallFault(t) PROVE ThreadMove
    BY <1>1, <1>4, <1>7 DEF ThreadMove, Threads
  <1>8. QED
    BY <1>1, <1>4, <1>5, <1>6, <1>7 DEF Next, ThreadMove

\* A thread or process that has not moved is as well off as before.
LEMMA ProcRests ==
    ASSUME RemInv, Grown, NEW p \in Procs, pc'[p] = pc[p], held'[p] = held[p], todo'[p] = todo[p],
           phase'[p] = "down" => phase[p] = "down"
    PROVE  ProcFit(p)'
  <1>1. /\ \A c \in todo[p] : c \in Copy /\ c.status = "active"
        /\ pc[p] \in FreePc \cup JobPc \cup InEnsure
    BY ProcIs DEF RemInv, ThreadsFit, ProcFit
  <1>2. QED
    BY <1>1, ProcIs, ProcFits

LEMMA MindRests ==
    ASSUME RemInv, Grown, NEW t \in Threads, pc'[t] = pc[t], seen'[t] = seen[t], link'[t] = link[t]
    PROVE  Mind(rows', DOMAIN jobs', pc'[t], seen'[t], link'[t])
  BY MindThread, MindKept

Typed ==
    /\ phase' \in [Procs -> {"down", "starting", "running", "closing"}]
    /\ pc' \in [Threads -> Pc] /\ seen' \in [Threads -> Copy \cup {NoCopy}]
    /\ link' \in [Threads -> LinkType]
    /\ after' \in [Procs -> Int] /\ todo' \in [Procs -> SUBSET Copy]
    /\ held' \in [Procs -> Key \cup {NoJob}]

LEMMA FitNext ==
    ASSUME RemInv, \A t \in Callers : pc'[t] \in CallerPc, \A p \in Procs : ProcFit(p)',
           \A t \in Threads : Mind(rows', DOMAIN jobs', pc'[t], seen'[t], link'[t])
    PROVE  ThreadsFit'
  BY DEF ThreadsFit

LEMMA AllSteps ==
    ASSUME RemInv, Grown, NEW t \in Threads, Steps(t)
    PROVE  \A u \in Threads : Mind(rows', DOMAIN jobs', pc'[u], seen'[u], link'[u])
  BY StepsFrame, MindRests DEF Steps

LEMMA ThreadsGo ==
    ASSUME RemInv, Grown, ThreadMove
    PROVE  ThreadsFit' /\ Typed
  <1>1. /\ pc \in [Threads -> Pc] /\ seen \in [Threads -> Copy \cup {NoCopy}]
        /\ link \in [Threads -> LinkType] /\ Procs \subseteq Threads /\ Callers \subseteq Threads
        /\ \A t \in Callers : pc[t] \in CallerPc /\ t \notin Procs
        /\ phase \in [Procs -> {"down", "starting", "running", "closing"}]
        /\ after \in [Procs -> Int] /\ todo \in [Procs -> SUBSET Copy]
        /\ held \in [Procs -> Key \cup {NoJob}]
    BY RemindersAssumption DEF RemInv, TypeOK, LinkType, ThreadsFit, Threads
  <1>2. ASSUME UNCHANGED <<thread, after, todo, held>>,
               phase' \in [Procs -> {"down", "starting", "running", "closing"}],
               \A p \in Procs : phase'[p] = "down" => phase[p] = "down"
        PROVE  ThreadsFit' /\ Typed
    <2>1. UNCHANGED <<pc, seen, link>>
      BY <1>2 DEF thread
    <2>2. QED
      BY <1>1, <1>2, <2>1, ProcRests, MindRests, FitNext DEF Typed
  <1>3. ASSUME NEW t \in Callers, Called(t) PROVE ThreadsFit' /\ Typed
    <2>1. CASE UNCHANGED thread
      BY <1>1, <1>2, <1>3, <2>1 DEF Called, work
    <2>2. CASE Steps(t) /\ pc'[t] \in CallerPc
      <3>1. UNCHANGED <<phase, after, todo, held>>
        BY <1>3 DEF Called, work
      <3>2. /\ \A u \in Threads \ {t} : pc'[u] = pc[u]
            /\ pc' \in [Threads -> Pc] /\ seen' \in [Threads -> Copy \cup {NoCopy}]
            /\ link' \in [Threads -> LinkType]
        BY <1>1, <2>2, StepsFrame
      <3>3. \A p \in Procs : ProcFit(p)'
        BY <1>1, <3>1, <3>2, ProcRests
      <3>4. \A u \in Callers : pc'[u] \in CallerPc
        BY <1>1, <2>2, <3>2
      <3>5. QED
        BY <1>1, <2>2, <3>1, <3>2, <3>3, <3>4, AllSteps, FitNext DEF Typed
    <2>3. QED
      BY <1>3, <2>1, <2>2 DEF Called
  <1>4. ASSUME NEW p \in Procs, Worked(p) PROVE ThreadsFit' /\ Typed
    <2>1. /\ \A u \in Threads \ {p} : pc'[u] = pc[u]
          /\ pc' \in [Threads -> Pc] /\ seen' \in [Threads -> Copy \cup {NoCopy}]
          /\ link' \in [Threads -> LinkType]
      BY <1>1, <1>4, StepsFrame DEF Worked
    <2>2. \A q \in Procs : ProcFit(q)'
      <3>1. ASSUME NEW q \in Procs, q # p PROVE ProcFit(q)'
        BY <1>1, <1>4, <2>1, <3>1, ProcRests DEF Worked
      <3>2. QED
        BY <1>4, <3>1 DEF Worked
    <2>3. \A u \in Callers : pc'[u] \in CallerPc
      BY <1>1, <2>1
    <2>4. \A u \in Threads : Mind(rows', DOMAIN jobs', pc'[u], seen'[u], link'[u])
      BY <1>1, <1>4, AllSteps DEF Worked
    <2>5. QED
      BY <1>4, <2>1, <2>2, <2>3, <2>4, FitNext DEF Worked, Typed
  <1>5. ASSUME NEW p \in Procs, pc[p] = "recover", Serve(p) PROVE ThreadsFit' /\ Typed
    <2>1. /\ UNCHANGED <<seen, link, after, todo, held>>
          /\ pc' = [t \in Threads |-> IF t = p THEN "poll"
                                      ELSE IF HomeOf(t) = p THEN "idle" ELSE pc[t]]
          /\ phase' = [phase EXCEPT ![p] = "running"]
      BY <1>5 DEF Serve, work
    <2>2. {"poll", "idle"} \subseteq PlainPc /\ "poll" \in FreePc /\ "poll" \notin JobPc
          /\ "idle" \in CallerPc /\ "recover" \in FreePc /\ {"poll", "idle"} \subseteq Pc
      BY DEF PlainPc, Pc, CopyPc, LinkPc, InEnsure, JobPc, FreePc, CallerPc
    <2>3. /\ phase' \in [Procs -> {"down", "starting", "running", "closing"}] /\ phase'[p] = "running"
          /\ \A q \in Procs \ {p} : phase'[q] = phase[q]
      BY <1>1, <2>1
    <2>4. \A q \in Procs \ {p} : pc'[q] = pc[q]
      BY <1>1, <2>1 DEF HomeOf
    <2>5. pc'[p] = "poll" /\ held[p] = NoJob
      BY <1>1, <1>5, <2>1, <2>2, ProcIs
    <2>6. ProcFit(p)'
      <3>1. \A c \in todo[p] : c \in Copy /\ c.status = "active"
        BY ProcIs DEF RemInv, ThreadsFit, ProcFit
      <3>2. QED
        BY <2>1, <2>2, <2>3, <2>5, <3>1, ProcFits
    <2>7. \A q \in Procs : ProcFit(q)'
      <3>1. ASSUME NEW q \in Procs, q # p PROVE ProcFit(q)'
        BY <2>1, <2>3, <2>4, <3>1, ProcRests
      <3>2. QED
        BY <2>6, <3>1
    <2>8. \A t \in Callers : pc'[t] \in CallerPc
      BY <1>1, <1>5, <2>1, <2>2
    <2>9. \A t \in Threads : Mind(rows', DOMAIN jobs', pc'[t], seen'[t], link'[t])
      <3>1. ASSUME NEW t \in Threads, pc'[t] \in {"poll", "idle"}
            PROVE  Mind(rows', DOMAIN jobs', pc'[t], seen'[t], link'[t])
        <4>1. Mind(rows, DOMAIN jobs, pc'[t], seen[t], link[t])
          BY <2>2, <3>1, MindThread DEF Mind, PlainPc, LinkPc, InEnsure
        <4>2. QED
          BY <2>1, <4>1, MindKept
      <3>2. ASSUME NEW t \in Threads, pc'[t] = pc[t]
            PROVE  Mind(rows', DOMAIN jobs', pc'[t], seen'[t], link'[t])
        BY <2>1, <3>2, MindRests
      <3>3. QED
        BY <2>1, <3>1, <3>2
    <2>10. pc' \in [Threads -> Pc]
      BY <1>1, <2>1, <2>2
    <2>11. QED
      BY <1>1, <2>1, <2>3, <2>7, <2>8, <2>9, <2>10, FitNext DEF Typed
  <1>6. ASSUME NEW p \in Procs, End(p) PROVE ThreadsFit' /\ Typed
    <2>1. /\ phase' = [phase EXCEPT ![p] = "down"]
          /\ pc' = [t \in Threads |-> IF HomeOf(t) = p THEN "down" ELSE pc[t]]
          /\ seen' = [t \in Threads |-> IF HomeOf(t) = p THEN NoCopy ELSE seen[t]]
          /\ link' = [t \in Threads |-> IF HomeOf(t) = p THEN NoLink ELSE link[t]]
          /\ after' = [after EXCEPT ![p] = NoTime]
          /\ todo' = [todo EXCEPT ![p] = {}]
          /\ held' = [held EXCEPT ![p] = NoJob]
      BY <1>6 DEF End
    <2>2. "down" \in PlainPc /\ "down" \in FreePc /\ "down" \notin JobPc
          /\ "down" \in CallerPc /\ NoLink \in LinkType /\ "down" \in Pc
      BY DEF PlainPc, Pc, CopyPc, LinkPc, InEnsure, JobPc, FreePc, CallerPc, NoLink, LinkType
    <2>3. /\ phase' \in [Procs -> {"down", "starting", "running", "closing"}]
          /\ after' \in [Procs -> Int] /\ todo' \in [Procs -> SUBSET Copy]
          /\ held' \in [Procs -> Key \cup {NoJob}]
          /\ \A q \in Procs \ {p} : phase'[q] = phase[q] /\ todo'[q] = todo[q] /\ held'[q] = held[q]
          /\ held'[p] = NoJob /\ todo'[p] = {}
      BY <1>1, <2>1 DEF NoTime
    <2>4. /\ \A q \in Procs \ {p} : pc'[q] = pc[q]
          /\ pc'[p] = "down"
      BY <1>1, <2>1 DEF HomeOf
    <2>5. ProcFit(p)'
      BY <2>2, <2>3, <2>4, ProcFits
    <2>6. \A q \in Procs : ProcFit(q)'
      <3>1. ASSUME NEW q \in Procs, q # p PROVE ProcFit(q)'
        BY <2>3, <2>4, <3>1, ProcRests
      <3>2. QED
        BY <2>5, <3>1
    <2>7. \A t \in Callers : pc'[t] \in CallerPc
      BY <1>1, <2>1, <2>2
    <2>8. ASSUME NEW t \in Threads PROVE Mind(rows', DOMAIN jobs', pc'[t], seen'[t], link'[t])
      <3>1. CASE HomeOf(t) = p
        <4>1. pc'[t] = "down" /\ seen'[t] = NoCopy
          BY <2>1, <3>1
        <4>2. QED
          BY <2>2, <4>1 DEF Mind, PlainPc, LinkPc, InEnsure
      <3>2. CASE HomeOf(t) # p
        <4>1. pc'[t] = pc[t] /\ seen'[t] = seen[t] /\ link'[t] = link[t]
          BY <2>1, <3>2
        <4>2. QED
          BY <4>1, MindRests
      <3>3. QED
        BY <3>1, <3>2
    <2>9. /\ pc' \in [Threads -> Pc] /\ seen' \in [Threads -> Copy \cup {NoCopy}]
          /\ link' \in [Threads -> LinkType]
      BY <1>1, <2>1, <2>2
    <2>10. QED
      BY <2>3, <2>6, <2>7, <2>8, <2>9, FitNext DEF Typed
  <1>7. QED
    BY <1>2, <1>3, <1>4, <1>5, <1>6 DEF ThreadMove, Untouched

-----------------------------------------------------------------------------
(* Who is about to notify, and who is about to trigger. *)

LEMMA NotifyFrom ==
    ASSUME RemInv, ThreadMove, NEW q \in Procs, pc'[q] = "notify"
    PROVE  /\ held'[q] = held[q]
           /\ \/ pc[q] = "notify"
              \/ Recorded(q) /\ OccurrenceOf(held[q]) \notin DOMAIN fired
  <1>1. /\ pc \in [Threads -> Pc] /\ q \in Threads /\ q \notin Callers
        /\ held \in [Procs -> Key \cup {NoJob}] /\ "notify" \notin CallerPc
    BY ProcIs, ThreadIs DEF CallerPc
  <1>2. CASE Untouched
    BY <1>2 DEF Untouched, thread
  <1>3. ASSUME NEW t \in Callers, Called(t) PROVE pc'[q] = pc[q] /\ held'[q] = held[q]
    <2>1. t \in Threads /\ t # q /\ UNCHANGED held
      BY <1>1, <1>3 DEF Called, work, Threads
    <2>2. QED
      BY <1>1, <1>3, <2>1, StepsFrame DEF Called, thread
  <1>4. ASSUME NEW p \in Procs, Worked(p), p # q PROVE pc'[q] = pc[q] /\ held'[q] = held[q]
    BY <1>1, <1>4, ProcIs, StepsFrame DEF Worked
  <1>5. ASSUME Worked(q)
        PROVE  Recorded(q) /\ OccurrenceOf(held[q]) \notin DOMAIN fired /\ held'[q] = held[q]
    BY <1>5 DEF Worked
  <1>6. ASSUME NEW p \in Procs, Serve(p) PROVE pc'[q] = pc[q] /\ held'[q] = held[q]
    BY <1>1, <1>6 DEF Serve, work
  <1>7. ASSUME NEW p \in Procs, End(p) PROVE pc'[q] = pc[q] /\ held'[q] = held[q]
    BY <1>1, <1>7 DEF End, HomeOf
  <1>8. QED
    BY <1>2, <1>3, <1>4, <1>5, <1>6, <1>7 DEF ThreadMove

LEMMA NotifierGo ==
    ASSUME RemInv, TablesMove, ThreadMove
    PROVE  \A q \in Procs : NotifierFits(q)'
  <1> DEFINE occ(q) == OccurrenceOf(held[q])
             New(q) == Recorded(q) /\ occ(q) \notin DOMAIN fired
  <1>1. \A q \in Procs : pc[q] = "notify" =>
            /\ occ(q) \in DOMAIN fired /\ fired[occ(q)].told = 0
            /\ \A u \in Procs \ {q} : pc[u] = "notify" => occ(u) # occ(q)
    BY DEF RemInv, NotifierFits
  <1>2. \A q \in Procs : pc'[q] = "notify" =>
            held'[q] = held[q] /\ (pc[q] = "notify" \/ New(q))
    BY NotifyFrom
  <1>3. ASSUME NEW q \in Procs, New(q)
        PROVE  /\ \A u \in Procs \ {q} : pc'[u] = pc[u]
               /\ pc[q] = "trigger"
               /\ occ(q) \in DOMAIN fired' /\ fired'[occ(q)].told = 0
    <2>1. /\ occ(q) \in DOMAIN fired' /\ fired'[occ(q)] = [told |-> 0, acked |-> FALSE]
          /\ pc[q] = "trigger"
      BY <1>3, RecordIs DEF Recorded
    <2>2. \A u \in Procs \ {q} : pc'[u] = pc[u]
      <3>1. \E l, c : Move(q, l, c, NoLink)
        BY <1>3 DEF Recorded, Record
      <3>2. q \in Threads /\ Procs \subseteq Threads /\ pc \in [Threads -> Pc]
        BY ProcIs, ThreadIs
      <3>3. QED
        BY <3>1, <3>2 DEF Move
    <2>3. QED
      BY <2>1, <2>2
  <1>4. ASSUME NEW q \in Procs, pc'[q] = "notify", pc[q] = "notify"
        PROVE  occ(q) \in DOMAIN fired' /\ fired'[occ(q)].told = 0
    <2> DEFINE o == occ(q)
    <2>1. o \in DOMAIN fired /\ fired[o].told = 0 /\ fired[o] \in Notice
      BY <1>1, <1>4 DEF RemInv, TypeOK, Notice
    <2>2. ASSUME NEW x \in DOMAIN fired, Acked(x) PROVE o \in DOMAIN fired' /\ fired'[o].told = 0
      <3> HIDE DEF o
      <3>1. DOMAIN fired' = DOMAIN fired
        BY <2>2 DEF Acked
      <3>2. fired'[o] = fired[o] \/ fired'[o] = [fired[o] EXCEPT !.acked = TRUE]
        BY <2>1, <2>2 DEF Acked
      <3>3. [fired[o] EXCEPT !.acked = TRUE].told = 0
        BY <2>1 DEF Notice
      <3>4. QED
        BY <2>1, <3>1, <3>2, <3>3
    <2>3. ASSUME NEW p \in Procs, Told(p) PROVE o \in DOMAIN fired' /\ fired'[o].told = 0
      <3>1. p # q
        <4>1. q \in Threads /\ pc \in [Threads -> Pc]
          BY ProcIs, ThreadIs
        <4>2. QED
          BY <1>4, <2>3, <4>1 DEF Told
      <3>2. occ(p) # o /\ fired' = [fired EXCEPT ![occ(p)].told = @ + 1]
        BY <1>1, <1>4, <2>3, <3>1 DEF Told
      <3> HIDE DEF o, occ
      <3>3. QED
        BY <2>1, <3>2
    <2>4. ASSUME NEW p \in Procs, Recorded(p) PROVE o \in DOMAIN fired' /\ fired'[o].told = 0
      <3>1. DOMAIN fired \subseteq DOMAIN fired' /\ \A x \in DOMAIN fired : fired'[x] = fired[x]
        BY <2>4, RecordIs
      <3> HIDE DEF o
      <3>2. QED
        BY <2>1, <3>1
    <2>5. ASSUME UNCHANGED fired PROVE o \in DOMAIN fired' /\ fired'[o].told = 0
      BY <2>1, <2>5
    <2> HIDE DEF o, occ
    <2>6. o \in DOMAIN fired' /\ fired'[o].told = 0
      BY <2>2, <2>3, <2>4, <2>5 DEF TablesMove, Made, Replaced, Linked
    <2>7. QED
      BY <2>6 DEF o
  <1>5. \A q \in Procs : pc'[q] = "notify" =>
            /\ occ(q) \in DOMAIN fired' /\ fired'[occ(q)].told = 0
            /\ \A u \in Procs \ {q} : pc'[u] = "notify" => occ(u) # occ(q)
    <2>1. SUFFICES ASSUME NEW q \in Procs, pc'[q] = "notify"
                   PROVE  /\ occ(q) \in DOMAIN fired' /\ fired'[occ(q)].told = 0
                          /\ \A u \in Procs \ {q} : pc'[u] = "notify" => occ(u) # occ(q)
      OBVIOUS
    <2>2. occ(q) \in DOMAIN fired' /\ fired'[occ(q)].told = 0
      BY <1>2, <1>3, <1>4, <2>1
    <2>3. ASSUME NEW u \in Procs, u # q, pc'[u] = "notify" PROVE occ(u) # occ(q)
      <3>1. CASE pc[q] = "notify" /\ pc[u] = "notify"
        BY <1>1, <2>3, <3>1
      <3>2. CASE New(q)
        <4>1. pc[u] = "notify"
          BY <1>3, <2>3, <3>2
        <4>2. QED
          BY <1>1, <2>3, <3>2, <4>1
      <3>3. CASE New(u)
        <4>1. pc[q] = "notify"
          BY <1>3, <2>1, <2>3, <3>3
        <4>2. QED
          BY <1>1, <2>1, <3>3, <4>1
      <3>4. QED
        BY <1>2, <2>1, <2>3, <3>1, <3>2, <3>3
    <2>4. QED
      BY <2>2, <2>3
  <1>6. \A q \in Procs : pc'[q] = "notify" => occ(q)' = occ(q)
    BY <1>2
  <1>7. SUFFICES ASSUME NEW q \in Procs, pc'[q] = "notify"
                 PROVE  /\ occ(q)' \in DOMAIN fired' /\ fired'[occ(q)'].told = 0
                        /\ \A u \in Procs \ {q} : pc'[u] = "notify" => occ(u)' # occ(q)'
    BY DEF NotifierFits
  <1> HIDE DEF occ
  <1>8. occ(q)' = occ(q)
    BY <1>6, <1>7
  <1>9. QED
    BY <1>5, <1>6, <1>7, <1>8

LEMMA TriggerFrom ==
    ASSUME RemInv, ThreadMove, NEW q \in Procs, pc'[q] = "trigger"
    PROVE  \/ pc[q] = "trigger" /\ held'[q] = held[q] /\ after'[q] = after[q]
           \/ after'[q] = NoTime \/ (Forward => after'[q] > held'[q].slot)
  <1>1. /\ pc \in [Threads -> Pc] /\ q \in Threads /\ q \notin Callers
        /\ held \in [Procs -> Key \cup {NoJob}] /\ after \in [Procs -> Int]
        /\ "trigger" \notin CallerPc
    BY ProcIs, ThreadIs DEF CallerPc
  <1> DEFINE Same == pc'[q] = pc[q] /\ held'[q] = held[q] /\ after'[q] = after[q]
  <1>2. CASE Untouched
    BY <1>2 DEF Untouched, thread
  <1>3. ASSUME NEW t \in Callers, Called(t) PROVE Same
    <2>1. t \in Threads /\ t # q /\ UNCHANGED <<held, after>>
      BY <1>1, <1>3 DEF Called, work, Threads
    <2>2. QED
      BY <1>1, <1>3, <2>1, StepsFrame DEF Called, thread
  <1>4. ASSUME NEW p \in Procs, Worked(p), p # q PROVE Same
    BY <1>1, <1>4, ProcIs, StepsFrame DEF Worked
  <1>5. ASSUME Worked(q)
        PROVE  after'[q] = NoTime \/ (Forward => after'[q] > held'[q].slot)
    BY <1>5 DEF Worked
  <1>6. ASSUME NEW p \in Procs, Serve(p) PROVE Same
    BY <1>1, <1>6 DEF Serve, work
  <1>7. ASSUME NEW p \in Procs, End(p) PROVE Same
    BY <1>1, <1>7 DEF End, HomeOf
  <1>8. QED
    BY <1>2, <1>3, <1>4, <1>5, <1>6, <1>7 DEF ThreadMove

-----------------------------------------------------------------------------
(* The invariant. *)

LEMMA RemInit ==
    ASSUME Init PROVE RemInv
  <1>1. TypeOK
    <2>1. /\ Absent \in Reminder \cup {Absent} /\ NoLink \in [job : Key \cup {NoJob}, made : BOOLEAN]
          /\ NoTime \in Int /\ "down" \in Pc
      BY DEF NoLink, NoTime, Pc
    <2>2. QED
      BY <2>1 DEF Init, TypeOK
  <1>2. ThreadsFit
    <2>1. /\ "down" \in CallerPc /\ "down" \in FreePc
          /\ "down" \notin JobPc \cup CopyPc \cup InEnsure \cup LinkPc
      BY DEF CallerPc, FreePc, JobPc, CopyPc, InEnsure, LinkPc
    <2>2. ASSUME NEW t \in Threads PROVE Mind(rows, DOMAIN jobs, pc[t], seen[t], link[t])
      BY <2>1 DEF Init, Mind
    <2>3. ASSUME NEW p \in Procs PROVE ProcFit(p)
      BY <2>1 DEF Init, ProcFit, Threads
    <2>4. QED
      BY <2>1, <2>2, <2>3 DEF ThreadsFit, Init, Threads
  <1>3. RefsFit /\ JobsFit
    BY DEF Init, RefsFit, JobsFit
  <1>4. LinkedJobFits /\ FiredOnce
    BY DEF Init, LinkedJobFits, FiredOnce, Exists, Absent
  <1>5. \A p \in Procs : NotifierFits(p)
    BY DEF Init, NotifierFits, Threads
  <1>6. IsFiniteSet(DOMAIN fired) /\ IsFiniteSet(DOMAIN jobs)
    BY FS_EmptySet DEF Init
  <1>7. QED
    BY <1>1, <1>2, <1>3, <1>4, <1>5, <1>6 DEF RemInv

LEMMA BoundsGo ==
    ASSUME RemInv, Next PROVE calls' \in Nat /\ lives' \in Nat /\ faults' \in Nat
  <1>1. calls \in Nat /\ lives \in Nat /\ faults \in Nat
    BY DEF RemInv, TypeOK
  <1>2. /\ calls' \in {calls, calls + 1} /\ lives' \in {lives, lives + 1}
        /\ faults' \in {faults, faults + 1}
    BY ZenonT(30) DEF Next, CallerCalls, Create, CreateAgain, CancelReminder, Reschedule, Acknowledge, CancelJob,
       CallerStep, ProcessStep, EnsureStep, Enqueue, Repair, Link, Undo, CancelOld, EnqueueRefused,
       CallFault, Startup, Boot, List, Reconcile, Recover, Serve, WorkerStep, Claim, Check,
       Read, Trigger, Notify, Settle, Close, Exit, Crash, End, ClaimFault, SettleFault, Tick, BecomeDue,
       Fault, Call, bounds
  <1>3. QED
    BY <1>1, <1>2

LEMMA RemNext ==
    ASSUME RemInv, Next PROVE RemInv'
  <1>1. TablesMove /\ JobsMove /\ Grown
    BY TablesStep, JobsStep, GrownNext
  <1>2. ThreadMove
    BY <1>1, ThreadStep
  <1>3. ThreadsFit' /\ Typed
    BY <1>1, <1>2, ThreadsGo
  <1>4. /\ DOMAIN jobs \subseteq DOMAIN jobs' /\ DOMAIN jobs' \subseteq Key /\ IsFiniteSet(DOMAIN jobs')
        /\ \A k \in DOMAIN jobs' : /\ jobs'[k] \in J!Row /\ Timely(now', k, jobs'[k])
                                   /\ Known(rows', k.rem, k.rev)
    BY <1>1, JobsGo DEF Grown
  <1>5. /\ DOMAIN fired' \subseteq Occurrence /\ IsFiniteSet(DOMAIN fired')
        /\ \A o \in DOMAIN fired' : fired'[o] \in Notice
        /\ \A o \in DOMAIN fired' : Known(rows', o.rem, o.rev)
    BY <1>1, FiredGo
  <1>6. TypeOK'
    <2>1. rows' \in [Ids -> Reminder \cup {Absent}] /\ now' \in Nat
      BY <1>1, RowsGo DEF Grown
    <2>2. calls' \in Nat /\ lives' \in Nat /\ faults' \in Nat
      BY BoundsGo
    <2>3. QED
      BY <1>3, <1>4, <1>5, <2>1, <2>2 DEF TypeOK, Typed, LinkType, Notice
  <1>7. RefsFit' /\ JobsFit'
    BY <1>4, <1>5 DEF RefsFit, JobsFit
  <1>8. LinkedJobFits' /\ FiredOnce' /\ \A p \in Procs : NotifierFits(p)'
    BY <1>1, <1>2, <1>4, LinksGo, FiredStep, NotifierGo
  <1>9. QED
    BY <1>3, <1>4, <1>5, <1>6, <1>7, <1>8 DEF RemInv

LEMMA RemStep ==
    ASSUME RemInv, [Next]_vars PROVE RemInv'
  <1>1. CASE UNCHANGED vars
    BY <1>1 DEF vars, tables, thread, work, bounds, RemInv, TypeOK, ThreadsFit, ProcFit, RefsFit,
       JobsFit, LinkedJobFits, FiredOnce, NotifierFits, Exists, Active
  <1>2. QED
    BY <1>1, RemNext

(***************************************************************************)
(* The invariant the theorems rest on: what threads remember of reminders  *)
(* and jobs exists and is of the present revision or an earlier one, a     *)
(* claimed job's slot has come, and who is about to notify recorded the    *)
(* occurrence.                                                             *)
(***************************************************************************)
THEOREM InvariantHolds == Spec => []RemInv
  BY RemInit, RemStep, PTL DEF Spec

(***************************************************************************)
(* The tables, the threads and what they remember keep their types         *)
(* (models.py of the reminders, JobRecord).                                *)
(***************************************************************************)
THEOREM TypeCorrect == Spec => []TypeOK
  <1>1. RemInv => TypeOK
    BY DEF RemInv
  <1>2. QED
    BY <1>1, InvariantHolds, PTL

(***************************************************************************)
(* A linked job is always of the reminder's revision and slot: every write *)
(* of the row clears next_job_id or, in set_next_job, checks both          *)
(* (reminder_repository.py).                                               *)
(***************************************************************************)
THEOREM LinksFit == Spec => []LinkedJobFits
  <1>1. RemInv => LinkedJobFits
    BY DEF RemInv
  <1>2. QED
    BY <1>1, InvariantHolds, PTL

(***************************************************************************)
(* trigger_count is the number of occurrences and no occurrence is         *)
(* notified twice, whatever crashes, retries, repair jobs and processes    *)
(* come together (trigger and _deliver).                                   *)
(***************************************************************************)
THEOREM FiredAtMostOnce == Spec => []FiredOnce
  <1>1. RemInv => FiredOnce
    BY DEF RemInv
  <1>2. QED
    BY <1>1, InvariantHolds, PTL

(***************************************************************************)
(* An occurrence is recorded only for the revision in force, at the slot   *)
(* it stood at and not before its time, whatever the delivery job had read *)
(* (the second check in trigger, and available_at of the job).             *)
(***************************************************************************)
THEOREM OldJobsDoNothing == Spec => OldJobsHarmless
  <1> DEFINE Harmless == \A o \in DOMAIN fired' \ DOMAIN fired :
                            /\ Current(o.rem, o.rev, o.slot)
                            /\ rows'[o.rem].rev = o.rev
                            /\ o.slot <= now
  <1>1. ASSUME RemInv, Next PROVE Harmless
    <2>1. TablesMove
      BY <1>1, TablesStep
    <2>2. ASSUME NEW p \in Procs, Recorded(p) PROVE Harmless
      <3>1. /\ held[p] # NoJob /\ DOMAIN fired' = DOMAIN fired \cup {OccurrenceOf(held[p])}
            /\ rows[held[p].rem].rev = held[p].rev
        BY <1>1, <2>2, RecordIs
      <3>2. PICK row : Delivered(p, row) /\ rows' = [rows EXCEPT ![held[p].rem] = row]
        BY <1>1, <2>2, RecordIs
      <3>3. /\ held[p].slot <= now /\ held[p].rem \in Ids
            /\ OccurrenceOf(held[p]).rem = held[p].rem /\ OccurrenceOf(held[p]).rev = held[p].rev
            /\ OccurrenceOf(held[p]).slot = held[p].slot
        BY <1>1, <3>1, HeldIs
      <3>4. rows'[held[p].rem].rev = held[p].rev
        BY <1>1, <3>2, <3>3 DEF Delivered, RemInv, TypeOK
      <3>5. Current(held[p].rem, held[p].rev, held[p].slot)
        BY <2>2 DEF Recorded
      <3>6. QED
        BY <3>1, <3>3, <3>4, <3>5
    <2>3. CASE DOMAIN fired' = DOMAIN fired
      BY <2>3
    <2>4. QED
      BY <2>1, <2>2, <2>3 DEF TablesMove, Made, Replaced, Linked, Acked, Told
  <1>2. ASSUME RemInv, [Next]_vars PROVE [Harmless]_vars
    BY <1>1, <1>2
  <1>3. QED
    BY <1>2, InvariantHolds, PTL DEF Spec, OldJobsHarmless

-----------------------------------------------------------------------------
(* Schedules, where the clocks do not go back. *)

\* The occurrences of a revision in force lie before its next slot.
Advances(table, set, r) ==
    table[r].status = "active" =>
        \A o \in set : o.rem = r /\ o.rev = table[r].rev => o.slot < table[r].next

LEMMA SlotsGo ==
    ASSUME Forward, ForwardInv, TablesMove, NEW r \in Ids
    PROVE  Advances(rows', DOMAIN fired', r)
  <1>1. /\ RemInv /\ rows \in [Ids -> Reminder \cup {Absent}]
        /\ \A o \in DOMAIN fired : Known(rows, o.rem, o.rev) /\ o \in Occurrence
        /\ Exists(r) => rows[r] \in Reminder /\ rows[r].rev \in Nat /\ rows[r].next \in Int
    <2>1. TypeOK
      BY DEF ForwardInv, RemInv
    <2>2. QED
      BY <2>1, RowIs DEF ForwardInv, RemInv, RefsFit, TypeOK
  <1>2. Advances(rows, DOMAIN fired, r)
    BY DEF ForwardInv, SlotsAdvance, Advances, Active
  <1>3. CASE rows'[r] = rows[r] /\ DOMAIN fired' = DOMAIN fired
    BY <1>2, <1>3 DEF Advances
  <1>4. ASSUME NEW x \in Ids, Made(x) PROVE Advances(rows', DOMAIN fired', r)
    <2>1. PICK slot \in Slots, rec \in Recurrences : rows' = [rows EXCEPT ![x] = NewReminder(slot, rec)]
      BY <1>4 DEF Made
    <2>2. CASE x # r
      BY <1>1, <1>3, <1>4, <2>1, <2>2 DEF Made
    <2>3. CASE x = r
      <3>1. \A o \in DOMAIN fired : o.rem # r
        BY <1>1, <1>4, <2>3 DEF Made, Known, Exists
      <3>2. QED
        BY <1>4, <3>1 DEF Made, Advances
    <2>4. QED
      BY <2>2, <2>3
  <1>5. ASSUME NEW x \in Ids, Replaced(x) PROVE Advances(rows', DOMAIN fired', r)
    <2>1. PICK row \in Reminder :
            /\ rows' = [rows EXCEPT ![x] = row]
            /\ row.status = "cancelled" \/ row.rev = rows[x].rev + 1
      BY <1>5 DEF Replaced
    <2>2. CASE x # r
      BY <1>1, <1>3, <1>5, <2>1, <2>2 DEF Replaced
    <2>3. CASE x = r
      <3>1. rows'[r] = row /\ rows[r].rev \in Nat
        BY <1>1, <1>5, <2>1, <2>3 DEF Replaced
      <3>2. \A o \in DOMAIN fired : o.rem = r => o.rev \in Nat /\ o.rev <= rows[r].rev
        BY <1>1 DEF Known, Occurrence
      <3>3. row.rev = rows[r].rev + 1 => \A o \in DOMAIN fired : o.rem = r => o.rev # row.rev
        BY <3>1, <3>2
      <3>4. row.status = "active" => \A o \in DOMAIN fired : o.rem = r => o.rev # row.rev
        BY <2>1, <2>3, <3>3
      <3>5. QED
        BY <1>5, <3>1, <3>4 DEF Replaced, Advances
    <2>4. QED
      BY <2>2, <2>3
  <1>6. ASSUME NEW x \in Ids, Linked(x) PROVE Advances(rows', DOMAIN fired', r)
    <2>1. PICK k \in DOMAIN jobs : rows' = [rows EXCEPT ![x].job = k]
      BY <1>6 DEF Linked
    <2>2. CASE x # r
      BY <1>1, <1>3, <1>6, <2>1, <2>2 DEF Linked
    <2>3. CASE x = r
      <3>1. k \in Key /\ rows[r] \in Reminder
        BY <1>1, <1>6, <2>3 DEF RemInv, TypeOK, Linked, Active, Exists
      <3> DEFINE row == [rows[r] EXCEPT !.job = k]
      <3>2. row.status = rows[r].status /\ row.rev = rows[r].rev /\ row.next = rows[r].next
        BY <3>1, LinkedIs
      <3>3. rows'[r] = row
        BY <1>1, <2>1, <2>3
      <3> HIDE DEF row
      <3>4. QED
        BY <1>2, <1>6, <3>2, <3>3 DEF Linked, Advances
    <2>4. QED
      BY <2>2, <2>3
  <1>7. ASSUME NEW p \in Procs, Recorded(p) PROVE Advances(rows', DOMAIN fired', r)
    <2> DEFINE k == held[p]
    <2>1. /\ k # NoJob /\ Active(k.rem) /\ rows[k.rem].rev = k.rev /\ rows[k.rem].next = k.slot
          /\ DOMAIN fired' = DOMAIN fired \cup {OccurrenceOf(k)}
      BY <1>1, <1>7, RecordIs
    <2>2. PICK row : Delivered(p, row) /\ rows' = [rows EXCEPT ![k.rem] = row]
      BY <1>1, <1>7, RecordIs
    <2>3. /\ k.rem \in Ids /\ k.slot \in Int /\ after[p] \in Int
          /\ OccurrenceOf(k).rem = k.rem /\ OccurrenceOf(k).slot = k.slot
      BY <1>1, <2>1, HeldIs, ProcIs
    <2>4. after[p] # NoTime => after[p] > k.slot
      BY <1>7 DEF ForwardInv, Recorded
    <2>5. row.rev = k.rev /\ (row.status = "active" => row.next = after[p] /\ after[p] # NoTime)
      BY <2>2 DEF Delivered
    <2> HIDE DEF k
    <2>6. CASE k.rem # r
      <3>1. rows'[r] = rows[r]
        BY <1>1, <2>2, <2>3, <2>6
      <3>2. QED
        BY <1>2, <2>1, <2>3, <2>6, <3>1 DEF Advances
    <2>7. CASE k.rem = r
      <3>1. rows'[r] = row
        BY <1>1, <2>2, <2>3, <2>7
      <3>2. \A o \in DOMAIN fired : o.rem = r /\ o.rev = k.rev => o.slot < k.slot /\ o.slot \in Int
        BY <1>1, <1>2, <2>1, <2>7 DEF Advances, Active, Occurrence
      <3>3. row.status = "active" =>
               \A o \in DOMAIN fired' : o.rem = r /\ o.rev = k.rev => o.slot < row.next
        <4>1. SUFFICES ASSUME row.status = "active", NEW o \in DOMAIN fired', o.rem = r, o.rev = k.rev
                       PROVE  o.slot < row.next
          OBVIOUS
        <4>2. row.next = after[p] /\ after[p] > k.slot
          BY <2>4, <2>5, <4>1
        <4>3. o.slot \in Int /\ o.slot <= k.slot
          BY <2>1, <2>3, <3>2, <4>1
        <4>4. QED
          BY <2>3, <4>2, <4>3
      <3>4. QED
        BY <2>5, <3>1, <3>3 DEF Advances
    <2>8. QED
      BY <2>6, <2>7
  <1>8. QED
    BY <1>3, <1>4, <1>5, <1>6, <1>7 DEF TablesMove, Acked, Told

LEMMA ForwardStep ==
    ASSUME Forward, ForwardInv, [Next]_vars PROVE ForwardInv'
  <1>1. RemInv'
    BY RemStep DEF ForwardInv
  <1>2. CASE UNCHANGED vars
    BY <1>1, <1>2 DEF vars, tables, thread, work, ForwardInv, SlotsAdvance, Active
  <1>3. CASE Next
    <2>1. RemInv /\ TablesMove /\ ThreadMove
      BY <1>3, TablesStep, GrownNext, ThreadStep DEF ForwardInv
    <2>2. SlotsAdvance'
      BY <2>1, SlotsGo DEF SlotsAdvance, Advances, Active
    <2>3. \A p \in Procs : pc'[p] = "trigger" => after'[p] = NoTime \/ after'[p] > held'[p].slot
      <3>1. SUFFICES ASSUME NEW p \in Procs, pc'[p] = "trigger"
                     PROVE  after'[p] = NoTime \/ after'[p] > held'[p].slot
        OBVIOUS
      <3>2. pc[p] = "trigger" => after[p] = NoTime \/ after[p] > held[p].slot
        BY DEF ForwardInv
      <3>3. QED
        BY <2>1, <3>1, <3>2, TriggerFrom
    <2>4. QED
      BY <1>1, <2>2, <2>3 DEF ForwardInv
  <1>4. QED
    BY <1>2, <1>3

(***************************************************************************)
(* Where the clocks do not go back, or no recurrence reads them, a         *)
(* schedule only moves forward: no slot comes up twice in a revision, and  *)
(* a reminder's job is of the slot it stands at (next_occurrence and       *)
(* trigger).                                                               *)
(***************************************************************************)
THEOREM SchedulesFit ==
    ASSUME Forward PROVE Spec => []ScheduleFits
  <1>1. Init => ForwardInv
    BY RemInit DEF Init, ForwardInv, SlotsAdvance, Threads
  <1>2. ForwardInv /\ [Next]_vars => ForwardInv'
    BY ForwardStep
  <1>3. ForwardInv => ScheduleFits
    BY DEF ForwardInv, RemInv, ScheduleFits
  <1>4. QED
    BY <1>1, <1>2, <1>3, PTL DEF Spec
=============================================================================
