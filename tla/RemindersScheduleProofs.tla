---------------------- MODULE RemindersScheduleProofs ----------------------
(***************************************************************************)
(* No schedule is lost and no job is left over: ScheduleKept and           *)
(* NothingLeftOver of Reminders, for one process with any number of        *)
(* callers and reminders, where next_run_at does not go back.  At the end, *)
(* MovesToFirstLater of Schedules: next_occurrence in every zone.          *)
(***************************************************************************)
EXTENDS RemindersProofs, Schedules

-----------------------------------------------------------------------------
(* The invariant.  p is the one process. *)

\* The situation the properties speak of.
Calm == faults = 0 /\ lives < Attempts /\ ~JobCancels

\* A time the schedule of a revision has not passed.
NotAhead(table, r, rev, slot) ==
    table[r].status = "active" /\ table[r].rev = rev => slot <= table[r].next

AheadFits ==
    /\ \A k \in DOMAIN jobs : NotAhead(rows, k.rem, k.rev, k.slot)
    /\ \A t \in Threads : seen[t] # NoCopy =>
          NotAhead(rows, seen[t].rem, seen[t].rev, seen[t].next)
    /\ \A p \in Procs : \A c \in todo[p] : NotAhead(rows, c.rem, c.rev, c.next)

\* The constructor is alone; a process is where its phase says.
PhaseFits(p) ==
    /\ phase[p] \in {"down", "starting"} => \A t \in Callers : pc[t] = "down"
    /\ pc[p] \in {"list", "next", "recover"} => phase[p] = "starting"
    /\ pc[p] \in InEnsure /\ held[p] = NoJob => phase[p] = "starting"
    /\ phase[p] = "starting" =>
          held[p] = NoJob /\ pc[p] \in {"list", "next", "recover"} \cup InEnsure
    /\ pc[p] = "recover" => todo[p] = {}
    /\ phase[p] = "closing" => lives > 0
    /\ pc[p] = "fail" => phase[p] = "closing"

\* The worker's job is RUNNING, and another RUNNING row is what a crash left.
HoldFits(p) ==
    /\ held[p] # NoJob => jobs[held[p]].status = "running"
    /\ \A k \in DOMAIN jobs : jobs[k].status = "running" =>
          held[p] = k \/ (lives > 0 /\ phase[p] \in {"down", "starting"})

\* An attempt that is over is one that a crash or close has ended, and a job
\* that is to be cancelled does not wait for another.
Tried(row, ph, n) ==
    /\ row.status # "waiting_approval"
    /\ row.status = "queued" => row.attempts <= n /\ ~row.cancel
    /\ row.status = "running" => row.attempts <= IF ph = "running" THEN n + 1 ELSE n

AttemptsFit(p) == \A k \in DOMAIN jobs : Tried(jobs[k], phase[p], lives)

Stale(k) == ~Current(k.rem, k.rev, k.slot)

\* No job ends, or is to end, before the schedule has left its slot.
StaleFits(p) ==
    /\ \A k \in DOMAIN jobs :
          jobs[k].status \in J!Terminal \/ jobs[k].cancel \/ k.copy # 0 => Stale(k)
    /\ \A t \in Threads :
          /\ pc[t] \in {"undo", "cancelOld"} => Stale(link[t].job)
          /\ pc[t] = "repair" =>
                KeyFor(seen[t], 0) \in DOMAIN jobs /\ Stale(KeyFor(seen[t], 0))
    /\ held[p] # NoJob /\ pc[p] \notin {"check", "read", "trigger"} => Stale(held[p])

\* Who sees to a job that has not ended.
Carries(t, k) ==
    /\ link[t].job = k
    /\ pc[t] = "cancelOld" \/ (pc[t] \in {"link", "undo"} /\ link[t].made)

Owned(p, k) ==
    rows[k.rem].job = k \/ held[p] = k \/ \E t \in Threads : Carries(t, k)

OwnersFit(p) ==
    lives = 0 => \A k \in DOMAIN jobs : jobs[k].status \notin J!Terminal => Owned(p, k)

\* Who sees to an active reminder without a job: a thread on its way to
\* _ensure_job with the present row, or the next reconcile.
FiredOf(p, r) ==
    /\ held[p] # NoJob /\ held[p].rem = r /\ held[p].rev = rows[r].rev
    /\ OccurrenceOf(held[p]) \in DOMAIN fired

Tends(p, t, r) ==
    /\ seen[t] # NoCopy /\ seen[t] = CopyOf(r, rows[r])
    /\ \/ pc[t] \in {"cancelOld", "enqueue", "link"}
       \/ t = p /\ pc[t] \in {"notify", "check2"} /\ FiredOf(p, r)

Covered(p, r) ==
    \/ phase[p] \in {"down", "closing"}
    \/ pc[p] = "list"
    \/ phase[p] = "starting" /\ CopyOf(r, rows[r]) \in todo[p]
    \/ \E t \in Threads : Tends(p, t, r)
    \/ CutShort(r)
    \/ pc[p] = "cancel" /\ FiredOf(p, r)

CoverFits(p) ==
    \A r \in Ids : Active(r) /\ rows[r].job = NoJob => Covered(p, r)

CalmInv(p) ==
    /\ ForwardInv
    /\ Calm => /\ AheadFits /\ PhaseFits(p) /\ HoldFits(p) /\ AttemptsFit(p)
               /\ StaleFits(p) /\ OwnersFit(p) /\ CoverFits(p)

-----------------------------------------------------------------------------
(* What a step may do to a thread, to a worker's job, to a job and to a    *)
(* reminder, in calm.                                                      *)

\* A step without a fault or a direct cancellation, of the one process p.
CalmStep(p) ==
    /\ p \in Procs /\ Procs = {p}
    /\ RemInv /\ Next /\ ~JobCancels /\ faults' = faults

Ends(p) == Exit(p) \/ Crash(p)

Rests(t) == pc'[t] = pc[t] /\ seen'[t] = seen[t] /\ link'[t] = link[t]

ThreadGoes(p, t) ==
    \/ Rests(t)
    \/ EnsureStep(t) \/ CancelOld(t) \/ EnqueueRefused(t)
    \/ t \in Callers /\ pc[t] = "idle"
    \/ t = p /\ (Startup(p) \/ WorkerStep(p))
    \/ Recover(p) \/ Ends(p)

HeldGoes(p) == held'[p] = held[p] \/ Claim(p) \/ Settle(p) \/ Ends(p)

PhaseGoes(p) ==
    \/ phase'[p] = phase[p] /\ lives' = lives
    \/ Boot(p) /\ lives' = lives
    \/ Recover(p) /\ lives' = lives
    \/ Close(p)
    \/ Exit(p)
    \/ Crash(p)

JobGoes(p, k) ==
    \/ jobs'[k] = jobs[k]
    \/ /\ jobs'[k] = J!RequestCancel(jobs[k])
       /\ \E t \in Threads : link[t].job = k /\ pc[t] \in {"undo", "cancelOld"}
    \/ /\ Claim(p) /\ J!Claimable(jobs[k]) /\ jobs'[k] = J!Claim(jobs[k])
       /\ held'[p] = k
    \/ jobs[k].status = "queued" /\ jobs'[k] = [jobs[k] EXCEPT !.due = TRUE]
    \/ Settle(p) /\ k = held[p] /\ jobs'[k] = Settlement(p)
    \/ Recover(p) /\ jobs'[k] = J!Recover(jobs[k], TRUE)

JobCome(k) ==
    /\ jobs'[k] = DeliveryJob(k)
    /\ \E t \in Threads :
          /\ (pc[t] = "enqueue" /\ k.copy = 0) \/ pc[t] = "repair"
          /\ k = KeyFor(seen[t], k.copy)
          /\ pc'[t] = "link" /\ link'[t] = [job |-> k, made |-> TRUE]

RowGoes(p, r) ==
    \/ rows'[r] = rows[r]
    \/ /\ ~Exists(r) /\ rows'[r].job = NoJob
       /\ \E t \in Callers : pc'[t] = "enqueue" /\ seen'[t] = CopyOf(r, rows'[r])
    \/ /\ Exists(r) /\ rows'[r].job = NoJob
       /\ \E t \in Callers :
             /\ pc[t] = "idle"
             /\ rows'[r].status = "active" =>
                   pc'[t] \in {"enqueue", "cancelOld"} /\ seen'[t] = CopyOf(r, rows'[r])
             /\ rows[r].job # NoJob => pc'[t] = "cancelOld" /\ link'[t].job = rows[r].job
    \/ \E t \in Threads :
          /\ pc[t] = "link" /\ seen[t].rem = r
          /\ Current(seen[t].rem, seen[t].rev, seen[t].next)
          /\ rows'[r].job = link[t].job /\ CopyOf(r, rows'[r]) = CopyOf(r, rows[r])
    \/ /\ Recorded(p) /\ r = held[p].rem /\ held'[p] = held[p]
       /\ rows'[r].rev = held[p].rev /\ rows'[r].job = NoJob
       /\ pc'[p] \in {"notify", "check2"} /\ seen'[p] = CopyOf(r, rows'[r])

LEMMA Alone ==
    ASSUME NEW p, CalmStep(p)
    PROVE  /\ p \in Threads /\ p \notin Callers /\ Threads = Callers \cup {p}
           /\ \A t \in Threads : HomeOf(t) = p
           /\ \A t \in Callers : t \in Threads
           /\ pc \in [Threads -> Pc] /\ seen \in [Threads -> Copy \cup {NoCopy}]
           /\ link \in [Threads -> LinkType]
  BY RemindersAssumption DEF CalmStep, Threads, HomeOf, RemInv, TypeOK, LinkType

CalmNext(p) ==
    \/ \E t \in Callers : CallerCalls(t) \/ CallerStep(t)
    \/ ProcessStep(p) \/ Close(p) \/ Exit(p) \/ Crash(p)
    \/ Tick
    \/ \E k \in DOMAIN jobs : BecomeDue(k)

LEMMA CalmSteps ==
    ASSUME NEW p, CalmStep(p)
    PROVE  CalmNext(p)
  <1>1. Next /\ Procs = {p} /\ faults' # faults + 1
    BY DEF CalmStep, RemInv, TypeOK
  <1>2. ASSUME \/ \E t \in Threads : CallFault(t)
               \/ \E q \in Procs : ClaimFault(q) \/ SettleFault(q)
        PROVE  FALSE
    BY <1>1, <1>2 DEF CallFault, ClaimFault, SettleFault, Fault
  <1>3. QED
    BY <1>1, <1>2 DEF Next, CalmNext

\* A thread rests while another one moves.
LEMMA OthersRest ==
    ASSUME NEW p, CalmStep(p), NEW t, NEW u, t # u, NEW l, NEW c, NEW j, Move(u, l, c, j),
           t \in Threads
    PROVE  Rests(t)
  BY Alone DEF Move, Rests

LEMMA ThreadWho ==
    ASSUME NEW p, CalmStep(p), NEW t \in Threads
    PROVE  ThreadGoes(p, t)
  <1>1. RemInv /\ Grown /\ Next /\ Procs = {p}
    BY GrownNext DEF CalmStep
  <1>2. ASSUME NEW u \in Threads, u # t, Steps(u) PROVE Rests(t)
    BY <1>1, <1>2, StepsFrame DEF Rests
  <1>3. ASSUME UNCHANGED thread PROVE Rests(t)
    BY <1>3 DEF thread, Rests
  <1>4. ASSUME NEW u \in Callers, CallerCalls(u) PROVE ThreadGoes(p, t)
    <2>1. pc[u] = "idle"
      BY <1>4 DEF CallerCalls, Create, CreateAgain, CancelReminder, Reschedule, Acknowledge,
         CancelJob, IdleCaller
    <2>2. UNCHANGED thread \/ Steps(u)
      BY <1>1, <1>4, CallerIs
    <2>3. QED
      BY <1>2, <1>3, <2>1, <2>2, Alone DEF ThreadGoes
  <1>5. ASSUME NEW u \in Callers, CallerStep(u) PROVE ThreadGoes(p, t)
    <2>1. UNCHANGED thread \/ Steps(u)
      BY <1>1, <1>5, CallerIs
    <2>2. QED
      BY <1>2, <1>3, <1>5, <2>1, Alone DEF ThreadGoes, CallerStep
  <1>6. ASSUME ProcessStep(p) PROVE ThreadGoes(p, t)
    <2>1. CASE Recover(p)
      BY <2>1 DEF ThreadGoes
    <2>2. CASE ProcessStep(p) /\ ~Recover(p)
      <3>1. Worked(p)
        BY <1>1, <2>2, CheckWorks, ReadWorks, TriggerWorks, NotifyWorks, ClaimWorks, SettleWorks,
           StartupWorks, EnsureWorks, FaultWorks DEF ProcessStep, Startup, WorkerStep
      <3>2. Steps(p)
        BY <3>1 DEF Worked
      <3>3. QED
        BY <1>2, <2>2, <3>2, Alone DEF ThreadGoes, ProcessStep
    <2>3. QED
      BY <1>6, <2>1, <2>2
  <1>7. ASSUME Close(p) PROVE Rests(t)
    BY <1>3, <1>7 DEF Close
  <1>8. ASSUME Exit(p) \/ Crash(p) PROVE Ends(p)
    BY <1>8 DEF Ends
  <1>9. ASSUME Tick \/ \E k \in DOMAIN jobs : BecomeDue(k) PROVE Rests(t)
    BY <1>3, <1>9 DEF Tick, BecomeDue
  <1>10. QED
    BY <1>4, <1>5, <1>6, <1>7, <1>8, <1>9, CalmSteps DEF CalmNext, ThreadGoes

LEMMA HeldWho ==
    ASSUME NEW p, CalmStep(p)
    PROVE  HeldGoes(p)
  BY CalmSteps DEF CalmNext, HeldGoes, Ends, CallerCalls, Create, CreateAgain, CancelReminder, Reschedule,
     Acknowledge, CancelJob, CallerStep, ProcessStep, EnsureStep, Enqueue, Repair, Link, Undo,
     CancelOld, EnqueueRefused, Raise, Startup, Boot, List, Reconcile, Recover, Serve,
     WorkerStep, Check, Read, Trigger, Notify, Close, Exit, Crash, Tick, BecomeDue, work

LEMMA PhaseWho ==
    ASSUME NEW p, CalmStep(p)
    PROVE  PhaseGoes(p)
  <1> DEFINE Same == phase'[p] = phase[p] /\ lives' = lives
  <1>1. ASSUME NEW t \in Callers, CallerCalls(t) \/ CallerStep(t) PROVE Same
    BY <1>1 DEF CallerCalls, Create, CreateAgain, CancelReminder, Reschedule, Acknowledge, CancelJob,
       CallerStep, EnsureStep, Enqueue, Repair, Link, Undo, CancelOld, EnqueueRefused, Raise, bounds
  <1>2. ASSUME EnsureStep(p) \/ EnqueueRefused(p) \/ WorkerStep(p) PROVE Same
    BY <1>2 DEF EnsureStep, Enqueue, Repair, Link, Undo, EnqueueRefused, Raise, WorkerStep, Claim, Check,
       Read, Trigger, Notify, Settle, bounds
  <1>3. ASSUME Startup(p) PROVE Same \/ (Boot(p) /\ lives' = lives) \/ (Recover(p) /\ lives' = lives)
    BY <1>3 DEF Startup, Boot, List, Reconcile, Recover, Serve, bounds
  <1>4. ASSUME Tick \/ \E k \in DOMAIN jobs : BecomeDue(k) PROVE Same
    BY <1>4 DEF Tick, BecomeDue, bounds
  <1>5. QED
    BY <1>1, <1>2, <1>3, <1>4, CalmSteps DEF CalmNext, ProcessStep, PhaseGoes

LEMMA JobsWho ==
    ASSUME NEW p, CalmStep(p)
    PROVE  /\ \A k \in DOMAIN jobs : JobGoes(p, k)
           /\ \A k \in DOMAIN jobs' \ DOMAIN jobs : JobCome(k)
  <1> DEFINE All == /\ \A k \in DOMAIN jobs : JobGoes(p, k)
                    /\ \A k \in DOMAIN jobs' \ DOMAIN jobs : JobCome(k)
  <1>1. RemInv /\ Next /\ p \in Procs /\ Procs = {p} /\ ~JobCancels
    BY DEF CalmStep
  <1>2. ASSUME UNCHANGED jobs PROVE All
    BY <1>2 DEF JobGoes
  <1>3. ASSUME NEW k \in DOMAIN jobs, NEW row, Put(k, row), jobs'[k] = row => JobGoes(p, k) PROVE All
    BY <1>3, PutIs DEF JobGoes
  <1>4. ASSUME NEW t \in Callers, CallerCalls(t) PROVE UNCHANGED jobs
    BY <1>1, <1>4 DEF CallerCalls, Create, CreateAgain, CancelReminder, Reschedule, Acknowledge,
       CancelJob, tables
  <1>5. ASSUME NEW t \in Threads, Undo(t) \/ CancelOld(t) PROVE All
    <2>1. /\ pc[t] \in {"undo", "cancelOld"} /\ link[t].job \in DOMAIN jobs
          /\ Put(link[t].job, J!RequestCancel(jobs[link[t].job]))
      BY <1>1, <1>5, MindThread DEF Undo, CancelOld, LinkPc
    <2>2. QED
      BY <1>3, <1>5, <2>1 DEF JobGoes
  <1>6. ASSUME NEW t \in Threads, NEW n \in Nat, pc[t] = "repair" \/ (pc[t] = "enqueue" /\ n = 0),
               KeyFor(seen[t], n) \notin DOMAIN jobs, Make(t, KeyFor(seen[t], n))
        PROVE  All
    <2> DEFINE k == KeyFor(seen[t], n)
    <2>1. k.copy = n
      BY DEF KeyFor
    <2>2. k = KeyFor(seen[t], k.copy) /\ k \notin DOMAIN jobs /\ Put(k, DeliveryJob(k))
          /\ Move(t, "link", seen[t], [job |-> k, made |-> TRUE])
      BY <1>6, <2>1 DEF Make
    <2>3. pc'[t] = "link" /\ link'[t] = [job |-> k, made |-> TRUE]
      BY <2>2, Alone DEF Move
    <2> HIDE DEF k
    <2>4. DOMAIN jobs' = DOMAIN jobs \cup {k} /\ jobs'[k] = DeliveryJob(k)
          /\ \A i \in DOMAIN jobs : jobs'[i] = jobs[i]
      BY <2>2, PutIs
    <2>5. JobCome(k)
      BY <1>6, <2>1, <2>2, <2>3, <2>4 DEF JobCome
    <2>6. QED
      BY <2>4, <2>5 DEF JobGoes
  <1>7. ASSUME NEW t \in Threads, EnsureStep(t) \/ EnqueueRefused(t) PROVE All
    <2>1. CASE Enqueue(t)
      <3>1. /\ pc[t] = "enqueue"
            /\ \/ UNCHANGED jobs
               \/ KeyFor(seen[t], 0) \notin DOMAIN jobs /\ Make(t, KeyFor(seen[t], 0))
        BY <2>1 DEF Enqueue
      <3>2. QED
        BY <1>2, <1>6, <3>1
    <2>2. CASE Repair(t)
      <3>1. pc[t] = "repair" /\ Make(t, KeyFor(seen[t], Unused(seen[t])))
        BY <2>2 DEF Repair
      <3>2. seen[t] \in Copy /\ IsFiniteSet(DOMAIN jobs)
        BY <1>1, <3>1, MindThread DEF CopyPc, RemInv
      <3>3. Unused(seen[t]) \in Nat /\ KeyFor(seen[t], Unused(seen[t])) \notin DOMAIN jobs
        BY <3>2, UnusedIs
      <3>4. QED
        BY <1>6, <3>1, <3>3
    <2>3. CASE Link(t) \/ EnqueueRefused(t)
      BY <1>2, <2>3 DEF Link, EnqueueRefused, Raise, tables
    <2>4. QED
      BY <1>5, <1>7, <2>1, <2>2, <2>3 DEF EnsureStep
  <1>8. ASSUME WorkerStep(p) PROVE All
    <2>1. CASE Claim(p)
      <3>1. PICK k \in DOMAIN jobs :
              J!Claimable(jobs[k]) /\ Put(k, J!Claim(jobs[k])) /\ held' = [held EXCEPT ![p] = k]
        BY <2>1 DEF Claim
      <3>2. held'[p] = k
        BY <1>1, <3>1, ProcIs
      <3>3. QED
        BY <1>3, <2>1, <3>1, <3>2 DEF JobGoes
    <2>2. CASE Settle(p)
      <3>1. held[p] \in DOMAIN jobs /\ Put(held[p], Settlement(p))
        BY <1>1, <2>2, WorkerJob DEF Settle, JobPc
      <3>2. QED
        BY <1>3, <2>2, <3>1 DEF JobGoes
    <2>3. CASE Check(p) \/ Read(p) \/ Trigger(p) \/ Notify(p)
      BY <1>2, <2>3 DEF Check, Read, Trigger, Notify, tables
    <2>4. QED
      BY <1>8, <2>1, <2>2, <2>3 DEF WorkerStep
  <1>9. ASSUME Recover(p) PROVE All
    <2>1. DOMAIN jobs' = DOMAIN jobs
          /\ \A k \in DOMAIN jobs : jobs'[k] \in {jobs[k], J!Recover(jobs[k], TRUE)}
      BY <1>9 DEF Recover
    <2>2. QED
      BY <1>9, <2>1 DEF JobGoes
  <1>10. ASSUME Boot(p) \/ List(p) \/ Reconcile(p) \/ Close(p) \/ Exit(p) \/ Crash(p) \/ Tick PROVE UNCHANGED jobs
    BY <1>10 DEF Boot, List, Reconcile, Close, Exit, Crash, End, Tick, tables
  <1>11. ASSUME NEW k \in DOMAIN jobs, BecomeDue(k) PROVE All
    <2>1. Put(k, [jobs[k] EXCEPT !.due = TRUE]) /\ jobs[k].status = "queued"
      BY <1>11 DEF BecomeDue
    <2>2. QED
      BY <1>3, <2>1 DEF JobGoes
  <1>12. p \in Threads /\ \A t \in Callers : t \in Threads
    BY Alone
  <1> HIDE DEF All
  <1>13. ASSUME NEW t \in Callers, CallerCalls(t) \/ CallerStep(t) PROVE All
    BY <1>2, <1>4, <1>5, <1>7, <1>12, <1>13 DEF CallerStep
  <1>14. ASSUME ProcessStep(p) \/ Close(p) \/ Exit(p) \/ Crash(p) PROVE All
    BY <1>2, <1>7, <1>8, <1>9, <1>10, <1>12, <1>14 DEF ProcessStep, Startup
  <1>15. All
    BY <1>2, <1>10, <1>11, <1>13, <1>14, CalmSteps DEF CalmNext
  <1>16. QED
    BY <1>15 DEF All

LEMMA RowsWho ==
    ASSUME NEW p, CalmStep(p)
    PROVE  \A r \in Ids : RowGoes(p, r)
  <1> DEFINE All == \A r \in Ids : RowGoes(p, r)
  <1>1. /\ RemInv /\ p \in Procs /\ rows \in [Ids -> Reminder \cup {Absent}]
        /\ \A t \in Callers : t \in Threads
    BY Alone DEF CalmStep, RemInv, TypeOK
  <1>2. ASSUME UNCHANGED rows PROVE All
    BY <1>2 DEF RowGoes
  <1>3. ASSUME NEW x \in Ids, NEW row, rows' = [rows EXCEPT ![x] = row], rows'[x] = row => RowGoes(p, x)
        PROVE  All
    BY <1>1, <1>3 DEF RowGoes
  <1>4. ASSUME NEW t \in Callers, NEW x \in Ids, Create(t, x) PROVE All
    <2>1. PICK slot \in Slots, rec \in Recurrences :
            /\ rows' = [rows EXCEPT ![x] = NewReminder(slot, rec)]
            /\ Ensure(t, CopyOf(x, NewReminder(slot, rec)))
      BY <1>4 DEF Create
    <2> DEFINE row == NewReminder(slot, rec)
    <2>2. row \in Reminder /\ row.job = NoJob /\ row.status = "active"
      BY NewReminderIs
    <2> HIDE DEF row
    <2>3. CopyOf(x, row).status = "active"
      BY <2>2, CopyIs
    <2>4. pc'[t] = "enqueue" /\ seen'[t] = CopyOf(x, row)
      BY <1>1, <2>1, <2>3, Alone DEF Ensure, Move, row
    <2>5. rows' = [rows EXCEPT ![x] = row]
      BY <2>1 DEF row
    <2>6. rows'[x] = row => RowGoes(p, x)
      BY <1>4, <2>2, <2>4 DEF Create, RowGoes
    <2>7. QED
      BY <1>3, <2>5, <2>6
  <1>5. ASSUME NEW t \in Callers, NEW x \in Ids, CancelReminder(t, x) \/ Reschedule(t, x) PROVE All
    <2>1. PICK row \in Reminder : Replace(t, x, row)
      BY <1>1, <1>5, ReplaceIs
    <2>2. rows' = [rows EXCEPT ![x] = row] /\ rows'[x] = row
      BY <1>1, <2>1 DEF Replace
    <2>3. Exists(x) /\ row.job = NoJob /\ pc[t] = "idle"
      <3>1. Replaced(x)
        BY <1>1, <1>5, ReplaceIs
      <3>2. Exists(x) /\ rows'[x].job = NoJob
        BY <1>1, <3>1 DEF Replaced
      <3>3. QED
        BY <1>5, <2>2, <3>2 DEF CancelReminder, Reschedule, IdleCaller
    <2>4. CopyOf(x, row).status = row.status
      BY CopyIs
    <2>5. CASE rows[x].job = NoJob
      <3>1. Ensure(t, CopyOf(x, row))
        BY <2>1, <2>5 DEF Replace
      <3>2. row.status = "active" => pc'[t] = "enqueue" /\ seen'[t] = CopyOf(x, row)
        BY <1>1, <2>4, <3>1, Alone DEF Ensure, Move
      <3>3. RowGoes(p, x)
        BY <2>2, <2>3, <2>5, <3>2 DEF RowGoes
      <3>4. QED
        BY <1>3, <2>2, <3>3
    <2>6. CASE rows[x].job # NoJob
      <3>1. Move(t, "cancelOld", CopyOf(x, row), [job |-> rows[x].job, made |-> FALSE])
        BY <2>1, <2>6 DEF Replace
      <3>2. pc'[t] = "cancelOld" /\ seen'[t] = CopyOf(x, row) /\ link'[t].job = rows[x].job
        BY <1>1, <3>1, Alone DEF Move
      <3>3. RowGoes(p, x)
        BY <2>2, <2>3, <3>2 DEF RowGoes
      <3>4. QED
        BY <1>3, <2>2, <3>3
    <2>7. QED
      BY <2>5, <2>6
  <1>6. ASSUME NEW t \in Threads, Link(t) PROVE All
    <2>1. CASE UNCHANGED rows
      BY <1>2, <2>1
    <2>2. CASE /\ Current(seen[t].rem, seen[t].rev, seen[t].next)
               /\ rows' = [rows EXCEPT ![seen[t].rem].job = link[t].job]
      <3> DEFINE x == seen[t].rem
                 row == [rows[x] EXCEPT !.job = link[t].job]
      <3>1. pc[t] = "link" /\ seen[t] \in Copy /\ link[t].job \in Key
        BY <1>1, <1>6, MindThread DEF Link, CopyPc, LinkPc
      <3>2. x \in Ids /\ rows[x] \in Reminder
        BY <1>1, <2>2, <3>1 DEF Copy, Current, Absent
      <3>3. row.job = link[t].job /\ row.status = rows[x].status /\ row.rev = rows[x].rev
            /\ row.rec = rows[x].rec /\ row.next = rows[x].next
        BY <3>1, <3>2, LinkedIs
      <3>4. rows' = [rows EXCEPT ![x] = row]
        BY <2>2
      <3> HIDE DEF row
      <3>5. CopyOf(x, row) = CopyOf(x, rows[x])
        BY <3>3 DEF CopyOf
      <3>6. rows'[x] = row => RowGoes(p, x)
        BY <2>2, <3>1, <3>3, <3>5 DEF RowGoes
      <3> HIDE DEF x
      <3>7. QED
        BY <1>3, <3>2, <3>4, <3>6
    <2>3. QED
      BY <1>6, <2>1, <2>2 DEF Link
  <1>7. ASSUME Trigger(p) PROVE All
    <2>1. CASE Skip(p, held[p])
      BY <1>2, <2>1 DEF Skip
    <2>2. CASE Recorded(p)
      <3>1. PICK row : /\ Delivered(p, row) /\ rows' = [rows EXCEPT ![held[p].rem] = row]
                       /\ Move(p, IF OccurrenceOf(held[p]) \in DOMAIN fired THEN "check2" ELSE "notify",
                               CopyOf(held[p].rem, row), NoLink)
        BY <1>1, <2>2, RecordIs
      <3>2. held[p].rem \in Ids /\ rows'[held[p].rem] = row
        BY <1>1, <2>2, <3>1, RecordIs, HeldIs
      <3>3. pc'[p] \in {"notify", "check2"} /\ seen'[p] = CopyOf(held[p].rem, row)
        BY <3>1, Alone DEF Move
      <3>4. held' = held /\ row.rev = held[p].rev /\ row.job = NoJob
        BY <1>7, <3>1 DEF Trigger, work, Delivered
      <3>5. RowGoes(p, held[p].rem)
        BY <2>2, <3>2, <3>3, <3>4 DEF RowGoes
      <3>6. QED
        BY <1>3, <3>1, <3>2, <3>5
    <2>3. QED
      BY <1>7, <2>1, <2>2 DEF Trigger, Recorded
  <1>8. ASSUME \/ \E t \in Callers : \/ \E r \in Ids : CreateAgain(t, r)
                                     \/ \E o \in DOMAIN fired : Acknowledge(t, o)
                                     \/ \E k \in DOMAIN jobs : CancelJob(t, k)
                                     \/ CancelOld(t)
               \/ Tick
               \/ \E k \in DOMAIN jobs : BecomeDue(k)
        PROVE  UNCHANGED rows
    BY <1>8 DEF CreateAgain, Acknowledge, CancelJob, CancelOld, Tick, BecomeDue, tables
  <1>9. ASSUME NEW t \in Threads, Enqueue(t) \/ Repair(t) \/ Undo(t) \/ EnqueueRefused(t)
        PROVE  UNCHANGED rows
    BY <1>9 DEF Enqueue, Repair, Undo, EnqueueRefused, Raise, tables
  <1>10. ASSUME \/ Claim(p) \/ Check(p) \/ Read(p) \/ Notify(p) \/ Settle(p) \/ Startup(p)
                \/ Close(p) \/ Exit(p) \/ Crash(p)
         PROVE  UNCHANGED rows
    BY <1>10 DEF Claim, Check, Read, Notify, Settle, Startup, Boot, List, Reconcile, Recover, Serve,
       Close, Exit, Crash, End, tables
  <1> HIDE DEF All
  <1>11. ASSUME NEW t \in Threads, EnsureStep(t) \/ EnqueueRefused(t) PROVE All
    BY <1>2, <1>6, <1>9, <1>11 DEF EnsureStep
  <1>12. ASSUME NEW t \in Callers, CallerCalls(t) PROVE All
    BY <1>2, <1>4, <1>5, <1>8, <1>12 DEF CallerCalls
  <1>13. ASSUME NEW t \in Callers, CallerStep(t) PROVE All
    BY <1>1, <1>2, <1>8, <1>11, <1>13 DEF CallerStep
  <1>14. ASSUME ProcessStep(p) \/ Close(p) \/ Exit(p) \/ Crash(p) PROVE All
    BY <1>2, <1>7, <1>10, <1>11, <1>14, Alone DEF ProcessStep, WorkerStep
  <1>15. All
    BY <1>2, <1>8, <1>12, <1>13, <1>14, CalmSteps DEF CalmNext
  <1>16. QED
    BY <1>15 DEF All

\* What a thread has in mind after a step: as before, the row as it is, or
\* what the constructor took from its list.
SeenGoes(p, t) ==
    \/ seen'[t] = seen[t]
    \/ seen'[t] = NoCopy
    \/ \E r \in Ids : seen'[t] = CopyOf(r, rows'[r])
    \/ t = p /\ seen'[t] \in todo[p]

LEMMA SeenWho ==
    ASSUME NEW p, CalmStep(p), NEW t \in Threads
    PROVE  SeenGoes(p, t)
  <1>1. RemInv /\ p \in Procs /\ seen \in [Threads -> Copy \cup {NoCopy}]
    BY Alone DEF CalmStep
  <1>2. ASSUME NEW u, NEW l, NEW c, NEW j, Move(u, l, c, j), c = seen[u] \/ c = NoCopy
        PROVE  SeenGoes(p, t)
    BY <1>1, <1>2 DEF Move, SeenGoes
  <1>3. ASSUME NEW u, NEW c, Ensure(u, c), c = seen[u] PROVE SeenGoes(p, t)
    BY <1>2, <1>3 DEF Ensure, Done
  <1>4. ASSUME NEW u, NEW r \in Ids, Ensure(u, CopyOf(r, rows'[r])) PROVE SeenGoes(p, t)
    BY <1>1, <1>4 DEF Ensure, Done, Move, SeenGoes
  <1>5. ASSUME NEW u, NEW r \in Ids, NEW l, NEW j, Move(u, l, CopyOf(r, rows'[r]), j)
        PROVE  SeenGoes(p, t)
    BY <1>1, <1>5 DEF Move, SeenGoes
  <1>6. ASSUME UNCHANGED seen PROVE SeenGoes(p, t)
    BY <1>6 DEF SeenGoes
  <1>7. ASSUME NEW u \in Callers, NEW r \in Ids, \/ Create(u, r) \/ CreateAgain(u, r)
                                                 \/ CancelReminder(u, r) \/ Reschedule(u, r)
        PROVE  SeenGoes(p, t)
    <2>1. rows \in [Ids -> Reminder \cup {Absent}]
      BY <1>1 DEF RemInv, TypeOK
    <2>2. CASE Create(u, r)
      <3>1. PICK row : rows' = [rows EXCEPT ![r] = row] /\ Ensure(u, CopyOf(r, row))
        BY <2>2 DEF Create
      <3>2. rows'[r] = row
        BY <2>1, <3>1
      <3>3. QED
        BY <1>4, <3>1, <3>2
    <2>3. CASE CreateAgain(u, r)
      BY <1>4, <2>3 DEF CreateAgain, tables
    <2>4. CASE CancelReminder(u, r) \/ Reschedule(u, r)
      <3>1. PICK row \in Reminder : Replace(u, r, row)
        BY <1>1, <2>4, ReplaceIs
      <3>2. rows'[r] = row
        BY <2>1, <3>1 DEF Replace
      <3>3. QED
        BY <1>4, <1>5, <3>1, <3>2 DEF Replace
    <2>5. QED
      BY <1>7, <2>2, <2>3, <2>4
  <1>8. ASSUME NEW u \in Threads, EnsureStep(u) \/ EnqueueRefused(u) \/ CancelOld(u) PROVE SeenGoes(p, t)
    BY <1>2, <1>3, <1>8 DEF EnsureStep, Enqueue, Repair, Link, Undo, Make, Done, EnqueueRefused, Raise, CancelOld
  <1>9. ASSUME Read(p) PROVE SeenGoes(p, t)
    <2>1. rows' = rows /\ held[p].rem \in Ids
      BY <1>1, <1>9, ProcIs, HeldIs DEF Read, tables, JobPc
    <2>2. \/ Move(p, "trigger", CopyOf(held[p].rem, rows[held[p].rem]), NoLink)
          \/ Ensure(p, CopyOf(held[p].rem, rows[held[p].rem]))
      BY <1>9 DEF Read
    <2>3. QED
      BY <1>4, <1>5, <2>1, <2>2
  <1>10. ASSUME Trigger(p) PROVE SeenGoes(p, t)
    <2>1. held[p].rem \in Ids
      BY <1>1, <1>10, ProcIs, HeldIs DEF Trigger, JobPc
    <2>2. CASE Skip(p, held[p])
      BY <1>5, <2>1, <2>2 DEF Skip
    <2>3. CASE Recorded(p)
      <3>1. PICK row : /\ rows' = [rows EXCEPT ![held[p].rem] = row]
                       /\ Move(p, IF OccurrenceOf(held[p]) \in DOMAIN fired THEN "check2" ELSE "notify",
                               CopyOf(held[p].rem, row), NoLink)
        BY <1>1, <2>3, RecordIs
      <3>2. rows'[held[p].rem] = row
        BY <1>1, <2>1, <3>1 DEF RemInv, TypeOK
      <3>3. QED
        BY <1>5, <2>1, <3>1, <3>2
    <2>4. QED
      BY <1>10, <2>2, <2>3 DEF Trigger, Recorded
  <1>11. ASSUME Claim(p) \/ Check(p) \/ Notify(p) \/ Settle(p) PROVE SeenGoes(p, t)
    BY <1>2, <1>3, <1>11 DEF Claim, Check, Notify, Settle, Goto, Release
  <1>12. ASSUME Startup(p) PROVE SeenGoes(p, t)
    <2>1. ASSUME NEW c \in todo[p], Ensure(p, c) PROVE SeenGoes(p, t)
      BY <1>1, <2>1 DEF Ensure, Done, Move, SeenGoes
    <2>2. QED
      BY <1>2, <1>6, <1>12, <2>1 DEF Startup, Boot, List, Reconcile, Recover, Serve, Goto
  <1>13. ASSUME Exit(p) \/ Crash(p) PROVE SeenGoes(p, t)
    BY <1>13 DEF Exit, Crash, End, SeenGoes
  <1>14. ASSUME \/ Close(p) \/ Tick
                \/ \E k \in DOMAIN jobs : BecomeDue(k) \/ \E u \in Callers : CancelJob(u, k)
                \/ \E o \in DOMAIN fired : \E u \in Callers : Acknowledge(u, o)
         PROVE  UNCHANGED seen
    BY <1>14 DEF Close, Tick, BecomeDue, CancelJob, Acknowledge, thread
  <1>15. ASSUME NEW u \in Callers, CallerCalls(u) \/ CallerStep(u) PROVE SeenGoes(p, t)
    BY <1>6, <1>7, <1>8, <1>14, <1>15, Alone DEF CallerCalls, CallerStep
  <1>16. ASSUME ProcessStep(p) \/ Close(p) \/ Exit(p) \/ Crash(p) PROVE SeenGoes(p, t)
    BY <1>6, <1>8, <1>9, <1>10, <1>11, <1>12, <1>13, <1>14, <1>16, Alone DEF ProcessStep, WorkerStep
  <1>17. QED
    BY <1>6, <1>14, <1>15, <1>16, CalmSteps DEF CalmNext

-----------------------------------------------------------------------------
(* Schedules only move on. *)

\* The schedule of a reminder stays where it is, ends, begins anew or goes on.
MovesOn(r) ==
    \/ /\ rows'[r].status = rows[r].status /\ rows'[r].rev = rows[r].rev
       /\ rows'[r].next = rows[r].next
    \/ ~Exists(r)
    \/ rows'[r].status # "active"
    \/ rows'[r].rev = rows[r].rev + 1
    \/ /\ rows[r].status = "active" /\ rows'[r].rev = rows[r].rev
       /\ rows'[r].next \in Int /\ rows'[r].next > rows[r].next

LEMMA AllMoveOn ==
    ASSUME ForwardInv, TablesMove, NEW r \in Ids
    PROVE  MovesOn(r)
  <1>1. RemInv /\ rows \in [Ids -> Reminder \cup {Absent}]
    BY DEF ForwardInv, RemInv, TypeOK
  <1>2. CASE rows'[r] = rows[r]
    BY <1>2 DEF MovesOn
  <1>3. ASSUME NEW x \in Ids, NEW row, rows' = [rows EXCEPT ![x] = row], row = rows'[x] => MovesOn(x)
        PROVE  MovesOn(r)
    BY <1>1, <1>2, <1>3
  <1>4. ASSUME NEW x \in Ids, Made(x) PROVE MovesOn(r)
    BY <1>3, <1>4 DEF Made, MovesOn
  <1>5. ASSUME NEW x \in Ids, Replaced(x) PROVE MovesOn(r)
    <2>1. PICK row \in Reminder :
            /\ rows' = [rows EXCEPT ![x] = row]
            /\ row.status = "cancelled" \/ row.rev = rows[x].rev + 1
      BY <1>5 DEF Replaced
    <2>2. QED
      BY <1>3, <2>1 DEF MovesOn
  <1>6. ASSUME NEW x \in Ids, Linked(x) PROVE MovesOn(r)
    <2>1. PICK k \in DOMAIN jobs : rows' = [rows EXCEPT ![x].job = k]
      BY <1>6 DEF Linked
    <2>2. k \in Key /\ rows[x] \in Reminder
      BY <1>1, <1>6 DEF RemInv, TypeOK, Linked, Active, Absent
    <2> DEFINE row == [rows[x] EXCEPT !.job = k]
    <2>3. row.status = rows[x].status /\ row.rev = rows[x].rev /\ row.next = rows[x].next
      BY <2>2, LinkedIs
    <2>4. rows' = [rows EXCEPT ![x] = row]
      BY <2>1
    <2> HIDE DEF row
    <2>5. QED
      BY <1>3, <2>3, <2>4 DEF MovesOn
  <1>7. ASSUME NEW p \in Procs, Recorded(p) PROVE MovesOn(r)
    <2> DEFINE x == held[p].rem
    <2>1. /\ held[p] # NoJob /\ rows[x].status = "active" /\ rows[x].rev = held[p].rev
          /\ rows[x].next = held[p].slot
      BY <1>1, <1>7, RecordIs DEF Active
    <2>2. PICK row : Delivered(p, row) /\ rows' = [rows EXCEPT ![x] = row]
      BY <1>1, <1>7, RecordIs
    <2>3. x \in Ids /\ after[p] \in Int
      BY <1>1, <2>1, HeldIs, ProcIs
    <2>4. after[p] # NoTime => after[p] > held[p].slot
      BY <1>7 DEF ForwardInv, Recorded
    <2>5. row.rev = held[p].rev /\ (row.status = "active" => row.next = after[p] /\ after[p] # NoTime)
      BY <2>2 DEF Delivered
    <2> HIDE DEF x
    <2>6. row = rows'[x] => MovesOn(x)
      BY <2>1, <2>3, <2>4, <2>5 DEF MovesOn
    <2>7. QED
      BY <1>3, <2>2, <2>3, <2>6
  <1>8. QED
    BY <1>2, <1>4, <1>5, <1>6, <1>7 DEF TablesMove, Acked, Told

\* What a schedule has left stays behind it.
LEMMA AheadGo ==
    ASSUME RemInv, NEW r \in Ids, MovesOn(r), NEW v \in Nat, NEW s \in Int,
           Known(rows, r, v), NotAhead(rows, r, v, s)
    PROVE  /\ NotAhead(rows', r, v, s)
           /\ ~Current(r, v, s) => ~Current(r, v, s)'
  <1>1. rows[r].rev \in Nat /\ rows[r].next \in Int /\ Exists(r) /\ v <= rows[r].rev
    BY RowIs DEF RemInv, Known, Exists
  <1>2. CASE /\ rows'[r].status = rows[r].status /\ rows'[r].rev = rows[r].rev
             /\ rows'[r].next = rows[r].next
    BY <1>2 DEF NotAhead, Current
  <1>3. CASE rows'[r].status # "active"
    BY <1>3 DEF NotAhead, Current
  <1>4. CASE rows'[r].rev = rows[r].rev + 1
    <2>1. rows'[r].rev # v
      BY <1>1, <1>4
    <2>2. QED
      BY <2>1 DEF NotAhead, Current
  <1>5. CASE /\ rows[r].status = "active" /\ rows'[r].rev = rows[r].rev
             /\ rows'[r].next \in Int /\ rows'[r].next > rows[r].next
    <2>1. rows'[r].rev = v => s < rows'[r].next
      BY <1>1, <1>5 DEF NotAhead
    <2>2. rows'[r].rev = v => s <= rows'[r].next /\ s # rows'[r].next
      BY <1>5, <2>1
    <2>3. QED
      BY <2>2 DEF NotAhead, Current
  <1>6. QED
    BY <1>1, <1>2, <1>3, <1>4, <1>5 DEF MovesOn

\* A job out of date stays so.
LEMMA StaleGo ==
    ASSUME RemInv, AheadFits, \A r \in Ids : MovesOn(r), NEW k \in DOMAIN jobs
    PROVE  /\ NotAhead(rows', k.rem, k.rev, k.slot)
           /\ Stale(k) => Stale(k)'
  <1>1. k \in Key /\ Known(rows, k.rem, k.rev) /\ NotAhead(rows, k.rem, k.rev, k.slot)
    BY DEF RemInv, TypeOK, RefsFit, AheadFits
  <1>2. k.rem \in Ids /\ k.rev \in Nat /\ k.slot \in Int
    BY <1>1 DEF Key
  <1>3. QED
    BY <1>1, <1>2, AheadGo DEF Stale

LEMMA TodoWho ==
    ASSUME NEW p, CalmStep(p)
    PROVE  \/ todo'[p] = todo[p]
           \/ todo'[p] = {} /\ (Exit(p) \/ Crash(p))
           \/ \E c \in todo[p] : pc[p] = "next" /\ todo'[p] = todo[p] \ {c} /\ Ensure(p, c)
           \/ List(p) /\ todo'[p] = {CopyOf(r, rows[r]) : r \in {x \in Ids : rows[x].status = "active"}}
  <1> DEFINE Out == \/ todo'[p] = todo[p]
                    \/ todo'[p] = {} /\ (Exit(p) \/ Crash(p))
                    \/ \E c \in todo[p] : pc[p] = "next" /\ todo'[p] = todo[p] \ {c} /\ Ensure(p, c)
                    \/ List(p) /\ todo'[p] = {CopyOf(r, rows[r]) : r \in {x \in Ids : rows[x].status = "active"}}
  <1>1. todo \in [Procs -> SUBSET Copy] /\ p \in Procs
    BY DEF CalmStep, RemInv, TypeOK
  <1>2. CASE List(p)
    BY <1>1, <1>2 DEF List
  <1>3. CASE Reconcile(p)
    BY <1>1, <1>3 DEF Reconcile
  <1>4. CASE Exit(p) \/ Crash(p)
    BY <1>1, <1>4 DEF Exit, Crash, End
  <1> HIDE DEF Out
  <1>5. ASSUME UNCHANGED todo PROVE Out
    BY <1>5 DEF Out
  <1>6. ASSUME NEW t \in Callers, CallerCalls(t) \/ CallerStep(t) PROVE UNCHANGED todo
    BY <1>6 DEF CallerCalls, Create, CreateAgain, CancelReminder, Reschedule, Acknowledge, CancelJob,
       CallerStep, EnsureStep, Enqueue, Repair, Link, Undo, CancelOld, EnqueueRefused, Raise, work
  <1>7. ASSUME EnsureStep(p) \/ EnqueueRefused(p) \/ WorkerStep(p) PROVE UNCHANGED todo
    BY <1>7 DEF EnsureStep, Enqueue, Repair, Link, Undo, EnqueueRefused, Raise, WorkerStep, Claim, Check,
       Read, Trigger, Notify, Settle, work
  <1>8. ASSUME Boot(p) \/ Recover(p) \/ Close(p) \/ Tick \/ \E k \in DOMAIN jobs : BecomeDue(k)
        PROVE  UNCHANGED todo
    BY <1>8 DEF Boot, Recover, Serve, Close, Tick, BecomeDue, work
  <1>9. Out
    BY <1>2, <1>3, <1>4, <1>5, <1>6, <1>7, <1>8, CalmSteps DEF CalmNext, ProcessStep, Startup, Out
  <1>10. QED
    BY <1>9 DEF Out

\* The facts the parts of the invariant go by.
LEMMA CalmFacts ==
    ASSUME NEW p, CalmStep(p), ForwardInv, AheadFits
    PROVE  /\ RemInv /\ RemInv' /\ Grown /\ TablesMove
           /\ \A r \in Ids : MovesOn(r)
           /\ \A k \in DOMAIN jobs : k \in DOMAIN jobs' /\ k \in Key /\ k # NoJob
           /\ \A k \in DOMAIN jobs : Stale(k) => Stale(k)'
  <1>1. RemInv /\ Next
    BY DEF CalmStep
  <1>2. TablesMove /\ Grown /\ RemInv'
    BY <1>1, TablesStep, GrownNext, RemNext
  <1>3. \A r \in Ids : MovesOn(r)
    BY <1>2, AllMoveOn
  <1>4. DOMAIN jobs \subseteq Key /\ DOMAIN jobs \subseteq DOMAIN jobs'
    BY <1>1, <1>2 DEF RemInv, TypeOK, Grown
  <1>5. QED
    BY <1>1, <1>2, <1>3, <1>4, StaleGo, NoThings

LEMMA AheadNext ==
    ASSUME NEW p, CalmStep(p), ForwardInv, AheadFits
    PROVE  AheadFits'
  <1>1. /\ RemInv /\ RemInv' /\ \A r \in Ids : MovesOn(r)
        /\ p \in Procs /\ Procs = {p}
    BY CalmFacts DEF CalmStep
  <1>2. ASSUME NEW c \in Copy, Known(rows, c.rem, c.rev), NotAhead(rows, c.rem, c.rev, c.next)
        PROVE  NotAhead(rows', c.rem, c.rev, c.next)
    BY <1>1, <1>2, AheadGo DEF Copy
  <1>3. ASSUME NEW r \in Ids
        PROVE  NotAhead(rows', CopyOf(r, rows'[r]).rem, CopyOf(r, rows'[r]).rev, CopyOf(r, rows'[r]).next)
    <2>1. rows'[r].status = "active" => rows'[r].next \in Int
      BY <1>1 DEF RemInv, TypeOK, Reminder, Absent
    <2>2. QED
      BY <2>1 DEF NotAhead, CopyOf
  <1>4. ASSUME NEW t \in Threads, seen[t] # NoCopy
        PROVE  seen[t] \in Copy /\ NotAhead(rows', seen[t].rem, seen[t].rev, seen[t].next)
    BY <1>1, <1>2, <1>4, MindThread DEF Mind, AheadFits
  <1>5. ASSUME NEW c \in todo[p]
        PROVE  NotAhead(rows', c.rem, c.rev, c.next)
    <2>1. c \in Copy /\ Known(rows, c.rem, c.rev)
      BY <1>1, <1>5 DEF RemInv, TypeOK, ThreadsFit, ProcFit
    <2>2. QED
      BY <1>1, <1>2, <1>5, <2>1 DEF AheadFits
  <1>6. ASSUME NEW k \in DOMAIN jobs' PROVE NotAhead(rows', k.rem, k.rev, k.slot)
    <2>1. CASE k \in DOMAIN jobs
      BY <1>1, <2>1, StaleGo
    <2>2. CASE k \notin DOMAIN jobs
      <3>1. PICK t \in Threads : pc[t] \in {"enqueue", "repair"} /\ k = KeyFor(seen[t], k.copy)
        BY <2>2, JobsWho DEF JobCome
      <3>2. seen[t] # NoCopy
        BY <1>1, <3>1, MindThread, NoThings DEF CopyPc
      <3>3. k.rem = seen[t].rem /\ k.rev = seen[t].rev /\ k.slot = seen[t].next
        BY <3>1 DEF KeyFor
      <3>4. QED
        BY <1>4, <3>2, <3>3
    <2>3. QED
      BY <2>1, <2>2
  <1>7. ASSUME NEW t \in Threads, seen'[t] # NoCopy
        PROVE  NotAhead(rows', seen'[t].rem, seen'[t].rev, seen'[t].next)
    BY <1>3, <1>4, <1>5, <1>7, SeenWho DEF SeenGoes
  <1>8. ASSUME NEW c \in todo'[p] PROVE NotAhead(rows', c.rem, c.rev, c.next)
    <2>1. CASE c \in todo[p]
      BY <1>5, <2>1
    <2>2. CASE c \notin todo[p]
      <3>1. List(p) /\ c \in {CopyOf(r, rows[r]) : r \in {x \in Ids : rows[x].status = "active"}}
        BY <1>8, <2>2, TodoWho
      <3>2. UNCHANGED rows
        BY <3>1 DEF List, tables
      <3>3. QED
        BY <1>3, <3>1, <3>2
    <2>3. QED
      BY <2>1, <2>2
  <1>9. QED
    BY <1>1, <1>6, <1>7, <1>8 DEF AheadFits

-----------------------------------------------------------------------------
(* Where the process and its callers are. *)

\* What concerns the process stays as it is.
ProcessRests(p) ==
    /\ Rests(p) /\ phase'[p] = phase[p] /\ lives' = lives
    /\ held'[p] = held[p] /\ todo'[p] = todo[p]

LEMMA CallersApart ==
    ASSUME NEW p, CalmStep(p),
           \/ \E t \in Callers : CallerCalls(t) \/ CallerStep(t)
           \/ Tick
           \/ \E k \in DOMAIN jobs : BecomeDue(k)
    PROVE  /\ ProcessRests(p)
           /\ \/ UNCHANGED pc
              \/ \E t \in Callers : pc[t] # "down"
  <1>1. RemInv /\ Grown
    BY GrownNext DEF CalmStep
  <1>2. CASE Tick \/ \E k \in DOMAIN jobs : BecomeDue(k)
    BY <1>2 DEF Tick, BecomeDue, thread, work, bounds, ProcessRests, Rests
  <1>3. ASSUME NEW t \in Callers, CallerCalls(t) \/ CallerStep(t)
        PROVE  ProcessRests(p) /\ pc[t] # "down"
    <2>1. (UNCHANGED thread \/ Steps(t)) /\ UNCHANGED <<phase, work>>
      BY <1>1, <1>3, CallerIs
    <2>2. Rests(p)
      BY <1>1, <2>1, Alone, StepsFrame DEF thread, Rests
    <2>3. lives' = lives
      BY <1>3 DEF CallerCalls, Create, CreateAgain, CancelReminder, Reschedule, Acknowledge, CancelJob,
         CallerStep, EnsureStep, Enqueue, Repair, Link, Undo, CancelOld, EnqueueRefused, Raise, bounds
    <2>4. pc[t] # "down"
      BY <1>3 DEF CallerCalls, Create, CreateAgain, CancelReminder, Reschedule, Acknowledge, CancelJob,
         IdleCaller, CallerStep, EnsureStep, Enqueue, Repair, Link, Undo, CancelOld, EnqueueRefused
    <2>5. QED
      BY <2>1, <2>2, <2>3, <2>4 DEF ProcessRests, work
  <1>4. QED
    BY <1>2, <1>3

\* The process at work for its job, or in _ensure_job for its constructor.
LEMMA WorkPhase ==
    ASSUME NEW p, CalmStep(p), WorkerStep(p) \/ EnsureStep(p) \/ EnqueueRefused(p)
    PROVE  /\ phase'[p] = phase[p] /\ lives' = lives /\ \A t \in Callers : pc'[t] = pc[t]
           /\ \/ Claim(p) /\ pc[p] = "poll" /\ held'[p] # NoJob /\ pc'[p] = "check"
              \/ Settle(p) /\ held'[p] = NoJob /\ pc'[p] = "poll" /\ held[p] # NoJob
              \/ /\ WorkerStep(p) /\ held'[p] = held[p] /\ held[p] # NoJob
                 /\ pc[p] \in JobPc /\ pc'[p] \in (JobPc \ {"fail"}) \cup {"enqueue"}
              \/ EnqueueRefused(p) /\ held'[p] = held[p] /\ pc'[p] = "fail" /\ phase[p] = "closing"
              \/ /\ EnsureStep(p) /\ held'[p] = held[p]
                 /\ pc[p] \in InEnsure /\ pc'[p] \in InEnsure \cup {Return(p)}
  <1>1. /\ RemInv /\ Grown /\ p \in Procs /\ p \in Threads
        /\ \A t \in Callers : t \in Threads /\ t # p
    BY GrownNext, Alone DEF CalmStep
  <1>2. phase' = phase /\ lives' = lives
    BY DEF WorkerStep, EnsureStep, EnqueueRefused, Raise, Enqueue, Repair, Link, Undo, Claim, Check,
       Read, Trigger, Notify, Settle, bounds
  <1>3. Worked(p)
    BY <1>1, EnsureWorks, FaultWorks, CheckWorks, ReadWorks, TriggerWorks, NotifyWorks, ClaimWorks,
       SettleWorks DEF WorkerStep
  <1>4. \A t \in Callers : pc'[t] = pc[t]
    BY <1>1, <1>3, StepsFrame DEF Worked
  <1>5. CASE Claim(p)
    <2>1. PICK k \in DOMAIN jobs : held' = [held EXCEPT ![p] = k]
      BY <1>5 DEF Claim
    <2>2. held'[p] = k /\ k # NoJob
      BY <1>1, <2>1, ProcIs, NoThings DEF RemInv, TypeOK
    <2>3. pc[p] = "poll" /\ pc'[p] = "check"
      BY <1>1, <1>5, Alone DEF Claim, Goto, Move
    <2>4. QED
      BY <1>2, <1>4, <1>5, <2>2, <2>3
  <1>6. CASE Settle(p)
    <2>1. held'[p] = NoJob /\ pc'[p] = "poll"
      BY <1>1, <1>6, ProcIs, Alone DEF Settle, Release, Move
    <2>2. held[p] # NoJob
      BY <1>1, <1>6, ProcIs DEF Settle, JobPc
    <2>3. QED
      BY <1>2, <1>4, <1>6, <2>1, <2>2
  <1>7. CASE Check(p) \/ Read(p) \/ Trigger(p) \/ Notify(p)
    <2>1. held' = held /\ pc[p] \in JobPc
      BY <1>7 DEF Check, Read, Trigger, Notify, work, JobPc
    <2>2. held[p] # NoJob /\ Return(p) = "finish"
      BY <1>1, <2>1, ProcIs, Returns
    <2>3. \E c, j : \/ \E l \in {"cancel", "read", "trigger", "check2", "notify"} : Move(p, l, c, j)
                    \/ Ensure(p, c)
      BY <1>7 DEF Check, Read, Trigger, Record, Skip, Notify, Goto
    <2>4. pc'[p] \in {"cancel", "read", "trigger", "check2", "notify", "enqueue", "finish"}
      BY <1>1, <2>2, <2>3, Alone DEF Ensure, Done, Move
    <2>5. QED
      BY <1>2, <1>4, <1>7, <2>1, <2>2, <2>4 DEF WorkerStep, JobPc
  <1>8. CASE EnqueueRefused(p)
    <2>1. held' = held /\ pc'[p] = "fail" /\ phase[p] = "closing"
      BY <1>1, <1>8, Alone DEF EnqueueRefused, Raise, Move, work, Open, HomeOf
    <2>2. QED
      BY <1>2, <1>4, <1>8, <2>1
  <1>9. CASE EnsureStep(p)
    <2>1. /\ pc[p] \in InEnsure /\ pc'[p] \in InEnsure \cup {Return(p)} /\ held' = held
      BY <1>1, <1>9, EnsureStepIs DEF work
    <2>2. QED
      BY <1>2, <1>4, <1>9, <2>1
  <1>10. QED
    BY <1>5, <1>6, <1>7, <1>8, <1>9 DEF WorkerStep

LEMMA PhaseNext ==
    ASSUME NEW p, CalmStep(p), PhaseFits(p)
    PROVE  PhaseFits(p)'
  <1>1. /\ RemInv /\ Grown /\ p \in Procs /\ p \in Threads
        /\ pc \in [Threads -> Pc] /\ \A t \in Callers : t \in Threads /\ HomeOf(t) = p /\ t # p
        /\ HomeOf(p) = p /\ lives \in Nat
        /\ phase \in [Procs -> {"down", "starting", "running", "closing"}]
        /\ held \in [Procs -> Key \cup {NoJob}] /\ todo \in [Procs -> SUBSET Copy]
    BY GrownNext, Alone, ProcIs DEF CalmStep, RemInv, TypeOK
  <1>2. /\ pc[p] \in FreePc \cup JobPc \cup InEnsure
        /\ pc[p] \in FreePc => held[p] = NoJob
        /\ pc[p] \in JobPc => held[p] # NoJob
        /\ phase[p] = "down" => pc[p] = "down"
    BY <1>1 DEF RemInv, ThreadsFit, ProcFit
  <1>3. CASE \/ \E t \in Callers : CallerCalls(t) \/ CallerStep(t)
             \/ Tick
             \/ \E k \in DOMAIN jobs : BecomeDue(k)
    <2>1. ProcessRests(p) /\ (UNCHANGED pc \/ \E t \in Callers : pc[t] # "down")
      BY <1>3, CallersApart
    <2>2. phase[p] \in {"down", "starting"} => \A t \in Callers : pc'[t] = "down"
      BY <2>1 DEF PhaseFits
    <2>3. QED
      BY <2>1, <2>2 DEF PhaseFits, ProcessRests, Rests
  <1>4. CASE WorkerStep(p) \/ EnsureStep(p) \/ EnqueueRefused(p)
    <2>1. Return(p) = IF held[p] # NoJob THEN "finish" ELSE "next"
      BY <1>1, Returns
    <2>2. ~ (JobPc \cap {"list", "next", "recover"} # {}) /\ ~ (JobPc \cap InEnsure # {})
          /\ "enqueue" \in InEnsure /\ "fail" \in JobPc /\ "check" \in JobPc
          /\ "poll" \notin JobPc \cup InEnsure \cup {"list", "next", "recover"}
          /\ ~ (InEnsure \cap {"list", "next", "recover", "fail"} # {})
      BY DEF JobPc, InEnsure
    <2>3. /\ phase'[p] = phase[p] /\ lives' = lives /\ \A t \in Callers : pc'[t] = pc[t]
          /\ \/ Claim(p) /\ pc[p] = "poll" /\ held'[p] # NoJob /\ pc'[p] = "check"
             \/ Settle(p) /\ held'[p] = NoJob /\ pc'[p] = "poll" /\ held[p] # NoJob
             \/ /\ WorkerStep(p) /\ held'[p] = held[p] /\ held[p] # NoJob
                /\ pc[p] \in JobPc /\ pc'[p] \in (JobPc \ {"fail"}) \cup {"enqueue"}
             \/ EnqueueRefused(p) /\ held'[p] = held[p] /\ pc'[p] = "fail" /\ phase[p] = "closing"
             \/ /\ EnsureStep(p) /\ held'[p] = held[p]
                /\ pc[p] \in InEnsure /\ pc'[p] \in InEnsure \cup {Return(p)}
      BY <1>4, WorkPhase
    <2>4. PhaseFits(p)
      OBVIOUS
    <2>5. QED
      BY <2>1, <2>2, <2>3, <2>4 DEF PhaseFits
  <1>5. CASE Boot(p)
    <2>1. /\ phase[p] = "down" /\ phase'[p] = "starting" /\ pc'[p] = "list" /\ held'[p] = held[p]
          /\ \A t \in Callers : pc'[t] = pc[t]
      BY <1>1, <1>5 DEF Boot, Goto, Move, work
    <2>2. held[p] = NoJob
      BY <1>2, <2>1 DEF FreePc
    <2>3. QED
      BY <2>1, <2>2 DEF PhaseFits, InEnsure
  <1>6. CASE List(p) \/ Reconcile(p)
    <2>1. /\ phase'[p] = phase[p] /\ held'[p] = held[p] /\ pc[p] \in {"list", "next"}
      BY <1>6 DEF List, Reconcile
    <2>2. held[p] = NoJob /\ phase[p] = "starting"
      BY <1>2, <2>1 DEF FreePc, PhaseFits
    <2>3. /\ pc'[p] \in {"next", "enqueue", "recover"}
          /\ pc'[p] = "recover" => todo'[p] = {}
          /\ \A t \in Callers : pc'[t] = pc[t]
      <3>1. Return(p) = "next"
        BY <1>1, <2>2, Returns
      <3>2. QED
        BY <1>1, <1>6, <3>1 DEF List, Reconcile, Goto, Ensure, Done, Move
    <2>4. QED
      BY <2>1, <2>2, <2>3 DEF PhaseFits, InEnsure
  <1>7. CASE Recover(p)
    <2>1. phase'[p] = "running" /\ pc'[p] = "poll"
      BY <1>1, <1>7 DEF Recover, Serve
    <2>2. QED
      BY <2>1 DEF PhaseFits, InEnsure
  <1>8. CASE Close(p)
    <2>1. /\ phase[p] = "running" /\ phase'[p] = "closing" /\ lives' = lives + 1
          /\ pc' = pc /\ held' = held /\ todo' = todo
      BY <1>1, <1>8 DEF Close, thread, work
    <2>2. lives' > 0
      BY <1>1, <2>1
    <2>3. QED
      BY <2>1, <2>2 DEF PhaseFits
  <1>9. CASE Exit(p) \/ Crash(p)
    <2>1. End(p)
      BY <1>9 DEF Exit, Crash
    <2>2. phase'[p] = "down" /\ pc'[p] = "down" /\ \A t \in Callers : pc'[t] = "down"
      BY <1>1, <2>1 DEF End
    <2>3. QED
      BY <2>2 DEF PhaseFits, InEnsure
  <1>10. QED
    BY <1>3, <1>4, <1>5, <1>6, <1>7, <1>8, <1>9, CalmSteps DEF CalmNext, ProcessStep, Startup

-----------------------------------------------------------------------------
(* The worker's job and the attempts. *)

\* What the method that is called makes of a row.
LEMMA SettlementIs ==
    ASSUME NEW p, RemInv, p \in Procs, pc[p] \in {"finish", "cancel", "fail"},
           NEW r \in J!Row, r = jobs[held[p]], r.status = "running", r.max = Attempts
    PROVE  LET s == Settlement(p)
           IN  /\ s.status # "running" /\ s.attempts = r.attempts
               /\ s.status \in J!Terminal \cup {"queued"}
               /\ s.status = "queued" => pc[p] = "fail" /\ ~s.cancel
               /\ pc[p] = "cancel" => s.status = "cancelled"
  <1>1. CASE pc[p] = "finish"
    <2>1. Settlement(p) = J!Complete(r)
      BY <1>1 DEF Settlement
    <2>2. QED
      BY <1>1, <2>1 DEF J!Complete, J!Cancelled, J!Row, J!Terminal
  <1>2. CASE pc[p] = "cancel"
    <2>1. Settlement(p) = J!MarkCancelled(r)
      BY <1>2 DEF Settlement
    <2>2. QED
      BY <1>2, <2>1 DEF J!MarkCancelled, J!Exists, J!Cancelled, J!Row, J!Terminal
  <1>3. CASE pc[p] = "fail"
    <2>1. Settlement(p) = J!Fail(r, TRUE)
      BY <1>3 DEF Settlement
    <2>2. QED
      BY <1>3, <2>1 DEF J!Fail, J!Cancelled, J!Failed, J!Row, J!Terminal
  <1>4. QED
    BY <1>1, <1>2, <1>3

\* An interrupted job of which attempts are left is queued again.
LEMMA RecoverIs ==
    ASSUME NEW r \in J!Row
    PROVE  LET s == J!Recover(r, TRUE)
           IN  /\ s.attempts = r.attempts /\ s.status # "running"
               /\ r.status # "running" => s = r
               /\ r.status = "running" =>
                     /\ s.status \in J!Terminal \cup {"queued"}
                     /\ s.status = "queued" => ~s.cancel
                     /\ r.attempts < r.max /\ ~r.cancel => s.status = "queued" /\ ~s.cancel
  BY DEF J!Recover, J!Cancelled, J!Failed, J!Row, J!Terminal

LEMMA RequestIs ==
    ASSUME NEW r \in J!Row
    PROVE  LET s == J!RequestCancel(r)
           IN  /\ s.attempts = r.attempts
               /\ s = r \/ s.status = "cancelled" \/ (s.status = "running" /\ s.cancel)
               /\ r.status \in J!Terminal => s = r
               /\ r.status = "running" => s.status = "running"
               /\ s.status = "running" => r.status = "running"
               /\ s.status # "queued" \/ s = r
               /\ s.status \notin J!Terminal => s.status = "running" \/ (s = r /\ r.cancel)
  BY DEF J!RequestCancel, J!Exists, J!Cancelled, J!Row, J!Status, J!Terminal

\* The rows before a step.
LEMMA RowFacts ==
    ASSUME RemInv, NEW k \in DOMAIN jobs
    PROVE  /\ jobs[k] \in J!Row /\ jobs[k].max = Attempts /\ jobs[k].attempts \in Nat
           /\ k \in Key /\ k # NoJob
  BY NoThings, RowCounts DEF RemInv, TypeOK, JobsFit, Timely

LEMMA Recovers ==
    ASSUME NEW p, CalmStep(p), Recover(p), NEW k \in DOMAIN jobs
    PROVE  jobs'[k] = J!Recover(jobs[k], TRUE)
  <1>1. PICK skipped : /\ skipped # {} => \E q \in Procs \ {p} : phase[q] # "down"
                       /\ jobs' = [i \in DOMAIN jobs |-> IF i \in skipped THEN jobs[i]
                                                         ELSE J!Recover(jobs[i], TRUE)]
    BY DEF Recover
  <1>2. skipped = {}
    BY <1>1 DEF CalmStep
  <1>3. QED
    BY <1>1, <1>2

\* Interruptions are counted, and are all that ends a process.
LEMMA LivesGo ==
    ASSUME NEW p, CalmStep(p), PhaseFits(p)
    PROVE  /\ lives \in Nat /\ lives' \in Nat /\ lives' >= lives
           /\ Ends(p) => lives' > 0 /\ phase'[p] = "down"
           /\ phase'[p] = "closing" => lives' > 0
           /\ phase[p] \in {"down", "starting"} =>
                 Recover(p) \/ phase'[p] \in {"down", "starting"}
           /\ phase'[p] # phase[p] =>
                 \/ Boot(p) /\ phase[p] = "down" /\ phase'[p] = "starting"
                 \/ Recover(p) /\ phase[p] = "starting" /\ phase'[p] = "running"
                 \/ /\ Close(p) /\ phase[p] = "running" /\ phase'[p] = "closing"
                    /\ lives' = lives + 1
                 \/ Exit(p) /\ phase[p] = "closing" /\ phase'[p] = "down"
                 \/ Crash(p) /\ phase'[p] = "down" /\ lives' = lives + 1
           /\ phase'[p] = phase[p] => lives' = lives
  <1>1. /\ RemInv /\ p \in Procs /\ lives \in Nat
        /\ phase \in [Procs -> {"down", "starting", "running", "closing"}]
    BY DEF CalmStep, RemInv, TypeOK
  <1>2. /\ Boot(p) => phase[p] = "down" /\ phase'[p] = "starting" /\ lives' = lives
        /\ Recover(p) => phase[p] = "starting" /\ phase'[p] = "running" /\ lives' = lives
        /\ Close(p) => phase[p] = "running" /\ phase'[p] = "closing" /\ lives' = lives + 1
        /\ Exit(p) => phase[p] = "closing" /\ phase'[p] = "down" /\ lives' = lives
        /\ Crash(p) => phase[p] # "down" /\ phase'[p] = "down" /\ lives' = lives + 1
    BY <1>1 DEF Boot, Recover, Serve, Close, Exit, Crash, End, bounds, PhaseFits
  <1>3. phase[p] = "closing" => lives > 0
    BY DEF PhaseFits
  <1>4. lives + 1 \in Nat /\ lives + 1 > 0 /\ lives + 1 >= lives /\ lives >= lives
    BY <1>1
  <1>5. Ends(p) <=> Exit(p) \/ Crash(p)
    BY DEF Ends
  <1>6. QED
    BY <1>1, <1>2, <1>3, <1>4, <1>5, PhaseWho DEF PhaseGoes

LEMMA HoldNext ==
    ASSUME NEW p, CalmStep(p), ForwardInv, AheadFits, PhaseFits(p), HoldFits(p)
    PROVE  HoldFits(p)'
  <1>1. /\ RemInv /\ p \in Procs /\ lives \in Nat /\ held \in [Procs -> Key \cup {NoJob}]
        /\ \A k \in DOMAIN jobs : k \in DOMAIN jobs'
        /\ pc[p] \in FreePc => held[p] = NoJob
        /\ phase \in [Procs -> {"down", "starting", "running", "closing"}]
    BY CalmFacts, ProcIs DEF CalmStep, RemInv, TypeOK
  <1>2. /\ Claim(p) => held[p] = NoJob
        /\ Recover(p) => held[p] = NoJob
        /\ Settle(p) => held[p] # NoJob /\ held'[p] = NoJob /\ jobs'[held[p]] = Settlement(p)
                        /\ pc[p] \in {"finish", "cancel", "fail"}
        /\ Ends(p) => held'[p] = NoJob
    <2>1. Claim(p) \/ Recover(p) => pc[p] \in FreePc
      BY DEF Claim, Recover, FreePc
    <2>2. ASSUME Settle(p)
          PROVE  held[p] # NoJob /\ held'[p] = NoJob /\ jobs'[held[p]] = Settlement(p)
                 /\ pc[p] \in {"finish", "cancel", "fail"}
      <3>1. pc[p] \in {"finish", "cancel", "fail"} /\ Put(held[p], Settlement(p))
            /\ held' = [held EXCEPT ![p] = NoJob]
        BY <2>2 DEF Settle, Release
      <3>2. held[p] # NoJob
        BY <1>1, <3>1, ProcIs DEF JobPc
      <3>3. jobs'[held[p]] = Settlement(p)
        BY <3>1, PutIs
      <3>4. QED
        BY <1>1, <3>1, <3>2, <3>3
    <2>3. QED
      BY <1>1, <2>1, <2>2 DEF Ends, Exit, Crash, End
  <1>3. ASSUME NEW k \in DOMAIN jobs, jobs[k].status = "running", jobs'[k].status # "running"
        PROVE  Recover(p) \/ (Settle(p) /\ k = held[p])
    <2>1. jobs'[k] # J!RequestCancel(jobs[k])
      BY <1>1, <1>3, RowFacts, RequestIs
    <2>2. QED
      BY <1>3, <2>1, JobsWho DEF JobGoes, J!Claimable
  <1>4. ASSUME NEW k \in DOMAIN jobs, jobs'[k].status = "running"
        PROVE  jobs[k].status = "running" \/ (Claim(p) /\ held'[p] = k)
    <2>1. jobs'[k] = J!RequestCancel(jobs[k]) => jobs[k].status = "running"
      BY <1>1, <1>4, RowFacts, RequestIs
    <2>2. jobs'[k] # J!Recover(jobs[k], TRUE)
      BY <1>1, <1>4, RowFacts, RecoverIs
    <2>3. CASE jobs[k].status = "queued" /\ jobs'[k] = [jobs[k] EXCEPT !.due = TRUE]
      BY <1>1, <1>4, <2>3, RowFacts, DueIs
    <2>4. CASE Settle(p) /\ k = held[p]
      BY <1>2, <2>4 DEF HoldFits
    <2>5. JobGoes(p, k)
      BY JobsWho
    <2>6. QED
      BY <1>4, <2>1, <2>2, <2>3, <2>4, <2>5 DEF JobGoes
  <1>5. held'[p] # NoJob => jobs'[held'[p]].status = "running"
    <2>1. SUFFICES ASSUME held'[p] # NoJob PROVE jobs'[held'[p]].status = "running"
      OBVIOUS
    <2>2. CASE held'[p] = held[p]
      <3>1. held[p] \in DOMAIN jobs /\ jobs[held[p]].status = "running"
        BY <1>1, <2>1, <2>2, HeldIs DEF HoldFits
      <3>2. QED
        BY <1>2, <1>3, <2>1, <2>2, <3>1
    <2>3. CASE Claim(p)
      <3>1. PICK k \in DOMAIN jobs : /\ J!Claimable(jobs[k]) /\ Put(k, J!Claim(jobs[k]))
                                     /\ held' = [held EXCEPT ![p] = k]
        BY <2>3 DEF Claim
      <3>2. held'[p] = k /\ jobs'[k] = J!Claim(jobs[k])
        BY <1>1, <3>1, PutIs
      <3>3. QED
        BY <1>1, <3>1, <3>2, RowFacts, ClaimIs
    <2>4. QED
      BY <1>2, <2>1, <2>2, <2>3, HeldWho DEF HeldGoes
  <1>6. ASSUME NEW k \in DOMAIN jobs', jobs'[k].status = "running"
        PROVE  held'[p] = k \/ (lives' > 0 /\ phase'[p] \in {"down", "starting"})
    <2>1. k \in DOMAIN jobs
      <3>1. SUFFICES ASSUME k \notin DOMAIN jobs PROVE FALSE
        OBVIOUS
      <3>2. jobs'[k] = DeliveryJob(k) /\ k \in Key
        <4>1. jobs'[k] = DeliveryJob(k)
          BY <3>1, JobsWho DEF JobCome
        <4>2. k \in Key
          BY CalmFacts DEF RemInv, TypeOK
        <4>3. QED
          BY <4>1, <4>2
      <3>3. QED
        BY <1>1, <1>6, <3>2, DeliveryJobIs DEF RemInv, TypeOK
    <2>2. CASE Claim(p) /\ held'[p] = k
      BY <2>2
    <2>3. CASE jobs[k].status = "running"
      <3>1. held[p] = k \/ (lives > 0 /\ phase[p] \in {"down", "starting"})
        BY <2>1, <2>3 DEF HoldFits
      <3>2. ~Recover(p)
        <4>1. SUFFICES ASSUME Recover(p) PROVE FALSE
          OBVIOUS
        <4>2. jobs'[k] = J!Recover(jobs[k], TRUE) /\ jobs[k] \in J!Row
          BY <1>1, <2>1, <4>1, Recovers, RowFacts
        <4>3. QED
          BY <1>6, <4>2, RecoverIs
      <3>3. CASE held[p] = k
        <4>1. ~Settle(p)
          <5>1. SUFFICES ASSUME Settle(p) PROVE FALSE
            OBVIOUS
          <5>2. Settlement(p).status # "running"
            BY <1>1, <1>2, <2>1, <2>3, <3>3, <5>1, RowFacts, SettlementIs
          <5>3. QED
            BY <1>2, <1>6, <3>3, <5>1, <5>2
        <4>2. ~Claim(p)
          BY <1>1, <1>2, <2>1, <3>3, RowFacts
        <4>3. Ends(p) => lives' > 0 /\ phase'[p] = "down"
          BY <1>1, LivesGo
        <4>4. QED
          BY <3>3, <4>1, <4>2, <4>3, HeldWho DEF HeldGoes
      <3>4. CASE lives > 0 /\ phase[p] \in {"down", "starting"}
        BY <3>2, <3>4, LivesGo
      <3>5. QED
        BY <3>1, <3>3, <3>4
    <2>4. QED
      BY <1>4, <1>6, <2>1, <2>2, <2>3
  <1>7. QED
    BY <1>5, <1>6 DEF HoldFits

LEMMA AttemptsNext ==
    ASSUME NEW p, CalmStep(p), ForwardInv, AheadFits, PhaseFits(p), HoldFits(p), AttemptsFit(p)
    PROVE  AttemptsFit(p)'
  <1>1. /\ RemInv /\ p \in Procs /\ lives \in Nat /\ lives' \in Nat
        /\ phase \in [Procs -> {"down", "starting", "running", "closing"}]
    BY LivesGo DEF CalmStep, RemInv, TypeOK
  <1>2. ASSUME NEW row, row.attempts \in Nat, Tried(row, phase[p], lives), ~Recover(p) \/ row.status # "running"
        PROVE  Tried(row, phase'[p], lives')
    BY <1>1, <1>2, LivesGo DEF Tried
  <1>3. ASSUME NEW k \in DOMAIN jobs PROVE Tried(jobs'[k], phase'[p], lives')
    <2>1. /\ jobs[k] \in J!Row /\ jobs[k].max = Attempts /\ jobs[k].attempts \in Nat
          /\ Tried(jobs[k], phase[p], lives)
      BY <1>1, RowFacts DEF AttemptsFit
    <2>2. CASE Recover(p)
      <3>1. jobs'[k] = J!Recover(jobs[k], TRUE) /\ phase[p] = "starting" /\ phase'[p] = "running" /\ lives' = lives
        <4>1. phase[p] = "starting"
          BY <2>2 DEF Recover, PhaseFits
        <4>2. phase' = [phase EXCEPT ![p] = "running"] /\ lives' = lives
          BY <2>2 DEF Recover, Serve, bounds
        <4>3. QED
          BY <1>1, <2>2, <4>1, <4>2, Recovers
      <3> DEFINE s == jobs'[k]
      <3>2. /\ s.attempts = jobs[k].attempts /\ s.status # "running"
            /\ jobs[k].status # "running" => s = jobs[k]
            /\ jobs[k].status = "running" =>
                  s.status \in J!Terminal \cup {"queued"} /\ (s.status = "queued" => ~s.cancel)
        BY <2>1, <3>1, RecoverIs
      <3> HIDE DEF s
      <3>3. Tried(s, phase'[p], lives')
        BY <2>1, <3>1, <3>2 DEF Tried, J!Terminal
      <3>4. QED
        BY <3>3 DEF s
    <2>3. CASE ~Recover(p) /\ jobs'[k] = jobs[k]
      BY <1>2, <2>1, <2>3
    <2>4. CASE ~Recover(p) /\ jobs'[k] = J!RequestCancel(jobs[k])
      <3> DEFINE s == J!RequestCancel(jobs[k])
      <3>1. /\ s.attempts = jobs[k].attempts
            /\ s = jobs[k] \/ s.status = "cancelled" \/ s.status = "running"
            /\ s.status = "running" => jobs[k].status = "running"
        BY <2>1, RequestIs
      <3> HIDE DEF s
      <3>2. Tried(s, phase[p], lives) /\ s.attempts \in Nat
        BY <2>1, <3>1 DEF Tried
      <3>3. Tried(s, phase'[p], lives')
        BY <1>2, <2>4, <3>2
      <3>4. QED
        BY <2>4, <3>3 DEF s
    <2>5. CASE Claim(p) /\ J!Claimable(jobs[k]) /\ jobs'[k] = J!Claim(jobs[k])
      <3>1. phase[p] = "running" /\ phase' = phase /\ lives' = lives
        BY <2>5 DEF Claim, bounds
      <3> DEFINE s == J!Claim(jobs[k])
      <3>2. s.attempts = jobs[k].attempts + 1 /\ s.status = "running" /\ jobs[k].status = "queued"
        BY <2>1, <2>5, ClaimIs
      <3> HIDE DEF s
      <3>3. s.attempts <= lives + 1
        BY <1>1, <2>1, <3>2 DEF Tried
      <3>4. Tried(s, phase'[p], lives')
        BY <3>1, <3>2, <3>3 DEF Tried
      <3>5. QED
        BY <2>5, <3>4 DEF s
    <2>6. CASE ~Recover(p) /\ jobs[k].status = "queued" /\ jobs'[k] = [jobs[k] EXCEPT !.due = TRUE]
      <3> DEFINE s == [jobs[k] EXCEPT !.due = TRUE]
      <3>1. s.attempts = jobs[k].attempts /\ s.status = jobs[k].status /\ s.cancel = jobs[k].cancel
        BY <2>1, <2>6, DueIs
      <3> HIDE DEF s
      <3>2. Tried(s, phase[p], lives) /\ s.attempts \in Nat
        BY <2>1, <3>1 DEF Tried
      <3>3. Tried(s, phase'[p], lives')
        BY <1>2, <2>6, <3>2
      <3>4. QED
        BY <2>6, <3>3 DEF s
    <2>7. CASE Settle(p) /\ k = held[p] /\ jobs'[k] = Settlement(p)
      <3>1. phase' = phase /\ lives' = lives /\ pc[p] \in {"finish", "cancel", "fail"}
        BY <2>7 DEF Settle, bounds
      <3>2. jobs[k].status = "running"
        BY <1>1, <2>1, <2>7, RowFacts DEF HoldFits
      <3> DEFINE s == Settlement(p)
      <3>3. /\ s.attempts = jobs[k].attempts /\ s.status \in J!Terminal \cup {"queued"}
            /\ s.status = "queued" => phase[p] = "closing" /\ ~s.cancel
        BY <1>1, <2>1, <2>7, <3>1, <3>2, SettlementIs DEF PhaseFits
      <3> HIDE DEF s
      <3>4. Tried(s, phase'[p], lives')
        BY <2>1, <3>1, <3>2, <3>3 DEF Tried, J!Terminal
      <3>5. QED
        BY <2>7, <3>4 DEF s
    <2>8. QED
      BY <2>2, <2>3, <2>4, <2>5, <2>6, <2>7, JobsWho DEF JobGoes
  <1>4. ASSUME NEW k \in DOMAIN jobs', k \notin DOMAIN jobs PROVE Tried(jobs'[k], phase'[p], lives')
    <2>1. jobs'[k] = DeliveryJob(k) /\ k \in Key /\ now \in Nat
      <3>1. jobs'[k] = DeliveryJob(k)
        BY <1>4, JobsWho DEF JobCome
      <3>2. k \in Key
        BY <1>4, CalmFacts DEF RemInv, TypeOK
      <3>3. QED
        BY <1>1, <3>1, <3>2 DEF RemInv, TypeOK
    <2>2. jobs'[k].attempts = 0 /\ jobs'[k].status = "queued" /\ ~jobs'[k].cancel
      BY <2>1, DeliveryJobIs
    <2>3. QED
      BY <1>1, <2>2 DEF Tried
  <1>5. QED
    BY <1>3, <1>4 DEF AttemptsFit

-----------------------------------------------------------------------------
(* No job ends before the schedule has left its slot. *)

LEMMA StaleJobs ==
    ASSUME NEW p, CalmStep(p), ForwardInv, AheadFits, PhaseFits(p), HoldFits(p), AttemptsFit(p),
           StaleFits(p), lives < Attempts,
           NEW k \in DOMAIN jobs',
           jobs'[k].status \in J!Terminal \/ jobs'[k].cancel \/ k.copy # 0
    PROVE  Stale(k)'
  <1>1. /\ RemInv /\ p \in Procs /\ now \in Nat
        /\ \A i \in DOMAIN jobs : Stale(i) => Stale(i)'
        /\ k \in Key
    BY CalmFacts DEF CalmStep, RemInv, TypeOK
  <1>2. CASE k \in DOMAIN jobs
    <2>1. SUFFICES Stale(k)
      BY <1>1, <1>2
    <2>2. CASE jobs[k].status \in J!Terminal \/ jobs[k].cancel \/ k.copy # 0
      BY <1>2, <2>2 DEF StaleFits
    <2>3. CASE /\ jobs[k].status \notin J!Terminal /\ ~jobs[k].cancel
               /\ jobs'[k].status \in J!Terminal \/ jobs'[k].cancel
      <3>1. jobs[k] \in J!Row /\ jobs[k].max = Attempts /\ jobs[k].attempts \in Nat /\ k # NoJob
        BY <1>1, <1>2, RowFacts
      <3>2. CASE \E t \in Threads : link[t].job = k /\ pc[t] \in {"undo", "cancelOld"}
        BY <3>2 DEF StaleFits
      <3>3. CASE J!Claimable(jobs[k]) /\ jobs'[k] = J!Claim(jobs[k])
        <4> DEFINE s == J!Claim(jobs[k])
        <4>1. s.status = "running" /\ s.cancel = jobs[k].cancel
          BY <3>1, <3>3, ClaimIs
        <4> HIDE DEF s
        <4>2. QED
          BY <2>3, <3>3, <4>1 DEF s, J!Terminal
      <3>4. CASE jobs[k].status = "queued" /\ jobs'[k] = [jobs[k] EXCEPT !.due = TRUE]
        BY <2>3, <3>1, <3>4, DueIs DEF J!Terminal
      <3>5. CASE Settle(p) /\ k = held[p]
        BY <3>1, <3>5 DEF StaleFits, Settle
      <3>6. CASE Recover(p) /\ jobs'[k] = J!Recover(jobs[k], TRUE)
        <4>1. phase[p] = "starting" /\ lives \in Nat /\ Attempts \in Nat
          BY <1>1, <3>6, RemindersAssumption DEF Recover, PhaseFits, RemInv, TypeOK
        <4>2. jobs[k].status = "running" => jobs[k].attempts < jobs[k].max
          <5>1. jobs[k].status = "running" => jobs[k].attempts <= lives
            BY <1>2, <4>1 DEF AttemptsFit, Tried
          <5>2. QED
            BY <3>1, <4>1, <5>1
        <4> DEFINE s == J!Recover(jobs[k], TRUE)
        <4>3. /\ jobs[k].status # "running" => s = jobs[k]
              /\ jobs[k].status = "running" => s.status = "queued" /\ ~s.cancel
          BY <2>3, <3>1, <4>2, RecoverIs
        <4> HIDE DEF s
        <4>4. QED
          BY <2>3, <3>6, <4>3 DEF s, J!Terminal
      <3>7. CASE jobs'[k] = jobs[k]
        BY <2>3, <3>7
      <3>8. JobGoes(p, k)
        BY <1>2, JobsWho
      <3>9. QED
        BY <3>2, <3>3, <3>4, <3>5, <3>6, <3>7, <3>8 DEF JobGoes
    <2>4. QED
      BY <2>2, <2>3
  <1>3. CASE k \notin DOMAIN jobs
    <2>1. jobs'[k] = DeliveryJob(k)
          /\ \E t \in Threads : /\ (pc[t] = "enqueue" /\ k.copy = 0) \/ pc[t] = "repair"
                                /\ k = KeyFor(seen[t], k.copy)
      BY <1>3, JobsWho DEF JobCome
    <2>2. jobs'[k].status = "queued" /\ ~jobs'[k].cancel
      BY <1>1, <2>1, DeliveryJobIs
    <2>3. PICK t \in Threads : pc[t] = "repair" /\ k = KeyFor(seen[t], k.copy)
      BY <2>1, <2>2 DEF J!Terminal
    <2>4. PICK i \in DOMAIN jobs : i = KeyFor(seen[t], 0) /\ Stale(i)
      BY <2>3 DEF StaleFits
    <2>5. i.rem = k.rem /\ i.rev = k.rev /\ i.slot = k.slot
      BY <2>3, <2>4 DEF KeyFor
    <2>6. Stale(i)'
      BY <1>1, <2>4
    <2>7. QED
      BY <2>5, <2>6 DEF Stale
  <1>4. QED
    BY <1>2, <1>3

\* What replaces the row of a reminder leaves its job behind.
LEMMA ReplaceStale ==
    ASSUME NEW p, CalmStep(p), ForwardInv, AheadFits, NEW t \in Callers, NEW r \in Ids,
           CancelReminder(t, r) \/ Reschedule(t, r)
    PROVE  /\ pc'[t] # "undo" /\ pc'[t] # "repair"
           /\ pc'[t] = "cancelOld" => Stale(link[t].job)'
  <1>1. /\ RemInv /\ t \in Threads /\ t \notin Procs /\ \A x \in Ids : MovesOn(x)
        /\ rows \in [Ids -> Reminder \cup {Absent}]
    BY CalmFacts, Alone, ThreadIs DEF RemInv, TypeOK
  <1>2. PICK row \in Reminder : /\ Replace(t, r, row)
                                /\ row.status = "cancelled" \/ (row.status = "active" /\ row.rev = rows[r].rev + 1)
    BY <1>1, ReplaceIs
  <1>3. rows'[r] = row /\ Exists(r)
    <2>1. Replaced(r)
      BY <1>1, ReplaceIs
    <2>2. QED
      BY <1>1, <1>2, <2>1 DEF Replace, Replaced
  <1>4. CASE rows[r].job = NoJob
    <2>1. Ensure(t, CopyOf(r, row)) /\ Return(t) = "idle"
      BY <1>1, <1>2, <1>4, Returns DEF Replace
    <2>2. pc'[t] \in {"enqueue", "idle"}
      BY <1>1, <2>1, Alone DEF Ensure, Done, Move
    <2>3. QED
      BY <2>2
  <1>5. CASE rows[r].job # NoJob
    <2>1. Move(t, "cancelOld", CopyOf(r, row), [job |-> rows[r].job, made |-> FALSE])
      BY <1>2, <1>5 DEF Replace
    <2>2. pc'[t] = "cancelOld" /\ link'[t].job = rows[r].job
      BY <1>1, <2>1, Alone DEF Move
    <2>3. PICK k \in DOMAIN jobs : k = rows[r].job /\ k.rem = r /\ k.rev = rows[r].rev
      BY <1>1, <1>3, <1>5 DEF RemInv, LinkedJobFits
    <2>4. rows[r].rev \in Nat
      BY <1>1, <1>3, RowIs DEF RemInv
    <2>5. ~ (rows'[r].status = "active" /\ rows'[r].rev = k.rev)
      <3>1. row.status = "active" => row.rev # rows[r].rev
        BY <1>2, <2>4
      <3>2. QED
        BY <1>3, <2>3, <3>1
    <2>6. Stale(k)'
      BY <2>3, <2>5 DEF Stale, Current
    <2>7. QED
      BY <2>2, <2>3, <2>6
  <1>6. QED
    BY <1>4, <1>5

\* What a thread is to cancel or to replace is out of date.
StaleThread(t) ==
    /\ pc[t] \in {"undo", "cancelOld"} => Stale(link[t].job)
    /\ pc[t] = "repair" =>
          KeyFor(seen[t], 0) \in DOMAIN jobs /\ Stale(KeyFor(seen[t], 0))

LEMMA StaleThreads ==
    ASSUME NEW p, CalmStep(p), ForwardInv, AheadFits, StaleFits(p), NEW t \in Threads
    PROVE  StaleThread(t)'
  <1>1. /\ RemInv /\ p \in Procs /\ t \in Threads /\ \A u \in Callers : u \in Threads
        /\ pc \in [Threads -> Pc] /\ link \in [Threads -> LinkType]
        /\ \A i \in DOMAIN jobs : i \in DOMAIN jobs' /\ (Stale(i) => Stale(i)')
    BY CalmFacts, Alone DEF CalmStep
  <1>2. CASE Rests(t)
    <2>1. pc[t] \in {"undo", "cancelOld"} => link[t].job \in DOMAIN jobs /\ Stale(link[t].job)
      BY <1>1, MindThread DEF StaleFits, LinkPc
    <2>2. pc[t] = "repair" => KeyFor(seen[t], 0) \in DOMAIN jobs /\ Stale(KeyFor(seen[t], 0))
      BY DEF StaleFits
    <2>3. QED
      BY <1>1, <1>2, <2>1, <2>2 DEF StaleThread, Rests
  <1>3. ASSUME pc'[t] \notin {"undo", "cancelOld", "repair"} PROVE StaleThread(t)'
    BY <1>3 DEF StaleThread
  <1>4. CASE Enqueue(t)
    <2> DEFINE k == KeyFor(seen[t], 0)
    <2>1. CASE /\ k \in DOMAIN jobs /\ UNCHANGED <<rows, jobs>>
               /\ Move(t, IF jobs[k].status \in J!Terminal THEN "repair" ELSE "link",
                       seen[t], [job |-> k, made |-> FALSE])
      <3>1. /\ pc'[t] \in {"repair", "link"} /\ seen'[t] = seen[t]
            /\ pc'[t] = "repair" => jobs[k].status \in J!Terminal
        BY <1>1, <2>1, Alone DEF Move
      <3>2. pc'[t] = "repair" => KeyFor(seen[t], 0) \in DOMAIN jobs /\ Stale(KeyFor(seen[t], 0))
        BY <2>1, <3>1 DEF StaleFits
      <3> HIDE DEF k
      <3>3. QED
        BY <1>1, <3>1, <3>2 DEF StaleThread
    <2>2. CASE Make(t, k)
      BY <1>1, <1>3, <2>2, Alone DEF Make, Move
    <2>3. QED
      BY <1>4, <2>1, <2>2 DEF Enqueue
  <1>5. CASE Link(t)
    <2>1. CASE ~Current(seen[t].rem, seen[t].rev, seen[t].next) /\ link[t].made
      <3>1. pc[t] = "link" /\ UNCHANGED rows /\ Move(t, "undo", seen[t], link[t])
        BY <1>5, <2>1 DEF Link
      <3>2. pc'[t] = "undo" /\ link'[t] = link[t]
        BY <1>1, <3>1, Alone DEF Move
      <3>3. link[t].job = KeyFor(seen[t], link[t].job.copy) /\ link[t].job \in DOMAIN jobs
        BY <1>1, <3>1, MindThread DEF Mind, LinkPc
      <3>4. Stale(link[t].job)
        <4>1. link[t].job.rem = seen[t].rem /\ link[t].job.rev = seen[t].rev /\ link[t].job.slot = seen[t].next
          BY <3>3 DEF KeyFor
        <4>2. QED
          BY <2>1, <4>1 DEF Stale
      <3>5. Stale(link[t].job)'
        <4> DEFINE k == link[t].job
        <4>1. k \in DOMAIN jobs /\ Stale(k)
          BY <3>3, <3>4
        <4>2. rows'[k.rem] = rows[k.rem]
          BY <3>1
        <4>3. ~(rows'[k.rem].status = "active" /\ rows'[k.rem].rev = k.rev /\ rows'[k.rem].next = k.slot)
          BY <4>1, <4>2 DEF Stale, Current
        <4>4. link'[t].job = k
          BY <3>2
        <4> HIDE DEF k
        <4>5. QED
          BY <4>3, <4>4 DEF Stale, Current
      <3>6. QED
        BY <3>2, <3>5 DEF StaleThread
    <2>2. CASE Done(t)
      BY <1>1, <1>3, <2>2, DoneSteps, Returns DEF PlainPc, InEnsure, LinkPc
    <2>3. QED
      BY <1>5, <2>1, <2>2 DEF Link
  <1>6. CASE Repair(t)
    BY <1>1, <1>3, <1>6, Alone DEF Repair, Make, Move
  <1>7. CASE Undo(t)
    BY <1>1, <1>3, <1>7, DoneSteps, Returns DEF Undo, PlainPc, InEnsure, LinkPc
  <1>8. ASSUME NEW c, Ensure(t, c) PROVE StaleThread(t)'
    <2>1. Return(t) \notin {"undo", "cancelOld", "repair"}
      BY Returns DEF PlainPc, InEnsure, LinkPc
    <2>2. pc'[t] \in {"enqueue", Return(t)}
      BY <1>1, <1>8, Alone DEF Ensure, Done, Move
    <2>3. QED
      BY <1>3, <2>1, <2>2
  <1>9. CASE CancelOld(t)
    BY <1>8, <1>9 DEF CancelOld
  <1>10. CASE EnqueueRefused(t)
    BY <1>1, <1>3, <1>10, Alone DEF EnqueueRefused, Raise, Move
  <1>11. CASE Recover(p) \/ Ends(p)
    BY <1>1, <1>3, <1>11, Alone, ZenonT(30) DEF Recover, Serve, Ends, Exit, Crash, End
  <1>12. CASE t = p /\ (Startup(p) \/ WorkerStep(p)) /\ ~Recover(p)
    <2>1. \E c, j : \/ \E l \in Pc \ {"undo", "cancelOld", "repair"} : Move(p, l, c, j)
                    \/ Ensure(p, c)
      BY <1>12 DEF Startup, Boot, List, Reconcile, WorkerStep, Claim, Check, Read, Trigger, Record, Skip,
         Notify, Settle, Release, Goto, Pc
    <2>2. QED
      BY <1>1, <1>3, <1>8, <1>12, <2>1, Alone DEF Move
  <1>13. CASE t \in Callers /\ pc[t] = "idle" /\ ~Rests(t)
    <2>1. CASE \E r \in Ids : CancelReminder(t, r) \/ Reschedule(t, r)
      <3>1. /\ pc'[t] # "undo" /\ pc'[t] # "repair"
            /\ pc'[t] = "cancelOld" => Stale(link[t].job)'
        BY <1>13, <2>1, ReplaceStale
      <3>2. QED
        BY <3>1 DEF StaleThread
    <2>2. CASE \E r \in Ids : Create(t, r) \/ CreateAgain(t, r)
      <3>1. PICK r \in Ids : Create(t, r) \/ CreateAgain(t, r)
        BY <2>2
      <3>2. CASE Create(t, r)
        <4>1. PICK slot \in Slots, rec \in Recurrences : Ensure(t, CopyOf(r, NewReminder(slot, rec)))
          BY <3>2 DEF Create
        <4>2. QED
          BY <1>8, <4>1
      <3>3. CASE CreateAgain(t, r)
        BY <1>8, <3>3 DEF CreateAgain
      <3>4. QED
        BY <3>1, <3>2, <3>3
    <2>3. CASE \E u \in Callers \ {t} : CallerCalls(u) \/ CallerStep(u)
      <3>1. PICK u \in Callers \ {t} : CallerCalls(u) \/ CallerStep(u)
        BY <2>3
      <3>2. UNCHANGED thread \/ Steps(u)
        BY <1>1, <3>1, CallerIs, GrownNext DEF CalmStep
      <3>3. QED
        BY <1>1, <1>13, <3>1, <3>2, StepsFrame DEF thread, Rests
    <2>4. CASE \/ \E o \in DOMAIN fired : Acknowledge(t, o)
               \/ \E k \in DOMAIN jobs : CancelJob(t, k) \/ BecomeDue(k)
               \/ Tick \/ Close(p)
      BY <1>13, <2>4 DEF Acknowledge, CancelJob, BecomeDue, Tick, Close, thread, Rests
    <2>5. ~CallerStep(t)
      BY <1>13 DEF CallerStep, EnsureStep, Enqueue, Repair, Link, Undo, CancelOld, EnqueueRefused
    <2>6. CASE ProcessStep(p)
      <3>1. ~Recover(p) => Steps(p)
        BY <1>1, <2>6, GrownNext, EnsureWorks, FaultWorks, CheckWorks, ReadWorks, TriggerWorks, NotifyWorks,
           ClaimWorks, SettleWorks, StartupWorks DEF CalmStep, ProcessStep, Startup, WorkerStep, Worked
      <3>2. QED
        BY <1>1, <1>11, <1>13, <3>1, StepsFrame, Alone DEF Rests
    <2>7. CASE Exit(p) \/ Crash(p)
      BY <1>11, <2>7 DEF Ends
    <2>8. QED
      BY <2>1, <2>2, <2>3, <2>4, <2>5, <2>6, <2>7, CalmSteps DEF CalmNext, CallerCalls
  <1>14. QED
    BY <1>2, <1>4, <1>5, <1>6, <1>7, <1>9, <1>10, <1>11, <1>12, <1>13, ThreadWho DEF ThreadGoes, EnsureStep

LEMMA StaleHeld ==
    ASSUME NEW p, CalmStep(p), ForwardInv, AheadFits, PhaseFits(p), StaleFits(p),
           held'[p] # NoJob, pc'[p] \notin {"check", "read", "trigger"}
    PROVE  Stale(held[p])'
  <1>1. /\ RemInv /\ RemInv' /\ p \in Procs /\ p \in Threads /\ pc \in [Threads -> Pc]
        /\ \A i \in DOMAIN jobs : Stale(i) => Stale(i)'
        /\ rows \in [Ids -> Reminder \cup {Absent}]
        /\ pc[p] \in FreePc => held[p] = NoJob
    BY CalmFacts, Alone, ProcIs DEF CalmStep, RemInv, TypeOK
  <1>2. held'[p] = held[p]
    <2>1. Claim(p) => pc'[p] = "check"
      BY <1>1 DEF Claim, Goto, Move
    <2>2. Settle(p) \/ Ends(p) => held'[p] = NoJob
      BY <1>1, ProcIs DEF Settle, Release, Ends, Exit, Crash, End
    <2>3. QED
      BY <2>1, <2>2, HeldWho DEF HeldGoes
  <1>3. PICK k \in DOMAIN jobs : k = held[p]
    BY <1>1, <1>2, HeldIs
  <1>4. k # NoJob /\ k.rem \in Ids /\ k.slot \in Int
    BY <1>1, <1>2, <1>3, HeldIs
  <1>5. SUFFICES Stale(k)'
    BY <1>2, <1>3 DEF Stale, Current
  <1>6. CASE pc[p] \notin {"check", "read", "trigger"}
    BY <1>1, <1>3, <1>4, <1>6 DEF StaleFits
  <1>7. CASE pc[p] \in {"check", "read", "trigger"} /\ Rests(p)
    BY <1>7 DEF Rests
  <1>8. CASE pc[p] = "check" /\ Check(p)
    <2>1. J!IsCancelRequested(jobs[k])
      BY <1>1, <1>3, <1>8 DEF Check, Goto, Move
    <2>2. jobs[k].status \in J!Terminal \/ jobs[k].cancel
      BY <1>1, <2>1, RowFacts DEF J!IsCancelRequested, J!Exists, J!Row, J!Status, J!Terminal
    <2>3. QED
      BY <1>1, <2>2 DEF StaleFits
  <1>9. CASE pc[p] = "read" /\ Read(p)
    <2>1. ~Current(k.rem, k.rev, k.slot) /\ rows' = rows
      BY <1>1, <1>3, <1>9 DEF Read, Move, tables
    <2>2. QED
      BY <1>1, <2>1 DEF Stale
  <1>10. CASE pc[p] = "trigger" /\ Trigger(p)
    <2>1. CASE Skip(p, held[p]) /\ ~Current(k.rem, k.rev, k.slot)
      BY <1>1, <2>1 DEF Stale
    <2>2. CASE Recorded(p)
      <3>1. PICK row : Delivered(p, row) /\ rows' = [rows EXCEPT ![k.rem] = row]
        BY <1>1, <1>3, <2>2, RecordIs, ZenonT(30)
      <3>2. rows'[k.rem] = row /\ (row.status = "active" => row.next = after[p] /\ after[p] # NoTime)
        BY <1>1, <1>4, <3>1 DEF Delivered
      <3>3. after[p] \in Int /\ (after[p] = NoTime \/ after[p] > k.slot)
        BY <1>1, <1>3, <2>2, ProcIs DEF ForwardInv, Recorded
      <3>4. after[p] # NoTime => after[p] # k.slot
        BY <1>4, <3>3
      <3>5. ~(rows'[k.rem].status = "active" /\ rows'[k.rem].next = k.slot)
        BY <3>2, <3>4
      <3>6. QED
        BY <3>5 DEF Stale, Current
    <2>3. QED
      BY <1>3, <1>10, <2>1, <2>2 DEF Trigger, Recorded
  <1>11. CASE pc[p] \in {"check", "read", "trigger"} /\ ~Rests(p)
    <2>1. ~EnsureStep(p) /\ ~CancelOld(p) /\ ~EnqueueRefused(p) /\ ~Startup(p) /\ ~Recover(p)
          /\ p \notin Callers
      BY <1>1, <1>11, Alone, ProcIs DEF EnsureStep, Enqueue, Repair, Link, Undo, CancelOld, EnqueueRefused,
         Startup, List, Reconcile, Recover, Boot
    <2>2. Ends(p) => held'[p] = NoJob
      BY <1>1, ProcIs DEF Ends, Exit, Crash, End
    <2>3. WorkerStep(p)
      BY <1>1, <1>11, <2>1, <2>2, ThreadWho DEF ThreadGoes
    <2>4. QED
      BY <1>8, <1>9, <1>10, <1>11, <2>3 DEF WorkerStep, Claim, Check, Read, Trigger, Notify, Settle
  <1>12. QED
    BY <1>6, <1>7, <1>11

LEMMA StaleNext ==
    ASSUME NEW p, CalmStep(p), ForwardInv, AheadFits, PhaseFits(p), HoldFits(p), AttemptsFit(p),
           StaleFits(p), lives < Attempts
    PROVE  StaleFits(p)'
  <1>1. \A k \in DOMAIN jobs' : jobs'[k].status \in J!Terminal \/ jobs'[k].cancel \/ k.copy # 0 => Stale(k)'
    BY StaleJobs
  <1>2. \A t \in Threads : StaleThread(t)'
    BY StaleThreads
  <1>3. held'[p] # NoJob /\ pc'[p] \notin {"check", "read", "trigger"} => Stale(held[p])'
    BY StaleHeld
  <1>4. QED
    BY <1>1, <1>2, <1>3 DEF StaleFits, StaleThread

-----------------------------------------------------------------------------
(* Someone sees to each job. *)

\* A reminder has one job that is not out of date.
LEMMA OneCurrent ==
    ASSUME RemInv, NEW p, StaleFits(p), NEW k \in DOMAIN jobs, NEW l \in DOMAIN jobs,
           ~Stale(k), ~Stale(l), k.rem = l.rem
    PROVE  k = l
  <1>1. k \in Key /\ l \in Key /\ k.copy = 0 /\ l.copy = 0
    BY DEF RemInv, TypeOK, StaleFits
  <1>2. k.rev = l.rev /\ k.slot = l.slot
    BY DEF Stale, Current
  <1>3. QED
    BY <1>1, <1>2, KeyIsKey

LEMMA LinkedCurrent ==
    ASSUME RemInv, NEW k \in DOMAIN jobs, rows[k.rem].job = k
    PROVE  ~Stale(k) /\ Active(k.rem)
  <1>1. k.rem \in Ids /\ k # NoJob /\ Exists(k.rem)
    BY NoThings DEF RemInv, TypeOK, Key, RefsFit, Known, Exists
  <1>2. Active(k.rem) /\ k.rev = rows[k.rem].rev /\ k.slot = rows[k.rem].next
    BY <1>1 DEF RemInv, LinkedJobFits
  <1>3. QED
    BY <1>2 DEF Stale, Current, Active

\* A job that has not ended had not ended before.
LEMMA NotEnded ==
    ASSUME NEW p, CalmStep(p), NEW k \in DOMAIN jobs, jobs[k].status \in J!Terminal,
           HoldFits(p)
    PROVE  jobs'[k] = jobs[k]
  <1>1. RemInv /\ jobs[k] \in J!Row /\ p \in Procs
    BY RowFacts DEF CalmStep
  <1>2. CASE jobs'[k] = J!RequestCancel(jobs[k]) \/ jobs'[k] = J!Recover(jobs[k], TRUE)
    BY <1>1, <1>2, RequestIs, RecoverIs DEF J!Terminal
  <1>3. CASE J!Claimable(jobs[k]) \/ jobs[k].status = "queued"
    BY <1>3 DEF J!Claimable, J!Terminal
  <1>4. CASE Settle(p) /\ k = held[p]
    <2>1. held[p] # NoJob
      BY <1>1, <1>4, WorkerJob DEF Settle, JobPc
    <2>2. QED
      BY <1>4, <2>1 DEF HoldFits, J!Terminal
  <1>5. JobGoes(p, k)
    BY JobsWho
  <1>6. QED
    BY <1>2, <1>3, <1>4, <1>5 DEF JobGoes

LEMMA OwnerLinked ==
    ASSUME NEW p, CalmStep(p), StaleFits(p), NEW k \in DOMAIN jobs, rows[k.rem].job = k
    PROVE  Owned(p, k)'
  <1>1. /\ RemInv /\ p \in Procs /\ k \in Key /\ k.rem \in Ids /\ k # NoJob /\ Exists(k.rem)
    BY NoThings DEF CalmStep, RemInv, TypeOK, Key, RefsFit, Known, Exists
  <1>2. ~Stale(k) /\ Active(k.rem)
    BY <1>1, LinkedCurrent
  <1>3. CASE rows'[k.rem] = rows[k.rem]
    BY <1>3 DEF Owned
  <1>4. CASE \E t \in Callers : pc'[t] = "cancelOld" /\ link'[t].job = k
    BY <1>4, Alone DEF Owned, Carries
  <1>5. ASSUME NEW t \in Threads, pc[t] = "link", seen[t].rem = k.rem,
               Current(seen[t].rem, seen[t].rev, seen[t].next), rows'[k.rem].job = link[t].job
        PROVE  Owned(p, k)'
    <2>1. link[t].job \in DOMAIN jobs /\ link[t].job = KeyFor(seen[t], link[t].job.copy)
      BY <1>1, <1>5, MindThread DEF Mind, LinkPc
    <2>2. link[t].job.rem = k.rem /\ ~Stale(link[t].job)
      BY <1>5, <2>1 DEF Stale, KeyFor
    <2>3. link[t].job = k
      BY <1>1, <1>2, <2>1, <2>2, OneCurrent
    <2>4. QED
      BY <1>5, <2>3 DEF Owned
  <1>6. CASE Recorded(p) /\ k.rem = held[p].rem /\ held'[p] = held[p]
    <2>1. held[p] \in DOMAIN jobs
      BY <1>1, <1>6, WorkerJob DEF Recorded, JobPc
    <2>2. ~Stale(held[p])
      BY <1>6 DEF Recorded, Stale
    <2>3. held[p] = k
      BY <1>1, <1>2, <1>6, <2>1, <2>2, OneCurrent
    <2>4. QED
      BY <1>6, <2>3 DEF Owned
  <1>7. RowGoes(p, k.rem)
    BY <1>1, RowsWho
  <1>8. QED
    BY <1>1, <1>3, <1>4, <1>5, <1>6, <1>7 DEF RowGoes

LEMMA OwnerHeld ==
    ASSUME NEW p, CalmStep(p), PhaseFits(p), HoldFits(p), lives' = 0, NEW k \in DOMAIN jobs,
           held[p] = k, jobs'[k].status \notin J!Terminal
    PROVE  held'[p] = k
  <1>1. /\ RemInv /\ p \in Procs /\ k # NoJob /\ jobs[k] \in J!Row /\ jobs[k].max = Attempts
        /\ pc[p] \in FreePc => held[p] = NoJob
    BY RowFacts, ProcIs DEF CalmStep
  <1>2. ~Claim(p)
    BY <1>1 DEF Claim, FreePc
  <1>3. ~Ends(p)
    BY LivesGo
  <1>4. ASSUME Settle(p) PROVE FALSE
    <2>1. pc[p] \in {"finish", "cancel", "fail"} /\ lives' = lives /\ jobs'[k] = Settlement(p)
      BY <1>4, PutIs DEF Settle, bounds
    <2>2. pc[p] # "fail"
      BY <2>1, LivesGo DEF PhaseFits
    <2>3. jobs[k].status = "running"
      BY <1>1 DEF HoldFits
    <2>4. Settlement(p).status \in J!Terminal
      BY <1>1, <2>1, <2>2, <2>3, SettlementIs
    <2>5. QED
      BY <2>1, <2>4
  <1>5. QED
    BY <1>2, <1>3, <1>4, HeldWho DEF HeldGoes

LEMMA OwnerCarries ==
    ASSUME NEW p, CalmStep(p), PhaseFits(p), HoldFits(p), AttemptsFit(p), lives' = 0,
           NEW k \in DOMAIN jobs, NEW t \in Threads, Carries(t, k), jobs'[k].status \notin J!Terminal
    PROVE  Owned(p, k)'
  <1>1. /\ RemInv /\ p \in Procs /\ p \in Threads /\ k # NoJob /\ jobs[k] \in J!Row
        /\ pc \in [Threads -> Pc] /\ link \in [Threads -> LinkType]
        /\ rows \in [Ids -> Reminder \cup {Absent}] /\ lives = 0
        /\ Threads = Callers \cup {p}
    BY RowFacts, LivesGo, Alone DEF CalmStep, RemInv, TypeOK
  <1>2. link[t].job = k /\ (pc[t] = "cancelOld" \/ (pc[t] \in {"link", "undo"} /\ link[t].made))
    BY DEF Carries
  <1>3. CASE Rests(t)
    BY <1>2, <1>3 DEF Rests, Owned, Carries
  <1>4. CASE Link(t)
    <2>1. pc[t] = "link" /\ link[t].made
      BY <1>2, <1>4 DEF Link
    <2>2. CASE /\ Current(seen[t].rem, seen[t].rev, seen[t].next)
               /\ rows' = [rows EXCEPT ![seen[t].rem].job = link[t].job]
      <3>1. seen[t] \in Copy /\ k = KeyFor(seen[t], k.copy)
        BY <1>1, <1>2, <2>1, MindThread DEF Mind, CopyPc
      <3>2. seen[t].rem \in Ids /\ k.rem = seen[t].rem
        BY <3>1 DEF Copy, KeyFor
      <3>3. rows[k.rem] \in Reminder /\ k \in Key
        BY <1>1, <2>2, <3>2 DEF Current, Absent, RemInv, TypeOK
      <3>4. rows'[k.rem].job = k
        <4>1. rows'[k.rem] = [rows[k.rem] EXCEPT !.job = k]
          BY <1>1, <1>2, <2>2, <3>2
        <4>2. QED
          BY <3>3, <4>1, LinkedIs
      <3>5. QED
        BY <3>4 DEF Owned
    <2>3. CASE Move(t, "undo", seen[t], link[t])
      <3>1. pc'[t] = "undo" /\ link'[t] = link[t]
        BY <1>1, <2>3 DEF Move
      <3>2. QED
        BY <1>2, <2>1, <3>1 DEF Owned, Carries
    <2>4. QED
      BY <1>4, <2>1, <2>2, <2>3 DEF Link
  <1>5. CASE Undo(t) \/ CancelOld(t)
    <2>1. jobs'[k] = J!RequestCancel(jobs[k]) /\ held' = held
      BY <1>2, <1>5, PutIs DEF Undo, CancelOld, work
    <2>2. jobs[k].status = "running"
      <3>1. /\ jobs[k].status \in J!Status /\ jobs[k].status # "waiting_approval"
            /\ jobs[k].status = "queued" => ~jobs[k].cancel
        BY <1>1 DEF AttemptsFit, Tried, J!Row
      <3> DEFINE s == J!RequestCancel(jobs[k])
      <3>2. /\ s.status = "running" => jobs[k].status = "running"
            /\ s.status \notin J!Terminal => s.status = "running" \/ (s = jobs[k] /\ jobs[k].cancel)
        BY <1>1, RequestIs
      <3> HIDE DEF s
      <3>3. s.status \notin J!Terminal
        BY <2>1 DEF s
      <3>4. QED
        <4>1. CASE s.status = "running"
          BY <3>2, <4>1
        <4>2. CASE s = jobs[k] /\ jobs[k].cancel
          <5>1. jobs[k].status \notin J!Terminal
            BY <3>3, <4>2
          <5>2. QED
            BY <3>1, <4>2, <5>1 DEF J!Status
        <4>3. QED
          BY <3>2, <3>3, <4>1, <4>2
    <2>3. held[p] = k
      BY <1>1, <2>2 DEF HoldFits
    <2>4. QED
      BY <2>1, <2>3 DEF Owned
  <1>6. CASE EnsureStep(t) \/ EnqueueRefused(t)
    BY <1>2, <1>4, <1>5, <1>6 DEF EnsureStep, Enqueue, Repair, EnqueueRefused
  <1>7. CASE t = p
    <2>1. pc[p] # "cancelOld"
      BY <1>1 DEF RemInv, ThreadsFit, ProcFit, FreePc, JobPc, InEnsure
    <2>2. pc[p] \in {"link", "undo"} /\ phase[p] # "down"
      BY <1>1, <1>2, <1>7, <2>1, ProcIs
    <2>3. ~Startup(p) /\ ~WorkerStep(p) /\ ~Recover(p)
      BY <2>2 DEF Startup, Boot, List, Reconcile, Recover, WorkerStep, Claim, Check, Read, Trigger, Notify, Settle
    <2>4. ~Ends(p)
      BY LivesGo
    <2>5. QED
      BY <1>2, <1>3, <1>5, <1>6, <1>7, <2>3, <2>4, ThreadWho DEF ThreadGoes
  <1>8. CASE t \in Callers
    <2>1. ~Recover(p)
      BY <1>2, <1>8 DEF Recover, PhaseFits
    <2>2. ~Ends(p)
      BY LivesGo
    <2>3. t # p
      BY <1>8, Alone
    <2>4. QED
      BY <1>2, <1>3, <1>5, <1>6, <2>1, <2>2, <2>3, ThreadWho DEF ThreadGoes
  <1>9. QED
    BY <1>1, <1>7, <1>8

LEMMA OwnersNext ==
    ASSUME NEW p, CalmStep(p), PhaseFits(p), HoldFits(p), AttemptsFit(p), StaleFits(p), OwnersFit(p)
    PROVE  OwnersFit(p)'
  <1>1. SUFFICES ASSUME lives' = 0, NEW k \in DOMAIN jobs', jobs'[k].status \notin J!Terminal
                 PROVE  Owned(p, k)'
    BY DEF OwnersFit
  <1>2. lives = 0 /\ p \in Threads
    BY <1>1, LivesGo, Alone
  <1>3. CASE k \in DOMAIN jobs
    <2>1. jobs[k].status \notin J!Terminal
      BY <1>1, <1>3, NotEnded
    <2>2. Owned(p, k)
      BY <1>2, <1>3, <2>1 DEF OwnersFit
    <2>3. CASE rows[k.rem].job = k
      BY <1>3, <2>3, OwnerLinked
    <2>4. CASE held[p] = k
      <3>1. held'[p] = k
        BY <1>1, <1>3, <2>4, OwnerHeld
      <3>2. QED
        BY <3>1 DEF Owned
    <2>5. CASE \E t \in Threads : Carries(t, k)
      BY <1>1, <1>3, <2>5, OwnerCarries
    <2>6. QED
      BY <2>2, <2>3, <2>4, <2>5 DEF Owned
  <1>4. CASE k \notin DOMAIN jobs
    <2>1. PICK t \in Threads : pc'[t] = "link" /\ link'[t] = [job |-> k, made |-> TRUE]
      BY <1>1, <1>4, JobsWho DEF JobCome
    <2>2. link'[t].job = k /\ link'[t].made
      BY <2>1
    <2>3. QED
      BY <2>1, <2>2 DEF Owned, Carries
  <1>5. QED
    BY <1>3, <1>4

-----------------------------------------------------------------------------
(* Someone sees to each active reminder that has no job. *)

\* What the process and its callers cannot do while the constructor works.
LEMMA StartingAlone ==
    ASSUME NEW p, CalmStep(p), PhaseFits(p), Recover(p), NEW t \in Threads
    PROVE  pc[t] \in {"down", "recover"}
  <1>1. pc[p] = "recover" /\ phase[p] = "starting"
    BY DEF Recover, PhaseFits
  <1>2. QED
    BY <1>1, Alone DEF PhaseFits

LEMMA FiredGrows ==
    ASSUME NEW p, CalmStep(p), NEW o \in DOMAIN fired
    PROVE  o \in DOMAIN fired'
  <1>1. RemInv /\ TablesMove
    BY TablesStep DEF CalmStep
  <1>2. ASSUME NEW q \in Procs, Recorded(q) PROVE o \in DOMAIN fired'
    BY <1>1, <1>2, RecordIs
  <1>3. QED
    BY <1>1, <1>2 DEF TablesMove, Made, Replaced, Linked, Acked, Told

\* A delivery that was cut short stays so, as long as its revision does.
LEMMA CutShortGo ==
    ASSUME NEW p, CalmStep(p), HoldFits(p), NEW r \in Ids, rows'[r] = rows[r], CutShort(r)
    PROVE  CutShort(r)'
  <1>1. PICK k \in DOMAIN jobs : /\ k.rem = r /\ k.rev = rows[r].rev /\ jobs[k].status = "cancelled"
                                 /\ OccurrenceOf(k) \in DOMAIN fired
    BY DEF CutShort
  <1>2. jobs'[k] = jobs[k] /\ k \in DOMAIN jobs'
    BY <1>1, NotEnded, GrownNext DEF J!Terminal, Grown, CalmStep
  <1>3. OccurrenceOf(k) \in DOMAIN fired'
    BY <1>1, FiredGrows
  <1>4. rows'[r].rev = rows[r].rev
    OBVIOUS
  <1>5. QED
    BY <1>1, <1>2, <1>3, <1>4 DEF CutShort, OccurrenceOf

\* What the process has delivered stays delivered.
LEMMA FiredOfGo ==
    ASSUME NEW p, CalmStep(p), NEW r \in Ids, rows'[r] = rows[r], FiredOf(p, r), held'[p] = held[p]
    PROVE  FiredOf(p, r)'
  BY FiredGrows DEF FiredOf, OccurrenceOf

\* One step of a thread that has the reminder in hand.
LEMMA TendsGo ==
    ASSUME NEW p, CalmStep(p), ForwardInv, AheadFits, PhaseFits(p), StaleFits(p), NEW r \in Ids,
           Active(r), rows[r].job = NoJob, rows'[r] = rows[r],
           NEW t \in Threads, Tends(p, t, r)
    PROVE  Covered(p, r)'
  <1>1. /\ RemInv /\ p \in Procs /\ p \in Threads /\ p \notin Callers /\ Threads = Callers \cup {p}
        /\ pc \in [Threads -> Pc] /\ seen \in [Threads -> Copy \cup {NoCopy}] /\ HomeOf(t) = p
        /\ rows \in [Ids -> Reminder \cup {Absent}] /\ rows[r] \in Reminder
    BY Alone, RowIs DEF CalmStep, RemInv, TypeOK, Active, Exists
  <1>2. /\ seen[t] = CopyOf(r, rows[r]) /\ seen[t] \in Copy /\ seen[t] # NoCopy
        /\ seen[t].status = "active" /\ seen[t].rem = r
        /\ Current(seen[t].rem, seen[t].rev, seen[t].next)
    BY <1>1, CopyIs DEF Tends, Active, Current
  <1>3. ASSUME seen'[t] = seen[t], pc'[t] \in {"cancelOld", "enqueue", "link"} PROVE Covered(p, r)'
    <2>1. seen'[t] = CopyOf(r, rows'[r])
      BY <1>2, <1>3
    <2>2. Tends(p, t, r)'
      BY <1>2, <1>3, <2>1 DEF Tends, CopyOf
    <2>3. QED
      BY <2>2 DEF Covered
  <1>4. CASE Ends(p)
    BY <1>4, LivesGo DEF Covered
  <1>5. CASE Enqueue(t)
    <2> DEFINE k == KeyFor(seen[t], 0)
    <2>1. CASE /\ k \in DOMAIN jobs
               /\ Move(t, IF jobs[k].status \in J!Terminal THEN "repair" ELSE "link",
                       seen[t], [job |-> k, made |-> FALSE])
      <3>1. k.rem = seen[t].rem /\ k.rev = seen[t].rev /\ k.slot = seen[t].next
        BY DEF KeyFor
      <3> HIDE DEF k
      <3>2. jobs[k].status \notin J!Terminal
        BY <1>2, <2>1, <3>1 DEF StaleFits, Stale
      <3>3. Move(t, "link", seen[t], [job |-> k, made |-> FALSE])
        BY <2>1, <3>2
      <3>4. QED
        BY <1>1, <1>3, <3>3 DEF Move
    <2>2. CASE Make(t, k)
      BY <1>1, <1>3, <2>2 DEF Make, Move
    <2>3. QED
      BY <1>5, <2>1, <2>2 DEF Enqueue
  <1>6. CASE Link(t)
    <2>1. rows' = [rows EXCEPT ![r].job = link[t].job]
      BY <1>2, <1>6 DEF Link
    <2>2. rows'[r] = [rows[r] EXCEPT !.job = link[t].job]
      BY <1>1, <2>1
    <2>3. link[t].job \in Key /\ link[t].job # NoJob
      BY <1>1, <1>6, MindThread, NoThings DEF Link, LinkPc
    <2>4. rows'[r].job = link[t].job
      BY <1>1, <2>2, <2>3, LinkedIs
    <2>5. QED
      BY <2>3, <2>4
  <1>7. CASE CancelOld(t)
    <2>1. Move(t, "enqueue", seen[t], NoLink)
      BY <1>2, <1>7 DEF CancelOld, Ensure
    <2>2. QED
      BY <1>1, <1>3, <2>1 DEF Move
  <1>8. CASE EnqueueRefused(t)
    <2>1. phase[p] = "closing" /\ phase' = phase
      BY <1>1, <1>8 DEF EnqueueRefused, Raise, Open
    <2>2. QED
      BY <2>1 DEF Covered
  <1>9. CASE Recover(p)
    BY <1>9, StartingAlone DEF Tends
  <1>10. CASE pc[t] \in {"cancelOld", "enqueue", "link"}
    <2>1. CASE Rests(t)
      BY <1>3, <1>10, <2>1 DEF Rests
    <2>2. ~Repair(t) /\ ~Undo(t) /\ pc[t] # "idle"
      BY <1>10 DEF Repair, Undo
    <2>3. t = p => ~Startup(p) /\ ~WorkerStep(p)
      BY <1>1, <1>10, ProcIs DEF Startup, Boot, List, Reconcile, Recover, WorkerStep, Claim, Check, Read,
         Trigger, Notify, Settle
    <2>4. QED
      BY <1>4, <1>5, <1>6, <1>7, <1>8, <1>9, <2>1, <2>2, <2>3, ThreadWho DEF ThreadGoes, EnsureStep
  <1>11. CASE t = p /\ pc[p] \in {"notify", "check2"} /\ FiredOf(p, r)
    <2>1. held[p] # NoJob
      BY <1>11 DEF FiredOf
    <2>2. ASSUME held'[p] = held[p], seen'[p] = seen[p], pc'[p] \in {"notify", "check2"}
          PROVE  Covered(p, r)'
      <3>1. seen'[p] = CopyOf(r, rows'[r]) /\ FiredOf(p, r)'
        BY <1>2, <1>11, <2>2, FiredOfGo
      <3>2. Tends(p, p, r)'
        BY <1>2, <1>11, <2>2, <3>1 DEF Tends, CopyOf
      <3>3. QED
        BY <1>1, <3>2 DEF Covered
    <2>3. ~Claim(p) /\ ~Settle(p)
      BY <1>11 DEF Claim, Settle
    <2>4. held'[p] = held[p] \/ Ends(p)
      BY <2>3, HeldWho DEF HeldGoes
    <2>5. CASE Rests(p) /\ held'[p] = held[p]
      BY <1>11, <2>2, <2>5 DEF Rests
    <2>6. CASE Notify(p)
      <3>1. seen'[p] = seen[p] /\ pc'[p] = "check2" /\ held' = held
        BY <1>1, <2>6 DEF Notify, Goto, Move, work
      <3>2. QED
        BY <2>2, <3>1
    <2>7. CASE Check(p)
      <3>1. held' = held
        BY <2>7 DEF Check, work
      <3>2. CASE Move(p, "cancel", NoCopy, NoLink)
        <4>1. pc'[p] = "cancel" /\ FiredOf(p, r)'
          BY <1>1, <1>11, <3>1, <3>2, FiredOfGo DEF Move
        <4>2. QED
          BY <4>1 DEF Covered
      <3>3. CASE Ensure(p, seen[p])
        <4>1. Move(p, "enqueue", seen[p], NoLink)
          BY <1>2, <1>11, <3>3 DEF Ensure
        <4>2. QED
          BY <1>1, <1>3, <1>11, <4>1 DEF Move
      <3>4. QED
        BY <1>11, <2>7, <3>2, <3>3 DEF Check
    <2>8. /\ ~EnsureStep(p) /\ ~CancelOld(p) /\ ~EnqueueRefused(p) /\ ~Startup(p)
          /\ ~Read(p) /\ ~Trigger(p)
      BY <1>1, <1>11, ProcIs DEF EnsureStep, Enqueue, Repair, Link, Undo, CancelOld, EnqueueRefused, Startup,
         Boot, List, Reconcile, Recover, Read, Trigger
    <2>9. QED
      BY <1>1, <1>4, <1>9, <1>11, <2>3, <2>4, <2>5, <2>6, <2>7, <2>8, ThreadWho DEF ThreadGoes, WorkerStep
  <1>12. QED
    BY <1>10, <1>11 DEF Tends

\* A reminder whose row stays as it is, and nobody has made a job for.
LEMMA CoverStays ==
    ASSUME NEW p, CalmStep(p), ForwardInv, AheadFits, PhaseFits(p), HoldFits(p), StaleFits(p),
           NEW r \in Ids, Active(r), rows[r].job = NoJob, rows'[r] = rows[r], Covered(p, r)
    PROVE  Covered(p, r)'
  <1>1. /\ RemInv /\ p \in Procs /\ p \in Threads /\ p \notin Callers
        /\ pc \in [Threads -> Pc] /\ seen \in [Threads -> Copy \cup {NoCopy}]
        /\ todo \in [Procs -> SUBSET Copy] /\ rows[r] \in Reminder
        /\ phase \in [Procs -> {"down", "starting", "running", "closing"}]
        /\ phase[p] = "down" => pc[p] = "down"
    BY Alone, RowIs, ProcIs DEF CalmStep, RemInv, TypeOK, Active, Exists
  <1>2. CASE Ends(p)
    BY <1>2, LivesGo DEF Covered
  <1>3. CASE phase[p] \in {"down", "closing"} /\ ~Ends(p)
    <2>1. CASE phase'[p] = phase[p]
      BY <1>3, <2>1 DEF Covered
    <2>2. CASE Boot(p)
      <3>1. pc'[p] = "list"
        BY <1>1, <2>2 DEF Boot, Goto, Move
      <3>2. QED
        BY <3>1 DEF Covered
    <2>3. QED
      BY <1>3, <2>1, <2>2, LivesGo DEF Ends
  <1>4. CASE pc[p] = "list" /\ ~Ends(p)
    <2>1. CASE Rests(p)
      BY <1>4, <2>1 DEF Covered, Rests
    <2>2. CASE List(p)
      <3>1. todo'[p] = {CopyOf(x, rows[x]) : x \in {y \in Ids : rows[y].status = "active"}}
            /\ phase' = phase
        BY <1>1, <2>2 DEF List
      <3>2. phase[p] = "starting"
        BY <1>4 DEF PhaseFits
      <3>3. CopyOf(r, rows[r]) \in todo'[p]
        BY <3>1 DEF Active
      <3>4. CopyOf(r, rows'[r]) \in todo'[p]
        BY <3>3
      <3>5. QED
        BY <3>1, <3>2, <3>4 DEF Covered
    <2>3. ~EnsureStep(p) /\ ~CancelOld(p) /\ ~EnqueueRefused(p) /\ ~Boot(p) /\ ~Reconcile(p) /\ ~Recover(p)
          /\ ~WorkerStep(p)
      BY <1>1, <1>4 DEF EnsureStep, Enqueue, Repair, Link, Undo, CancelOld, EnqueueRefused, Boot, Reconcile,
         Recover, WorkerStep, Claim, Check, Read, Trigger, Notify, Settle
    <2>4. QED
      BY <1>1, <1>4, <2>1, <2>2, <2>3, ThreadWho DEF ThreadGoes, Startup
  <1>5. CASE phase[p] = "starting" /\ CopyOf(r, rows[r]) \in todo[p] /\ ~Ends(p)
    <2> DEFINE c == CopyOf(r, rows[r])
    <2>1. ~Recover(p)
      BY <1>5 DEF Recover, PhaseFits
    <2>2. phase'[p] = "starting"
      BY <1>5, <2>1, LivesGo DEF Ends
    <2>3. CopyOf(r, rows'[r]) = c
      OBVIOUS
    <2>4. CASE c \in todo'[p]
      BY <2>2, <2>3, <2>4 DEF Covered
    <2>5. c.status = "active" /\ c # NoCopy
      BY <1>1, CopyIs DEF Active
    <2>6. c \in todo[p]
      BY <1>5
    <2> HIDE DEF c
    <2>7. CASE c \notin todo'[p]
      <3>2. CASE \E d \in todo[p] : pc[p] = "next" /\ todo'[p] = todo[p] \ {d} /\ Ensure(p, d)
        <4>1. Ensure(p, c)
          BY <2>6, <2>7, <3>2
        <4>2. pc'[p] = "enqueue" /\ seen'[p] = c
          BY <1>1, <2>5, <4>1 DEF Ensure, Move
        <4>3. seen'[p] = CopyOf(r, rows'[r])
          BY <2>3, <4>2
        <4>4. Tends(p, p, r)'
          BY <2>5, <4>2, <4>3 DEF Tends, CopyOf
        <4>5. QED
          BY <1>1, <4>4 DEF Covered
      <3>3. CASE List(p)
        <4>1. todo'[p] = {CopyOf(x, rows[x]) : x \in {y \in Ids : rows[y].status = "active"}}
          BY <1>1, <3>3 DEF List
        <4>2. QED
          BY <2>7, <4>1 DEF Active, c
      <3>4. QED
        BY <1>5, <2>6, <2>7, <3>2, <3>3, TodoWho DEF Ends
    <2>8. QED
      BY <2>4, <2>7
  <1>6. CASE \E t \in Threads : Tends(p, t, r)
    BY <1>6, TendsGo
  <1>7. CASE CutShort(r)
    BY <1>7, CutShortGo DEF Covered
  <1>8. CASE pc[p] = "cancel" /\ FiredOf(p, r) /\ ~Ends(p)
    <2>1. held[p] # NoJob /\ ~Claim(p)
      BY <1>8 DEF FiredOf, Claim
    <2>2. CASE Settle(p)
      <3>1. PICK k \in DOMAIN jobs : k = held[p] /\ k.rem = r /\ k.rev = rows[r].rev
                                     /\ OccurrenceOf(k) \in DOMAIN fired
        BY <1>1, <1>8, <2>1, HeldIs DEF FiredOf
      <3>2. jobs[k] \in J!Row /\ jobs[k].status = "running" /\ jobs[k].max = Attempts
        BY <1>1, <2>1, <3>1, RowFacts DEF HoldFits
      <3>3. jobs'[k] = Settlement(p) /\ k \in DOMAIN jobs'
        BY <2>2, <3>1, PutIs DEF Settle
      <3>4. jobs'[k].status = "cancelled"
        BY <1>1, <1>8, <3>1, <3>2, <3>3, SettlementIs
      <3>5. OccurrenceOf(k) \in DOMAIN fired'
        BY <3>1, FiredGrows
      <3>6. rows'[r].rev = rows[r].rev
        OBVIOUS
      <3>7. CutShort(r)'
        BY <3>1, <3>3, <3>4, <3>5, <3>6 DEF CutShort, OccurrenceOf
      <3>8. QED
        BY <3>7 DEF Covered
    <2>3. CASE ~Settle(p)
      <3>1. held'[p] = held[p]
        BY <1>8, <2>1, <2>3, HeldWho DEF HeldGoes
      <3>2. /\ ~EnsureStep(p) /\ ~CancelOld(p) /\ ~EnqueueRefused(p) /\ ~Startup(p) /\ ~Recover(p)
            /\ ~WorkerStep(p)
        BY <1>1, <1>8, <2>3 DEF EnsureStep, Enqueue, Repair, Link, Undo, CancelOld, EnqueueRefused,
           Startup, Boot, List, Reconcile, Recover, WorkerStep, Claim, Check, Read, Trigger, Notify
      <3>3. Rests(p)
        BY <1>1, <1>8, <3>2, ThreadWho DEF ThreadGoes
      <3>4. pc'[p] = "cancel" /\ FiredOf(p, r)'
        BY <1>8, <3>1, <3>3, FiredOfGo DEF Rests
      <3>5. QED
        BY <3>4 DEF Covered
    <2>4. QED
      BY <2>2, <2>3
  <1>9. QED
    BY <1>2, <1>3, <1>4, <1>5, <1>6, <1>7, <1>8 DEF Covered

LEMMA CoverNext ==
    ASSUME NEW p, CalmStep(p), ForwardInv, AheadFits, PhaseFits(p), HoldFits(p), StaleFits(p), CoverFits(p)
    PROVE  CoverFits(p)'
  <1>1. SUFFICES ASSUME NEW r \in Ids, rows'[r].status = "active", rows'[r].job = NoJob
                 PROVE  Covered(p, r)'
    BY DEF CoverFits, Active
  <1>2. /\ RemInv /\ RemInv' /\ p \in Procs /\ p \in Threads /\ \A t \in Callers : t \in Threads
        /\ rows'[r] \in Reminder
    BY <1>1, CalmFacts, Alone DEF CalmStep, RemInv, TypeOK, Absent
  <1>3. CASE rows'[r] = rows[r]
    <2>1. Active(r) /\ rows[r].job = NoJob
      BY <1>1, <1>3 DEF Active
    <2>2. Covered(p, r)
      BY <2>1 DEF CoverFits
    <2>3. QED
      BY <1>3, <2>1, <2>2, CoverStays
  <1>4. ASSUME NEW t \in Threads, pc'[t] \in {"enqueue", "cancelOld"}, seen'[t] = CopyOf(r, rows'[r])
        PROVE  Covered(p, r)'
    <2>1. seen'[t] # NoCopy
      BY <1>2, <1>4, CopyIs
    <2>2. Tends(p, t, r)'
      BY <1>4, <2>1 DEF Tends, CopyOf
    <2>3. QED
      BY <2>2 DEF Covered
  <1>5. ASSUME NEW t \in Threads, pc[t] = "link", rows'[r].job = link[t].job PROVE FALSE
    BY <1>1, <1>2, <1>5, MindThread, NoThings DEF LinkPc
  <1>6. CASE /\ Recorded(p) /\ r = held[p].rem /\ held'[p] = held[p] /\ rows'[r].rev = held[p].rev
             /\ pc'[p] \in {"notify", "check2"} /\ seen'[p] = CopyOf(r, rows'[r])
    <2>1. held[p] # NoJob /\ OccurrenceOf(held[p]) \in DOMAIN fired'
      BY <1>2, <1>6, RecordIs
    <2>2. FiredOf(p, r)'
      BY <1>6, <2>1 DEF FiredOf, OccurrenceOf
    <2>3. seen'[p] # NoCopy
      BY <1>2, <1>6, CopyIs
    <2>4. Tends(p, p, r)'
      BY <1>6, <2>2, <2>3 DEF Tends, CopyOf
    <2>5. QED
      BY <1>2, <2>4 DEF Covered
  <1>7. RowGoes(p, r)
    BY RowsWho
  <1>8. QED
    BY <1>1, <1>2, <1>3, <1>4, <1>5, <1>6, <1>7 DEF RowGoes

-----------------------------------------------------------------------------
(* The invariant, and what it says when the service is quiet. *)

LEMMA CountersGo ==
    ASSUME RemInv, Next
    PROVE  lives' \in {lives, lives + 1} /\ faults' \in {faults, faults + 1}
  BY ZenonT(30) DEF Next, CallerCalls, Create, CreateAgain, CancelReminder, Reschedule, Acknowledge, CancelJob,
     CallerStep, ProcessStep, EnsureStep, Enqueue, Repair, Link, Undo, CancelOld, EnqueueRefused,
     CallFault, Startup, Boot, List, Reconcile, Recover, Serve, WorkerStep, Claim, Check,
     Read, Trigger, Notify, Settle, Close, Exit, Crash, End, ClaimFault, SettleFault, Tick, BecomeDue,
     Fault, Call, bounds

LEMMA CalmBefore ==
    ASSUME NEW p, Procs = {p}, RemInv, Next, Calm'
    PROVE  Calm /\ CalmStep(p)
  <1>1. lives \in Nat /\ faults \in Nat /\ Attempts \in Nat
    BY RemindersAssumption DEF RemInv, TypeOK
  <1>2. faults' = 0 /\ lives' < Attempts /\ ~JobCancels
    BY DEF Calm
  <1>3. faults = 0 /\ lives < Attempts
    BY <1>1, <1>2, CountersGo
  <1>4. QED
    BY <1>2, <1>3 DEF Calm, CalmStep

LEMMA CalmInvStep ==
    ASSUME Forward, NEW p, Procs = {p}, CalmInv(p), [Next]_vars
    PROVE  CalmInv(p)'
  <1>1. RemInv /\ ForwardInv /\ ForwardInv'
    BY ForwardStep DEF CalmInv, ForwardInv
  <1>2. CASE UNCHANGED vars
    <2>1. UNCHANGED <<rows, fired, jobs, now, phase, pc, seen, link, after, todo, held, calls, lives, faults>>
      BY <1>2 DEF vars, tables, thread, work, bounds
    <2>2. Calm' => Calm
      BY <2>1 DEF Calm
    <2>3. ASSUME Calm PROVE AheadFits' /\ PhaseFits(p)' /\ HoldFits(p)' /\ AttemptsFit(p)'
      BY <2>1, <2>3 DEF CalmInv, AheadFits, NotAhead, PhaseFits, HoldFits, AttemptsFit
    <2>4. ASSUME Calm PROVE StaleFits(p)'
      BY <2>1, <2>4 DEF CalmInv, StaleFits, Stale, Current
    <2>5. ASSUME Calm PROVE OwnersFit(p)'
      BY <2>1, <2>5 DEF CalmInv, OwnersFit, Owned, Carries
    <2>6. ASSUME Calm PROVE CoverFits(p)'
      BY <2>1, <2>6 DEF CalmInv, CoverFits, Covered, Active, Tends, CutShort, FiredOf
    <2>7. QED
      BY <1>1, <2>2, <2>3, <2>4, <2>5, <2>6 DEF CalmInv
  <1>3. CASE Next
    <2>1. ASSUME Calm'
          PROVE  /\ AheadFits' /\ PhaseFits(p)' /\ HoldFits(p)' /\ AttemptsFit(p)'
                 /\ StaleFits(p)' /\ OwnersFit(p)' /\ CoverFits(p)'
      <3>1. Calm /\ CalmStep(p)
        BY <1>1, <1>3, <2>1, CalmBefore
      <3>2. /\ AheadFits /\ PhaseFits(p) /\ HoldFits(p) /\ AttemptsFit(p)
            /\ StaleFits(p) /\ OwnersFit(p) /\ CoverFits(p)
        BY <3>1 DEF CalmInv
      <3>3. lives < Attempts
        BY <3>1 DEF Calm
      <3>4. AheadFits' /\ PhaseFits(p)'
        BY <1>1, <3>1, <3>2, AheadNext, PhaseNext
      <3>5. HoldFits(p)'
        BY <1>1, <3>1, <3>2, HoldNext
      <3>6. AttemptsFit(p)'
        BY <1>1, <3>1, <3>2, AttemptsNext
      <3>7. StaleFits(p)'
        BY <1>1, <3>1, <3>2, <3>3, StaleNext
      <3>8. OwnersFit(p)'
        BY <1>1, <3>1, <3>2, OwnersNext
      <3>9. CoverFits(p)'
        BY <1>1, <3>1, <3>2, CoverNext
      <3>10. QED
        BY <3>4, <3>5, <3>6, <3>7, <3>8, <3>9
    <2>2. QED
      BY <1>1, <2>1 DEF CalmInv
  <1>4. QED
    BY <1>2, <1>3

LEMMA CalmInvInit ==
    ASSUME NEW p, Procs = {p}, Init
    PROVE  CalmInv(p)
  <1>1. p \in Procs /\ p \in Threads /\ \A t \in Callers : t \in Threads
    BY DEF Threads
  <1>2. ForwardInv
    BY RemInit DEF Init, ForwardInv, SlotsAdvance, Threads
  <1>3. DOMAIN jobs = {} /\ \A r \in Ids : ~Active(r)
    BY DEF Init, Active, Absent
  <1>4. /\ \A t \in Threads : pc[t] = "down" /\ seen[t] = NoCopy
        /\ phase[p] = "down" /\ todo[p] = {} /\ held[p] = NoJob
    BY <1>1 DEF Init
  <1>5. AheadFits
    BY <1>3, <1>4 DEF AheadFits, NotAhead, Active, Init
  <1>6. PhaseFits(p)
    BY <1>1, <1>4 DEF PhaseFits, InEnsure
  <1>7. HoldFits(p) /\ AttemptsFit(p) /\ StaleFits(p) /\ OwnersFit(p) /\ CoverFits(p)
    BY <1>3, <1>4 DEF HoldFits, AttemptsFit, StaleFits, OwnersFit, CoverFits
  <1>8. QED
    BY <1>2, <1>5, <1>6, <1>7 DEF CalmInv

LEMMA KeptWhenQuiet ==
    ASSUME NEW p, Procs = {p}, CalmInv(p)
    PROVE  ScheduleKept
  <1>1. SUFFICES ASSUME Quiet, Calm, NEW r \in Ids, Stranded(r) PROVE CutShort(r)
    BY DEF ScheduleKept, Calm
  <1>2. RemInv /\ StaleFits(p) /\ CoverFits(p)
    BY <1>1 DEF CalmInv, ForwardInv
  <1>3. phase[p] = "running" /\ \A t \in Threads : pc[t] \in {"down", "idle", "poll"}
    BY <1>1 DEF Quiet
  <1>4. p \in Threads
    BY DEF Threads
  <1>5. CASE rows[r].job = NoJob
    <2>1. Covered(p, r)
      BY <1>1, <1>2, <1>5 DEF Stranded, CoverFits
    <2>2. QED
      BY <1>3, <1>4, <2>1 DEF Covered, Tends
  <1>6. CASE rows[r].job # NoJob
    <2>1. Exists(r)
      BY <1>1 DEF Stranded, Active, Exists
    <2>2. rows[r].job \in DOMAIN jobs /\ rows[r].job.rem = r
      BY <1>2, <1>6, <2>1 DEF RemInv, LinkedJobFits
    <2>3. ~Stale(rows[r].job)
      BY <1>2, <2>2, LinkedCurrent
    <2>4. jobs[rows[r].job].status \in J!Terminal
      BY <1>1, <1>6 DEF Stranded
    <2>5. QED
      BY <1>2, <2>2, <2>3, <2>4 DEF StaleFits
  <1>7. QED
    BY <1>5, <1>6

LEMMA NothingLeftWhenQuiet ==
    ASSUME NEW p, Procs = {p}, CalmInv(p)
    PROVE  NothingLeftOver
  <1>1. SUFFICES ASSUME Quiet, faults = 0, lives = 0, ~JobCancels,
                        NEW k \in DOMAIN jobs, jobs[k].status \notin J!Terminal
                 PROVE  Active(k.rem) /\ rows[k.rem].job = k
    BY DEF NothingLeftOver
  <1>2. Calm
    BY <1>1, RemindersAssumption DEF Calm
  <1>3. RemInv /\ Owned(p, k)
    BY <1>1, <1>2 DEF CalmInv, ForwardInv, OwnersFit
  <1>4. p \in Procs /\ p \in Threads /\ \A t \in Threads : pc[t] \in {"down", "idle", "poll"}
    BY <1>1 DEF Quiet, Threads
  <1>5. k # NoJob
    BY <1>3, NoThings DEF RemInv, TypeOK
  <1>6. held[p] = NoJob
    <2>1. ProcFit(p)
      BY <1>3, <1>4 DEF RemInv, ThreadsFit
    <2>2. pc[p] \in FreePc
      BY <1>4, <2>1 DEF ProcFit, FreePc, JobPc, InEnsure
    <2>3. QED
      BY <2>1, <2>2 DEF ProcFit
  <1>7. \A t \in Threads : ~Carries(t, k)
    BY <1>4 DEF Carries
  <1>8. rows[k.rem].job = k
    BY <1>3, <1>5, <1>6, <1>7 DEF Owned
  <1>9. QED
    BY <1>3, <1>8, LinkedCurrent

(***************************************************************************)
(* No schedule is lost, in one process and where the clocks do not go      *)
(* back: while no call raises and a job is interrupted less often than it  *)
(* has attempts, an active reminder that the idle service has no job for   *)
(* is one whose delivery was cancelled behind its trigger (_ensure_job,    *)
(* _deliver and reconcile of scheduler.py).                                *)
(***************************************************************************)
THEOREM SchedulesKept ==
    ASSUME Forward, NEW p, Procs = {p} PROVE Spec => []ScheduleKept
  <1>1. Init => CalmInv(p)
    BY CalmInvInit
  <1>2. CalmInv(p) /\ [Next]_vars => CalmInv(p)'
    BY CalmInvStep
  <1>3. CalmInv(p) => ScheduleKept
    BY KeptWhenQuiet
  <1>4. QED
    BY <1>1, <1>2, <1>3, PTL DEF Spec

(***************************************************************************)
(* No job is left over: under the same conditions, and without a crash or  *)
(* a close, the idle service keeps no job to run that no active reminder   *)
(* is linked to (cancel_reminder, reschedule_reminder and _ensure_job      *)
(* cancel the jobs they make superfluous).                                 *)
(***************************************************************************)
THEOREM NothingIsLeftOver ==
    ASSUME Forward, NEW p, Procs = {p} PROVE Spec => []NothingLeftOver
  <1>1. Init => CalmInv(p)
    BY CalmInvInit
  <1>2. CalmInv(p) /\ [Next]_vars => CalmInv(p)'
    BY CalmInvStep
  <1>3. CalmInv(p) => NothingLeftOver
    BY NothingLeftWhenQuiet
  <1>4. QED
    BY <1>1, <1>2, <1>3, PTL DEF Spec

-----------------------------------------------------------------------------
(* What a schedule stands for: the instants of its wall times. *)

\* A quotient is the one number its remainder leaves.
LEMMA DivisionIs ==
    ASSUME NEW n \in Int, NEW d \in Nat \ {0}, NEW c \in 0 .. d - 1
    PROVE  (n * d + c) \div d = n /\ (n * d + c) % d = c
  <1>1. n * d \in Int
    OBVIOUS
  <1> DEFINE a == n * d + c
             q == a \div d
  <1>2. a \in Int
    BY <1>1
  <1>3. q \in Int /\ q * d <= a /\ a < q * d + d /\ a % d \in Int /\ a = q * d + (a % d)
    <2> HIDE DEF a
    <2>1. QED
      BY <1>2
  <1>4. q = n
    <2> HIDE DEF q
    <2>1. SUFFICES ASSUME q # n PROVE FALSE
      OBVIOUS
    <2>2. CASE q + 1 <= n
      <3>1. (q + 1) * d <= n * d /\ (q + 1) * d = q * d + d /\ q * d \in Int
        BY <1>3, <2>2
      <3>2. QED
        BY <1>1, <1>3, <3>1
    <2>3. CASE n + 1 <= q
      <3>1. (n + 1) * d <= q * d /\ (n + 1) * d = n * d + d /\ q * d \in Int
        BY <1>3, <2>3
      <3>2. QED
        BY <1>1, <1>3, <3>1
    <2>4. QED
      BY <1>3, <2>1, <2>2, <2>3
  <1>5. a % d = c
    <2> HIDE DEF q
    <2>1. a = n * d + (a % d)
      BY <1>3, <1>4
    <2>2. QED
      BY <1>1, <1>3, <2>1
  <1>6. QED
    BY <1>4, <1>5

\* A number is its quotient's multiple and its remainder.
LEMMA DivisionOf ==
    ASSUME NEW a \in Int, NEW d \in Nat \ {0}
    PROVE  a = (a \div d) * d + (a % d)
  OBVIOUS

\* Of two numbers with one remainder the later is a divisor later.
LEMMA SameRemainder ==
    ASSUME NEW a \in Int, NEW b \in Int, NEW d \in Nat \ {0}, a < b, a % d = b % d
    PROVE  a + d <= b
  <1> DEFINE p == a \div d
             q == b \div d
             r == a % d
  <1>1. p \in Int /\ q \in Int /\ r \in Int /\ a = p * d + r /\ b = q * d + r
    BY DivisionOf, Division
  <1> HIDE DEF p, q, r
  <1>2. p * d \in Int /\ q * d \in Int /\ p * d < q * d
    BY <1>1
  <1>3. p + 1 <= q
    <2>1. SUFFICES ASSUME q <= p PROVE FALSE
      BY <1>1
    <2>2. q * d <= p * d
      BY <1>1, <2>1
    <2>3. QED
      BY <1>2, <2>2
  <1>4. (p + 1) * d <= q * d /\ (p + 1) * d = p * d + d
    BY <1>1, <1>3
  <1>5. QED
    BY <1>1, <1>2, <1>4

\* Clocks that do not go back show later times at later instants.
LEMMA WallOrder ==
    ASSUME NEW z \in Zone, z.before <= z.after, NEW u \in Int, NEW v \in Int
    PROVE  u < v <=> Wall(z, u) < Wall(z, v)
  BY DEF Wall, Zone

LEMMA DayOrder ==
    ASSUME NEW z \in Zone, z.before <= z.after, NEW u \in Int, NEW v \in Int,
           Wall(z, u) \div Day < Wall(z, v) \div Day
    PROVE  u < v
  <1> DEFINE a == Wall(z, u)
             b == Wall(z, v)
             p == a \div Day
             q == b \div Day
  <1>1. a \in Int /\ b \in Int
    BY WallForward
  <1>2. p \in Int /\ q \in Int /\ p < q /\ a < p * Day + Day /\ q * Day <= b
    <2> HIDE DEF a, b
    <2>1. p \in Int /\ q \in Int /\ a < p * Day + Day /\ q * Day <= b
      BY <1>1, CalendarAssumption, Division
    <2>2. QED
      BY <2>1 DEF a, b
  <1>3. a < b
    <2> HIDE DEF a, b, p, q
    <2>1. (p + 1) * Day <= q * Day /\ (p + 1) * Day = p * Day + Day /\ p * Day \in Int /\ q * Day \in Int
      BY <1>2, CalendarAssumption
    <2>2. QED
      BY <1>1, <1>2, <2>1, CalendarAssumption
  <1>4. QED
    BY <1>3, WallOrder

\* The clocks show a wall time at its instant, or skip it and show a later one.
LEMMA InstantShows ==
    ASSUME NEW z \in Zone, z.before <= z.after, NEW w \in Int
    PROVE  \/ Wall(z, Instant(z, w)) = w
           \/ /\ Instant(z, w) >= z.change
              /\ Instant(z, w) + z.before = w
              /\ NeverShown(z, w)
              /\ w \in Skipped(z)
              /\ Wall(z, Instant(z, w)) = w + z.after - z.before
  BY DEF Wall, Zone, Instant, OccursBefore, OccursAfter, NeverShown, Skipped

\* An instant is that of the wall time shown, and of the one it was skipped for.
LEMMA InstantOf ==
    ASSUME NEW z \in Zone, z.before <= z.after, NEW u \in Int
    PROVE  /\ Instant(z, Wall(z, u)) = u
           /\ u >= z.change /\ NeverShown(z, u + z.before) => Instant(z, u + z.before) = u
  BY DEF Wall, Zone, Instant, OccursBefore, OccursAfter, NeverShown

\* A wall time that is skipped is moved within its day.
LEMMA SameDay ==
    ASSUME NEW z \in Zone, Springs(z), NEW w \in Int
    PROVE  Wall(z, Instant(z, w)) \div Day = w \div Day
  <1>1. CASE Wall(z, Instant(z, w)) = w
    BY <1>1
  <1>2. CASE w \in Skipped(z) /\ Wall(z, Instant(z, w)) = w + z.after - z.before
    BY <1>2 DEF Springs
  <1>3. QED
    BY <1>1, <1>2, InstantShows DEF Springs

LEMMA MeetsIs ==
    ASSUME NEW z \in Zone, Springs(z), NEW rec, rec.kind # "interval",
           NEW u \in Int, NEW slot
    PROVE  Meets(u, slot, rec, z) <=> \E w \in Int : Named(rec, w) /\ u = Instant(z, w)
  <1>1. z.before <= z.after /\ z.before \in Int /\ Wall(z, u) \in Int /\ u + z.before \in Int
    <2>1. z.before \in Int /\ z.before <= z.after
      BY DEF Zone, Springs
    <2>2. QED
      BY <2>1, WallForward
  <1>2. Meets(u, slot, rec, z) <=>
          \/ Named(rec, Wall(z, u))
          \/ /\ u >= z.change
             /\ NeverShown(z, u + z.before)
             /\ Named(rec, u + z.before)
    BY DEF Meets
  <1>3. ASSUME Meets(u, slot, rec, z)
        PROVE  \E w \in Int : Named(rec, w) /\ u = Instant(z, w)
    BY <1>1, <1>2, <1>3, InstantOf
  <1>4. ASSUME NEW w \in Int, Named(rec, w), u = Instant(z, w)
        PROVE  Meets(u, slot, rec, z)
    <2>1. CASE Wall(z, u) = w
      BY <1>2, <1>4, <2>1
    <2>2. CASE u >= z.change /\ u + z.before = w /\ NeverShown(z, w)
      BY <1>2, <1>4, <2>2
    <2>3. QED
      BY <1>1, <1>4, <2>1, <2>2, InstantShows
  <1>5. QED
    BY <1>3, <1>4

-----------------------------------------------------------------------------
(* The candidate of each day, and the first after an instant. *)

LEMMA CandidateIs ==
    ASSUME NEW z \in Zone, Springs(z), NEW c \in 0 .. Day - 1, NEW d \in Int
    PROVE  /\ Candidate(z, d, c) \in Int
           /\ Wall(z, Candidate(z, d, c)) \div Day = d
           /\ d * Day + c \in Int
           /\ (d * Day + c) % Day = c /\ (d * Day + c) \div Day = d
  <1>1. Day \in Nat \ {0} /\ d * Day + c \in Int
    BY CalendarAssumption
  <1>2. (d * Day + c) % Day = c /\ (d * Day + c) \div Day = d
    BY <1>1, DivisionIs
  <1>3. Candidate(z, d, c) = Instant(z, d * Day + c)
    BY DEF Candidate
  <1> DEFINE w == d * Day + c
  <1> HIDE DEF w
  <1>4. Instant(z, w) \in Int /\ Wall(z, Instant(z, w)) \div Day = w \div Day
    BY <1>1, SameDay, WallForward DEF w
  <1>5. QED
    BY <1>1, <1>2, <1>3, <1>4 DEF w

\* The candidate of an earlier day is an earlier instant.
LEMMA CandidateOrder ==
    ASSUME NEW z \in Zone, Springs(z), NEW c \in 0 .. Day - 1,
           NEW d \in Int, NEW e \in Int, d < e
    PROVE  Candidate(z, d, c) < Candidate(z, e, c)
  <1>1. z.before <= z.after
    BY DEF Springs
  <1>2. QED
    BY <1>1, CandidateIs, DayOrder

\* Passed compares instants, where the clocks do not go back.
LEMMA PassedIs ==
    ASSUME NEW z \in Zone, Springs(z), NEW u \in Int, NEW ref \in Int
    PROVE  Passed(z, u, ref) <=> u <= ref
  <1>1. z.before <= z.after /\ Wall(z, u) \in Int /\ Wall(z, ref) \in Int
    BY WallForward DEF Springs
  <1>2. QED
    BY <1>1, WallOrder DEF Passed

\* A daily or weekly recurrence, and the days it names.
Dated ==
    [kind : {"daily"}, time : 0 .. Day - 1]
        \cup [kind : {"weekly"}, weekday : 0 .. Week - 1, time : 0 .. Day - 1]

OnDay(rec, d) == rec.kind = "weekly" => d % Week = rec.weekday

LEMMA DatedIs ==
    ASSUME NEW rec \in Dated
    PROVE  /\ rec.time \in 0 .. Day - 1 /\ rec.kind # "interval"
           /\ rec.kind = "daily" \/ (rec.kind = "weekly" /\ rec.weekday \in 0 .. Week - 1)
  BY DEF Dated

\* The instants of a recurrence are the candidates of its days.
LEMMA MeetsOnDay ==
    ASSUME NEW z \in Zone, Springs(z), NEW rec \in Dated, NEW u \in Int, NEW slot
    PROVE  Meets(u, slot, rec, z) <=>
             \E d \in Int : OnDay(rec, d) /\ u = Candidate(z, d, rec.time)
  <1> DEFINE c == rec.time
  <1>1. c \in 0 .. Day - 1 /\ rec.kind # "interval" /\ Day \in Nat \ {0}
    BY DatedIs, CalendarAssumption
  <1>2. ASSUME NEW w \in Int, Named(rec, w)
        PROVE  \E d \in Int : OnDay(rec, d) /\ Instant(z, w) = Candidate(z, d, c)
    <2>1. w \div Day \in Int /\ w = (w \div Day) * Day + (w % Day)
      BY <1>1, Division, DivisionOf
    <2>2. w % Day = c /\ OnDay(rec, w \div Day)
      BY <1>2 DEF Named, OnDay
    <2>3. Candidate(z, w \div Day, c) = Instant(z, w)
      BY <2>1, <2>2 DEF Candidate
    <2>4. QED
      BY <2>1, <2>2, <2>3
  <1>3. ASSUME NEW d \in Int, OnDay(rec, d)
        PROVE  \E w \in Int : Named(rec, w) /\ Candidate(z, d, c) = Instant(z, w)
    <2> DEFINE w == d * Day + c
    <2>1. w \in Int /\ w % Day = c /\ w \div Day = d
      BY <1>1, CandidateIs
    <2>2. Candidate(z, d, c) = Instant(z, w)
      BY DEF Candidate
    <2> HIDE DEF w
    <2>3. Named(rec, w)
      BY <1>3, <2>1 DEF Named, OnDay
    <2>4. QED
      BY <2>1, <2>2, <2>3
  <1>4. QED
    BY <1>1, <1>2, <1>3, MeetsIs

\* From a day on which a recurrence falls after an instant, it is the first if
\* no day it names before that one does.
LEMMA FirstOnDay ==
    ASSUME NEW z \in Zone, Springs(z), NEW rec \in Dated, NEW slot,
           NEW ref \in Int, NEW d \in Int, OnDay(rec, d),
           Candidate(z, d, rec.time) > ref,
           \A e \in Int : e < d /\ OnDay(rec, e) => Candidate(z, e, rec.time) <= ref
    PROVE  /\ Meets(Candidate(z, d, rec.time), slot, rec, z)
           /\ \A u \in ref + 1 .. Candidate(z, d, rec.time) - 1 : ~Meets(u, slot, rec, z)
  <1> DEFINE c == rec.time
  <1>1. c \in 0 .. Day - 1
    BY DatedIs
  <1>2. Candidate(z, d, c) \in Int
    BY <1>1, CandidateIs
  <1>3. Meets(Candidate(z, d, c), slot, rec, z)
    BY <1>2, MeetsOnDay
  <1>4. ASSUME NEW u \in ref + 1 .. Candidate(z, d, c) - 1, Meets(u, slot, rec, z)
        PROVE  FALSE
    <2>1. u \in Int /\ ref < u /\ u < Candidate(z, d, c)
      BY <1>2, <1>4
    <2>2. PICK e \in Int : OnDay(rec, e) /\ u = Candidate(z, e, c)
      BY <1>4, <2>1, MeetsOnDay
    <2>3. ~ (e < d)
      BY <2>1, <2>2
    <2>4. ~ (d < e)
      BY <1>1, <1>2, <2>1, <2>2, CandidateOrder
    <2>5. QED
      BY <2>1, <2>2, <2>3, <2>4
  <1>5. QED
    BY <1>3, <1>4

\* A day's candidate and the reference, by the day that the clocks show.
LEMMA CandidateSide ==
    ASSUME NEW z \in Zone, Springs(z), NEW c \in 0 .. Day - 1, NEW ref \in Int, NEW d \in Int
    PROVE  /\ d < Wall(z, ref) \div Day => Candidate(z, d, c) < ref
           /\ d > Wall(z, ref) \div Day => Candidate(z, d, c) > ref
  <1>1. z.before <= z.after
    BY DEF Springs
  <1>2. Candidate(z, d, c) \in Int /\ Wall(z, Candidate(z, d, c)) \div Day = d
    BY CandidateIs
  <1>3. Wall(z, ref) \div Day \in Int
    BY WallForward, Division, CalendarAssumption
  <1> DEFINE u == Candidate(z, d, c)
  <1> HIDE DEF u
  <1>4. d < Wall(z, ref) \div Day => u < ref
    BY <1>1, <1>2, DayOrder DEF u
  <1>5. Wall(z, ref) \div Day < d => ref < u
    BY <1>1, <1>2, DayOrder DEF u
  <1>6. QED
    BY <1>2, <1>3, <1>4, <1>5 DEF u

LEMMA DailyFirst ==
    ASSUME NEW z \in Zone, Springs(z), NEW rec \in Dated, rec.kind = "daily",
           NEW slot, NEW ref \in Int
    PROVE  LET next == NextDaily(rec.time, z, ref)
           IN  /\ next \in Int /\ next > ref
               /\ Meets(next, slot, rec, z)
               /\ \A u \in ref + 1 .. next - 1 : ~Meets(u, slot, rec, z)
  <1> DEFINE c == rec.time
             d == Wall(z, ref) \div Day
             S(e) == Candidate(z, e, c)
  <1>1. c \in 0 .. Day - 1 /\ d \in Int /\ d + 1 \in Int
    BY DatedIs, WallForward, Division, CalendarAssumption
  <1>2. \A e \in Int : S(e) \in Int /\ OnDay(rec, e)
    BY <1>1, CandidateIs DEF OnDay
  <1>3. /\ \A e \in Int : e < d => S(e) <= ref
        /\ S(d + 1) > ref
    <2>1. \A e \in Int : e < d => S(e) < ref
      BY <1>1, CandidateSide
    <2>2. S(d + 1) > ref
      BY <1>1, CandidateSide
    <2> HIDE DEF S, d
    <2>3. QED
      BY <1>2, <2>1, <2>2
  <1>4. NextDaily(c, z, ref) = IF S(d) <= ref THEN S(d + 1) ELSE S(d)
    <2>1. Passed(z, S(d), ref) <=> S(d) <= ref
      BY <1>1, <1>2, PassedIs
    <2>2. NextDaily(c, z, ref) = IF Passed(z, S(d), ref) THEN S(d + 1) ELSE S(d)
      BY DEF NextDaily
    <2>3. QED
      BY <2>1, <2>2
  <1>5. CASE S(d) <= ref
    <2>1. \A e \in Int : e < d + 1 /\ OnDay(rec, e) => S(e) <= ref
      <3> HIDE DEF S, d, c
      <3>1. \A e \in Int : e < d + 1 => e < d \/ e = d
        BY <1>1
      <3>2. QED
        BY <1>3, <1>5, <3>1
    <2>2. /\ Meets(S(d + 1), slot, rec, z)
          /\ \A u \in ref + 1 .. S(d + 1) - 1 : ~Meets(u, slot, rec, z)
      <3> HIDE DEF d
      <3>1. QED
        BY <1>1, <1>2, <1>3, <2>1, FirstOnDay
    <2>3. NextDaily(c, z, ref) = S(d + 1)
      BY <1>4, <1>5
    <2> HIDE DEF S, d
    <2>4. QED
      BY <1>1, <1>2, <1>3, <2>2, <2>3
  <1>6. CASE S(d) > ref
    <2>1. /\ Meets(S(d), slot, rec, z)
          /\ \A u \in ref + 1 .. S(d) - 1 : ~Meets(u, slot, rec, z)
      <3> HIDE DEF d
      <3>1. QED
        BY <1>1, <1>2, <1>3, <1>6, FirstOnDay
    <2>2. NextDaily(c, z, ref) = S(d)
      <3> HIDE DEF S, d
      <3>1. ~ (S(d) <= ref)
        BY <1>1, <1>2, <1>6
      <3>2. QED
        BY <1>4, <3>1
    <2> HIDE DEF S, d
    <2>3. QED
      BY <1>1, <1>2, <1>6, <2>1, <2>2
  <1>7. S(d) <= ref \/ S(d) > ref
    <2> HIDE DEF S, d
    <2>1. QED
      BY <1>1, <1>2
  <1>8. QED
    BY <1>5, <1>6, <1>7

\* The day of the week that comes next, from a day on.
LEMMA AheadIs ==
    ASSUME NEW day \in 0 .. Week - 1, NEW d \in Int
    PROVE  LET a == (day - d) % Week
           IN  a \in 0 .. Week - 1 /\ (d + a) % Week = day /\ (d + a + Week) % Week = day
  <1> DEFINE q == (day - d) \div Week
             a == (day - d) % Week
  <1>1. Week \in Nat \ {0} /\ day - d \in Int
    BY CalendarAssumption
  <1>2. a \in 0 .. Week - 1 /\ q \in Int /\ day - d = q * Week + a
    BY <1>1, Division, DivisionOf
  <1> HIDE DEF q, a
  <1>3. q * Week \in Int /\ (-q) * Week = -(q * Week) /\ (1 - q) * Week = Week - q * Week
    BY <1>1, <1>2
  <1>4. d + a = (-q) * Week + day /\ d + a + Week = (1 - q) * Week + day
    BY <1>1, <1>2, <1>3
  <1>5. ((-q) * Week + day) % Week = day /\ ((1 - q) * Week + day) % Week = day
    <2>1. \A n \in Int : (n * Week + day) % Week = day
      BY <1>1, DivisionIs
    <2>2. -q \in Int /\ 1 - q \in Int
      BY <1>2
    <2>3. QED
      BY <2>1, <2>2
  <1>6. QED
    BY <1>2, <1>4, <1>5 DEF a

LEMMA WeeklyFirst ==
    ASSUME NEW z \in Zone, Springs(z), NEW rec \in Dated, rec.kind = "weekly",
           NEW slot, NEW ref \in Int
    PROVE  LET next == NextWeekly(rec.weekday, rec.time, z, ref)
           IN  /\ next \in Int /\ next > ref
               /\ Meets(next, slot, rec, z)
               /\ \A u \in ref + 1 .. next - 1 : ~Meets(u, slot, rec, z)
  <1> DEFINE c == rec.time
             day == rec.weekday
             d == Wall(z, ref) \div Day
             a == (day - d) % Week
             n == d + a
             S(e) == Candidate(z, e, c)
  <1>1. c \in 0 .. Day - 1 /\ day \in 0 .. Week - 1 /\ d \in Int /\ Week \in Nat \ {0}
    BY DatedIs, WallForward, Division, CalendarAssumption
  <1>2. /\ a \in 0 .. Week - 1 /\ n \in Int /\ n + Week \in Int
        /\ n % Week = day /\ (n + Week) % Week = day
    <2> HIDE DEF d
    <2>1. a \in 0 .. Week - 1 /\ (d + a) % Week = day /\ (d + a + Week) % Week = day
      BY <1>1, AheadIs
    <2>2. QED
      BY <1>1, <2>1
  <1>3. \A e \in Int : S(e) \in Int /\ Wall(z, S(e)) \div Day = e
    BY <1>1, CandidateIs
  <1>4. \A e \in Int : OnDay(rec, e) <=> e % Week = day
    BY DEF OnDay
  <1>5. \A e \in Int : e < n /\ OnDay(rec, e) => S(e) <= ref
    <2> SUFFICES ASSUME NEW e \in Int, e < n, OnDay(rec, e) PROVE S(e) <= ref
      OBVIOUS
    <2>1. e + Week <= n
      BY <1>1, <1>2, <1>4, SameRemainder
    <2>2. e < d
      <3> HIDE DEF d, a
      <3>1. QED
        BY <1>1, <1>2, <2>1
    <2>3. S(e) < ref
      BY <1>1, <2>2, CandidateSide
    <2>4. QED
      BY <1>3, <2>3
  <1>6. NextWeekly(day, c, z, ref) = IF S(n) <= ref THEN S(n + Week) ELSE S(n)
    <2>1. Passed(z, S(n), ref) <=> S(n) <= ref
      BY <1>2, <1>3, PassedIs
    <2>2. NextWeekly(day, c, z, ref) = IF Passed(z, S(n), ref)
                                       THEN S((Wall(z, S(n)) \div Day) + Week) ELSE S(n)
      BY DEF NextWeekly
    <2>3. Wall(z, S(n)) \div Day = n
      BY <1>2, <1>3
    <2>4. QED
      BY <2>1, <2>2, <2>3
  <1> HIDE DEF a, n
  <1>7. CASE S(n) <= ref
    <2>1. S(n + Week) > ref
      <3>1. n + Week > d
        <4>1. a \in 0 .. Week - 1 /\ n = d + a
          BY <1>2 DEF n
        <4> HIDE DEF d
        <4>2. QED
          BY <1>1, <4>1
      <3>2. QED
        BY <1>1, <1>2, <3>1, CandidateSide
    <2>2. \A e \in Int : e < n + Week /\ OnDay(rec, e) => S(e) <= ref
      <3> SUFFICES ASSUME NEW e \in Int, e < n + Week, OnDay(rec, e) PROVE S(e) <= ref
        OBVIOUS
      <3>1. CASE e < n
        BY <1>5, <3>1
      <3>2. CASE e = n
        BY <1>7, <3>2
      <3>3. ~ (n < e)
        <4>1. n < e => n + Week <= e
          BY <1>1, <1>2, <1>4, SameRemainder
        <4> HIDE DEF S, d, c
        <4>2. QED
          BY <1>1, <1>2, <4>1
      <3>4. QED
        BY <1>2, <3>1, <3>2, <3>3
    <2>3. /\ Meets(S(n + Week), slot, rec, z)
          /\ \A u \in ref + 1 .. S(n + Week) - 1 : ~Meets(u, slot, rec, z)
      BY <1>2, <1>4, <2>1, <2>2, FirstOnDay
    <2>4. NextWeekly(day, c, z, ref) = S(n + Week)
      BY <1>6, <1>7
    <2> HIDE DEF S, d
    <2>5. QED
      BY <1>2, <1>3, <2>1, <2>3, <2>4
  <1>8. CASE S(n) > ref
    <2>1. /\ Meets(S(n), slot, rec, z)
          /\ \A u \in ref + 1 .. S(n) - 1 : ~Meets(u, slot, rec, z)
      BY <1>2, <1>4, <1>5, <1>8, FirstOnDay
    <2>2. NextWeekly(day, c, z, ref) = S(n)
      <3> HIDE DEF S, d
      <3>1. ~ (S(n) <= ref)
        BY <1>2, <1>3, <1>8
      <3>2. QED
        BY <1>6, <3>1
    <2> HIDE DEF S, d
    <2>3. QED
      BY <1>2, <1>3, <1>8, <2>1, <2>2
  <1>9. S(n) <= ref \/ S(n) > ref
    <2> HIDE DEF S, d
    <2>1. QED
      BY <1>2, <1>3
  <1>10. QED
    BY <1>7, <1>8, <1>9

LEMMA IntervalFirst ==
    ASSUME NEW slot \in Int, NEW s \in Nat \ {0}, NEW ref \in Int
    PROVE  LET next == NextInterval(slot, s, ref)
           IN  /\ next \in Int /\ next > ref
               /\ (next - slot) % s = 0
               /\ \A u \in ref + 1 .. next - 1 : (u - slot) % s # 0
  <1> DEFINE q == (ref - slot) \div s
             next == NextInterval(slot, s, ref)
  <1>1. q \in Int /\ q * s <= ref - slot /\ q * s \in Int /\ q + 1 \in Int
    BY Division
  <1>2. next = slot + (q + 1) * s
    BY DEF NextInterval
  <1>3. next \in Int /\ next > ref
    BY IntervalLater
  <1> HIDE DEF q, next
  <1>4. (q + 1) * s = q * s + s /\ (q + 1) * s \in Int
    BY <1>1
  <1>5. next - slot = (q + 1) * s + 0
    BY <1>2, <1>4
  <1>6. (next - slot) % s = 0
    <2>1. \A n \in Int : (n * s + 0) % s = 0
      BY DivisionIs
    <2>2. QED
      BY <1>1, <1>5, <2>1
  <1>7. ASSUME NEW u \in ref + 1 .. next - 1, (u - slot) % s = 0 PROVE FALSE
    <2>1. u \in Int /\ ref < u /\ u < next /\ u - slot \in Int /\ next - slot \in Int
      BY <1>3, <1>7
    <2>2. u - slot < next - slot
      BY <1>3, <2>1
    <2>3. u - slot + s <= next - slot
      BY <1>6, <1>7, <2>1, <2>2, SameRemainder
    <2>4. QED
      BY <1>1, <1>2, <1>4, <2>1, <2>3
  <1>8. QED
    BY <1>3, <1>6, <1>7 DEF next

(***************************************************************************)
(* next_occurrence (recurrence.py) gives the first time after the slot and *)
(* the moment that a recurrence stands for, by interval, day or week, in   *)
(* every zone whose clocks go forward or stay.                             *)
(***************************************************************************)
THEOREM NextIsFirst ==
    ASSUME NEW z \in Zone, Springs(z), NEW rec \in Rule \ {Once},
           NEW slot \in Int, NEW at \in Int
    PROVE  FirstLater(slot, rec, z, at)
  <1> DEFINE ref == Later(slot, at)
             next == NextOccurrence(slot, rec, z, at)
  <1>1. ref \in Int /\ ref >= slot /\ ref >= at
    BY DEF Later
  <1>2. /\ next \in Int /\ next > ref
        /\ Meets(next, slot, rec, z)
        /\ \A u \in ref + 1 .. next - 1 : ~Meets(u, slot, rec, z)
    <2> HIDE DEF ref
    <2>1. CASE rec \in [kind : {"interval"}, seconds : Nat \ {0}]
      <3>1. rec.kind = "interval" /\ rec.seconds \in Nat \ {0}
        BY <2>1
      <3>2. next = NextInterval(slot, rec.seconds, ref)
        BY <3>1 DEF NextOccurrence, ref
      <3>3. \A u : Meets(u, slot, rec, z) <=> (u - slot) % rec.seconds = 0
        BY <3>1 DEF Meets
      <3> HIDE DEF next
      <3>4. /\ next \in Int /\ next > ref
            /\ (next - slot) % rec.seconds = 0
            /\ \A u \in ref + 1 .. next - 1 : (u - slot) % rec.seconds # 0
        BY <1>1, <3>1, <3>2, IntervalFirst
      <3>5. QED
        BY <3>3, <3>4
    <2>2. CASE rec \in [kind : {"daily"}, time : 0 .. Day - 1]
      <3>1. rec.kind = "daily" /\ rec \in Dated
        BY <2>2 DEF Dated
      <3>2. next = NextDaily(rec.time, z, ref)
        BY <3>1 DEF NextOccurrence, ref
      <3> HIDE DEF next
      <3>3. QED
        BY <1>1, <3>1, <3>2, DailyFirst
    <2>3. CASE rec \in [kind : {"weekly"}, weekday : 0 .. Week - 1, time : 0 .. Day - 1]
      <3>1. rec.kind = "weekly" /\ rec \in Dated
        BY <2>3 DEF Dated
      <3>2. next = NextWeekly(rec.weekday, rec.time, z, ref)
        BY <3>1 DEF NextOccurrence, ref
      <3> HIDE DEF next
      <3>3. QED
        BY <1>1, <3>1, <3>2, WeeklyFirst
    <2>4. QED
      BY <2>1, <2>2, <2>3 DEF Rule
  <1> HIDE DEF next, ref
  <1>3. next > slot /\ next > at
    BY <1>1, <1>2
  <1>4. QED
    BY <1>2, <1>3 DEF FirstLater, next, ref

(***************************************************************************)
(* MovesToFirstLater of every behaviour (recurrence.py): from every slot   *)
(* that a reminder comes to stand at.                                      *)
(***************************************************************************)
THEOREM FirstLaterTaken == Spec => []MovesToFirstLater
  <1>1. ASSUME NEW slot \in Moments PROVE FollowedFrom[slot]
    <2>1. ASSUME NEW zone \in Zones, NEW recurrence \in Schedules, NEW late \in 0 .. Late
          PROVE  FirstLater(slot, recurrence, zone, slot + late)
      <3>1. /\ zone \in Zone /\ Springs(zone) /\ recurrence \in Rule \ {Once}
            /\ slot \in Int /\ slot + late \in Int
        BY SchedulesAssumption
      <3>2. QED
        BY <3>1, NextIsFirst
    <2>2. Followed(slot)
      BY <2>1 DEF Followed
    <2>3. QED
      BY <2>2 DEF FollowedFrom
  <1>2. MovesToFirstLater
    BY <1>1 DEF MovesToFirstLater
  <1>3. QED
    BY <1>2, PTL
=============================================================================
