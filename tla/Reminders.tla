----------------------------- MODULE Reminders -----------------------------
(***************************************************************************)
(* Durable reminders: the tables reminders and reminder_occurrences, the   *)
(* delivery jobs that stand behind them, and the threads that act on them  *)
(* (src/reminders/scheduler.py over src/repositories/                      *)
(* reminder_repository.py, on the job substrate of DurableJobs).           *)
(*                                                                         *)
(* A process first constructs its service, which reconciles the active     *)
(* reminders and recovers interrupted jobs, and then runs its job worker;  *)
(* both are the thread named after the process.  Callers are further       *)
(* threads of a process: the command line and the reminder tool.  Every    *)
(* thread keeps a detached copy of the reminder row it last read, and may  *)
(* act on it after the row has changed.                                    *)
(*                                                                         *)
(* A database call is one step.  The enqueue of DurableJobs is one step    *)
(* here: whatever happens between its lookup and its insert, it answers    *)
(* with the one job of its key.  A delivery job is named by its key.       *)
(***************************************************************************)
EXTENDS Recurrence, FiniteSets

CONSTANTS
    Ids,           \* reminders that may be created
    Procs,         \* processes that share the database
    Callers,       \* threads that call the reminder service
    Home,          \* the process of a caller
    Slots,         \* the times callers ask for
    Recurrences,   \* the recurrences callers ask for
    Local,         \* the zone of the reminders
    Attempts,      \* max_attempts of reminder.deliver
    MaxNow,        \* bound: the last time the clock shows
    MaxCalls,      \* bound: calls after the creation of the reminders
    MaxLives,      \* bound: crashes and closes
    MaxFaults,     \* bound: calls that raise
    JobCancels     \* whether callers also cancel delivery jobs directly

ASSUME RemindersAssumption ==
    /\ Procs \cap Callers = {}
    /\ Home \in [Callers -> Procs]
    /\ Slots \subseteq Nat
    /\ Recurrences \subseteq Rule
    /\ Local \in Zone
    /\ Attempts \in Nat \ {0}
    /\ MaxNow \in Nat /\ MaxCalls \in Nat
    /\ MaxLives \in Nat /\ MaxFaults \in Nat
    /\ JobCancels \in BOOLEAN

Threads == Procs \cup Callers

HomeOf(t) == IF t \in Procs THEN t ELSE Home[t]

NoTime == -1

\* _job_key; copies of the key are told apart by their repair suffix.
Key == [rem : Ids, rev : Nat \ {0}, slot : Int, copy : Nat]

\* No job: the next_job_id that is NULL, and the job of an idle worker.
NoJob == [rem |-> "none", rev |-> 0, slot |-> NoTime, copy |-> 0]

\* One row of the jobs table, and the methods of its repository.
J == INSTANCE JobRows WITH Scopes <- Ids, Keys <- Key, NoKey <- NoJob

Occurrence == [rem : Ids, rev : Nat \ {0}, slot : Int]

Absent == [status |-> "absent"]

Reminder ==
    [status : {"active", "completed", "cancelled"},
     rev    : Nat \ {0},             \* revision
     rec    : Recurrences,           \* recurrence
     next   : Int,                   \* next_run_at
     job    : Key \cup {NoJob},      \* next_job_id
     count  : Nat]                   \* trigger_count

\* What a thread remembers of a reminder it has read.
Copy == [rem : Ids, status : {"active", "completed", "cancelled"},
         rev : Nat \ {0}, rec : Recurrences, next : Int]

NoCopy == [status |-> "none"]
NoLink == [job |-> NoJob, made |-> FALSE]

VARIABLES
    rows,     \* the reminders table
    fired,    \* reminder_occurrences: of each, how often it was notified
              \* and whether it is acknowledged
    jobs,     \* the delivery jobs
    now,      \* the clock
    phase,    \* a process: down, starting, running or closing
    pc,       \* where a thread is
    seen,     \* the copy of a reminder row a thread works with
    link,     \* the job a thread is about to link or cancel, and whether
              \* this thread made it
    after,    \* next_run_at as _deliver computed it before trigger
    todo,     \* the reminders a starting process still has to reconcile
    held,     \* the delivery job a worker executes
    calls, lives, faults    \* bound counters

tables == <<rows, fired, jobs>>
thread == <<pc, seen, link>>
work == <<after, todo, held>>
bounds == <<calls, lives, faults>>
vars == <<tables, now, phase, thread, work, bounds>>

Pc == {"down", "idle",                           \* no call, no process
       "list", "next", "recover", "poll",        \* a process and its worker
       "check", "read", "trigger", "notify", "check2",     \* _deliver
       "enqueue", "repair", "link", "undo",      \* _ensure_job
       "cancelOld",                              \* cancel and reschedule
       "finish", "cancel", "fail"}               \* the end of run_once

TypeOK ==
    /\ rows \in [Ids -> Reminder \cup {Absent}]
    /\ DOMAIN fired \subseteq Occurrence
    /\ \A o \in DOMAIN fired : fired[o] \in [told : Nat, acked : BOOLEAN]
    /\ DOMAIN jobs \subseteq Key
    /\ \A k \in DOMAIN jobs : jobs[k] \in J!Row
    /\ now \in Nat
    /\ phase \in [Procs -> {"down", "starting", "running", "closing"}]
    /\ pc \in [Threads -> Pc]
    /\ seen \in [Threads -> Copy \cup {NoCopy}]
    /\ link \in [Threads -> [job : Key \cup {NoJob}, made : BOOLEAN]]
    /\ after \in [Procs -> Int]
    /\ todo \in [Procs -> SUBSET Copy]
    /\ held \in [Procs -> Key \cup {NoJob}]
    /\ calls \in Nat /\ lives \in Nat /\ faults \in Nat

Init ==
    /\ rows = [r \in Ids |-> Absent]
    /\ fired = [o \in {} |-> Absent]
    /\ jobs = [k \in {} |-> Absent]
    /\ now = 0
    /\ phase = [p \in Procs |-> "down"]
    /\ pc = [t \in Threads |-> "down"]
    /\ seen = [t \in Threads |-> NoCopy]
    /\ link = [t \in Threads |-> NoLink]
    /\ after = [p \in Procs |-> NoTime]
    /\ todo = [p \in Procs |-> {}]
    /\ held = [p \in Procs |-> NoJob]
    /\ calls = 0 /\ lives = 0 /\ faults = 0

-----------------------------------------------------------------------------
(* Rows and threads. *)

Exists(r) == rows[r].status # "absent"

CopyOf(r, row) == [rem |-> r, status |-> row.status, rev |-> row.rev,
                   rec |-> row.rec, next |-> row.next]

\* The row still is what set_next_job and trigger were asked about.
Current(r, rev, slot) ==
    /\ rows[r].status = "active"
    /\ rows[r].rev = rev
    /\ rows[r].next = slot

\* Where a thread goes when _ensure_job returns: the worker ends its job, a
\* starting process takes the next reminder, a caller's call is over.
Return(t) == IF t \notin Procs THEN "idle"
             ELSE IF held[t] # NoJob THEN "finish"
             ELSE "next"

Move(t, label, copy, job) ==
    /\ pc' = [pc EXCEPT ![t] = label]
    /\ seen' = [seen EXCEPT ![t] = copy]
    /\ link' = [link EXCEPT ![t] = job]

\* A thread goes on with the same reminder, or is done with it.
Goto(t, label) == Move(t, label, seen[t], NoLink)
Done(t) == Move(t, Return(t), NoCopy, NoLink)

\* _ensure_job does nothing for a reminder that is not active.
Ensure(t, copy) == IF copy.status = "active"
                   THEN Move(t, "enqueue", copy, NoLink)
                   ELSE Done(t)

Put(k, row) ==
    jobs' = [i \in DOMAIN jobs \cup {k} |-> IF i = k THEN row ELSE jobs[i]]

\* The process of a thread lets it call the job runtime.
Open(t) == phase[HomeOf(t)] # "closing"

IdleCaller(t) == t \in Callers /\ pc[t] = "idle"

Call == calls < MaxCalls /\ calls' = calls + 1

-----------------------------------------------------------------------------
(* Callers. *)

\* Mutant: revisions are counted from zero.
UnrevisedReminder(slot, rec) ==
    [status |-> "active", rev |-> 0, rec |-> rec, next |-> slot,
     job |-> NoJob, count |-> 0]

NewReminder(slot, rec) ==
    [status |-> "active", rev |-> 1, rec |-> rec, next |-> slot,
     job |-> NoJob, count |-> 0]

\* create_reminder of a new reminder, up to its insertion.
Create(t, r) ==
    /\ IdleCaller(t)
    /\ ~Exists(r)
    /\ \E slot \in Slots, rec \in Recurrences :
          LET row == NewReminder(slot, rec)
          IN /\ rows' = [rows EXCEPT ![r] = row]
             /\ Ensure(t, CopyOf(r, row))
    /\ UNCHANGED <<fired, jobs, now, phase, work, bounds>>

\* create_reminder with the idempotency key of a reminder that exists.
CreateAgain(t, r) ==
    /\ IdleCaller(t)
    /\ Call
    /\ Exists(r)
    /\ Ensure(t, CopyOf(r, rows[r]))
    /\ UNCHANGED <<tables, now, phase, work, lives, faults>>

\* The thread goes on to cancel the job that was linked before, if any.
Replace(t, r, row) ==
    /\ rows' = [rows EXCEPT ![r] = row]
    /\ IF rows[r].job = NoJob
       THEN Ensure(t, CopyOf(r, row))
       ELSE Move(t, "cancelOld", CopyOf(r, row),
                 [job |-> rows[r].job, made |-> FALSE])

\* The transaction of cancel_reminder.
CancelReminder(t, r) ==
    /\ IdleCaller(t)
    /\ Call
    /\ rows[r].status = "active"
    /\ Replace(t, r, [rows[r] EXCEPT !.status = "cancelled", !.next = NoTime,
                                     !.job = NoJob])
    /\ UNCHANGED <<fired, jobs, now, phase, work, lives, faults>>

\* Mutant: the revision is not advanced.
RescheduleSameRevision(t, r) ==
    /\ IdleCaller(t)
    /\ Call
    /\ rows[r].status \in {"active", "completed"}
    /\ \E slot \in Slots, rec \in Recurrences :
          Replace(t, r, [rows[r] EXCEPT !.status = "active", !.rec = rec,
                                        !.next = slot, !.job = NoJob])
    /\ UNCHANGED <<fired, jobs, now, phase, work, lives, faults>>

\* The transaction of reschedule_reminder.  A recurrence that is not given is
\* the one an earlier read found, which is one of Recurrences as well.
Reschedule(t, r) ==
    /\ IdleCaller(t)
    /\ Call
    /\ rows[r].status \in {"active", "completed"}
    /\ \E slot \in Slots, rec \in Recurrences :
          Replace(t, r, [rows[r] EXCEPT !.status = "active", !.rev = @ + 1,
                                        !.rec = rec, !.next = slot,
                                        !.job = NoJob])
    /\ UNCHANGED <<fired, jobs, now, phase, work, lives, faults>>

\* cancel_reminder and reschedule_reminder cancel the job they replaced.
CancelOld(t) ==
    /\ pc[t] = "cancelOld"
    /\ Put(link[t].job, J!RequestCancel(jobs[link[t].job]))
    /\ Ensure(t, seen[t])
    /\ UNCHANGED <<rows, fired, now, phase, work, bounds>>

Acknowledge(t, o) ==
    /\ IdleCaller(t)
    /\ Call
    /\ ~fired[o].acked
    /\ fired' = [fired EXCEPT ![o].acked = TRUE]
    /\ UNCHANGED <<rows, jobs, now, phase, thread, work, lives, faults>>

\* cancel_job of the job runtime, which the service offers for any job.
CancelJob(t, k) ==
    /\ IdleCaller(t)
    /\ JobCancels
    /\ Call
    /\ Put(k, J!RequestCancel(jobs[k]))
    /\ UNCHANGED <<rows, fired, now, phase, thread, work, lives, faults>>

-----------------------------------------------------------------------------
(* _ensure_job, in whichever thread. *)

KeyFor(copy, n) ==
    [rem |-> copy.rem, rev |-> copy.rev, slot |-> copy.next, copy |-> n]

DeliveryJob(k) == J!NewRow(k.rem, k, Attempts, k.slot <= now)

Make(t, k) ==
    /\ Put(k, DeliveryJob(k))
    /\ Move(t, "link", seen[t], [job |-> k, made |-> TRUE])

\* The first enqueue: it finds the job of this key or inserts it.
Enqueue(t) ==
    /\ pc[t] = "enqueue"
    /\ Open(t)
    /\ LET k == KeyFor(seen[t], 0) IN
          \/ /\ k \in DOMAIN jobs
             /\ Move(t, IF jobs[k].status \in J!Terminal THEN "repair"
                                                          ELSE "link",
                     seen[t], [job |-> k, made |-> FALSE])
             /\ UNCHANGED jobs
          \/ /\ k \notin DOMAIN jobs
             /\ Make(t, k)
    /\ UNCHANGED <<rows, fired, now, phase, work, bounds>>

\* A repair key nobody has used.
Unused(copy) ==
    CHOOSE n \in 1 .. Cardinality(DOMAIN jobs) + 1 :
        KeyFor(copy, n) \notin DOMAIN jobs

\* The second enqueue, in place of a job that has ended.
Repair(t) ==
    /\ pc[t] = "repair"
    /\ Open(t)
    /\ Make(t, KeyFor(seen[t], Unused(seen[t])))
    /\ UNCHANGED <<rows, fired, now, phase, work, bounds>>

\* Mutant: set_next_job links the job to whatever the reminder has become.
LinkAnyway(t) ==
    /\ pc[t] = "link"
    /\ rows' = [rows EXCEPT ![seen[t].rem].job = link[t].job]
    /\ Done(t)
    /\ UNCHANGED <<fired, jobs, now, phase, work, bounds>>

\* set_next_job
Link(t) ==
    /\ pc[t] = "link"
    /\ LET c == seen[t] IN
          \/ /\ Current(c.rem, c.rev, c.next)
             /\ rows' = [rows EXCEPT ![c.rem].job = link[t].job]
             /\ Done(t)
          \/ /\ ~Current(c.rem, c.rev, c.next)
             /\ IF link[t].made THEN Move(t, "undo", c, link[t]) ELSE Done(t)
             /\ UNCHANGED rows
    /\ UNCHANGED <<fired, jobs, now, phase, work, bounds>>

\* Mutant: a job that could not be linked is left in the queue.
KeepUnlinked(t) ==
    /\ pc[t] = "undo"
    /\ Done(t)
    /\ UNCHANGED <<tables, now, phase, work, bounds>>

\* The reminder changed in between: the job just made is not wanted.
Undo(t) ==
    /\ pc[t] = "undo"
    /\ Put(link[t].job, J!RequestCancel(jobs[link[t].job]))
    /\ Done(t)
    /\ UNCHANGED <<rows, fired, now, phase, work, bounds>>

EnsureStep(t) == Enqueue(t) \/ Repair(t) \/ Link(t) \/ Undo(t)

-----------------------------------------------------------------------------
(* The worker: run_once with the handler _deliver. *)

Claim(p) ==
    /\ pc[p] = "poll"
    /\ phase[p] = "running"
    /\ \E k \in DOMAIN jobs :
          /\ J!Claimable(jobs[k])
          /\ Put(k, J!Claim(jobs[k]))
          /\ held' = [held EXCEPT ![p] = k]
    /\ Goto(p, "check")
    /\ UNCHANGED <<rows, fired, now, phase, after, todo, bounds>>

\* Mutant: a delivery does not make the job of the next slot.
CheckOnly(p) ==
    /\ pc[p] \in {"check", "check2"}
    /\ IF J!IsCancelRequested(jobs[held[p]])
       THEN Move(p, "cancel", NoCopy, NoLink)
       ELSE IF pc[p] = "check" THEN Goto(p, "read")
       ELSE Done(p)
    /\ UNCHANGED <<tables, now, phase, work, bounds>>

\* context.check_cancelled: by run_once and _deliver before the reminder is
\* read, and by _deliver after the notification.
Check(p) ==
    /\ pc[p] \in {"check", "check2"}
    /\ IF J!IsCancelRequested(jobs[held[p]])
       THEN Move(p, "cancel", NoCopy, NoLink)
       ELSE IF pc[p] = "check" THEN Goto(p, "read")
       ELSE Ensure(p, seen[p])
    /\ UNCHANGED <<tables, now, phase, work, bounds>>

\* The read of the reminder, the return for a job that is out of date, and
\* the computation of the next slot.
Read(p) ==
    /\ pc[p] = "read"
    /\ LET k == held[p]
           c == CopyOf(k.rem, rows[k.rem])
       IN \/ /\ Current(k.rem, k.rev, k.slot)
             /\ after' = [after EXCEPT ![p] =
                            IF c.rec = Once THEN NoTime
                            ELSE NextOccurrence(k.slot, c.rec, Local, now)]
             /\ Move(p, "trigger", c, NoLink)
          \/ /\ ~Current(k.rem, k.rev, k.slot)
             /\ Ensure(p, c)
             /\ UNCHANGED after
    /\ UNCHANGED <<tables, now, phase, todo, held, bounds>>

OccurrenceOf(k) == [rem |-> k.rem, rev |-> k.rev, slot |-> k.slot]

\* The row after the occurrence was recorded.
Advanced(row, next, new) ==
    LET counted == [row EXCEPT !.count = IF new THEN @ + 1 ELSE @,
                               !.job = NoJob]
    IN IF row.rec # Once /\ next # NoTime
       THEN [counted EXCEPT !.next = next]
       ELSE [counted EXCEPT !.status = "completed", !.next = NoTime]

\* The occurrence and the next slot are written in one transaction.
Record(p, k) ==
    LET o == OccurrenceOf(k)
        row == Advanced(rows[k.rem], after[p], o \notin DOMAIN fired)
    IN /\ rows' = [rows EXCEPT ![k.rem] = row]
       /\ fired' = [x \in DOMAIN fired \cup {o} |->
                      IF x \in DOMAIN fired THEN fired[x]
                      ELSE [told |-> 0, acked |-> FALSE]]
       /\ Move(p, IF o \in DOMAIN fired THEN "check2" ELSE "notify",
               CopyOf(k.rem, row), NoLink)

\* Mutant: a delivery that was overtaken is notified like any other.
SkipNotifying(p, k) ==
    /\ Move(p, "notify", CopyOf(k.rem, rows[k.rem]), NoLink)
    /\ UNCHANGED <<rows, fired>>

Skip(p, k) ==
    /\ Move(p, "check2", CopyOf(k.rem, rows[k.rem]), NoLink)
    /\ UNCHANGED <<rows, fired>>

\* Mutant: trigger looks at the slot only.
TriggerAnyRevision(p) ==
    /\ pc[p] = "trigger"
    /\ LET k == held[p] IN
          \/ rows[k.rem].next = k.slot /\ Record(p, k)
          \/ rows[k.rem].next # k.slot /\ Skip(p, k)
    /\ UNCHANGED <<jobs, now, phase, work, bounds>>

\* trigger checks the row once more, under its lock.
Trigger(p) ==
    /\ pc[p] = "trigger"
    /\ LET k == held[p] IN
          \/ Current(k.rem, k.rev, k.slot) /\ Record(p, k)
          \/ ~Current(k.rem, k.rev, k.slot) /\ Skip(p, k)
    /\ UNCHANGED <<jobs, now, phase, work, bounds>>

\* _notify: an exception of the notification handler is logged.
Notify(p) ==
    /\ pc[p] = "notify"
    /\ fired' = [fired EXCEPT ![OccurrenceOf(held[p])].told = @ + 1]
    /\ Goto(p, "check2")
    /\ UNCHANGED <<rows, jobs, now, phase, work, bounds>>

\* The call that ends run_once.  Its last check_cancelled is part of
\* complete, which cancels a job whose cancellation was requested.
Settlement(p) ==
    CASE pc[p] = "finish" -> J!Complete(jobs[held[p]])
      [] pc[p] = "cancel" -> J!MarkCancelled(jobs[held[p]])
      [] pc[p] = "fail"   -> J!Fail(jobs[held[p]], TRUE)

\* run_once is over.
Release(p) ==
    /\ Move(p, "poll", NoCopy, NoLink)
    /\ after' = [after EXCEPT ![p] = NoTime]
    /\ held' = [held EXCEPT ![p] = NoJob]

Settle(p) ==
    /\ pc[p] \in {"finish", "cancel", "fail"}
    /\ Put(held[p], Settlement(p))
    /\ Release(p)
    /\ UNCHANGED <<rows, fired, now, phase, todo, bounds>>

WorkerStep(p) ==
    \/ Claim(p)
    \/ Check(p)
    \/ Read(p)
    \/ Trigger(p)
    \/ Notify(p)
    \/ Settle(p)

-----------------------------------------------------------------------------
(* An exception: a database call that raises, or enqueue on a runtime that *)
(* is closed.  A call that raises after its commit is one that raises at   *)
(* the thread's next step.  A starting process that raises has ended.      *)

InEnsure == {"enqueue", "repair", "link", "undo"}

Raise(t) ==
    /\ \/ t \in Callers /\ pc[t] \in InEnsure \cup {"cancelOld"}
       \/ /\ t \in Procs /\ held[t] # NoJob
          /\ pc[t] \in InEnsure \cup {"check", "read", "trigger", "check2",
                                      "finish"}
    /\ Move(t, IF t \in Callers THEN "idle" ELSE "fail", NoCopy, NoLink)
    /\ UNCHANGED <<tables, now, phase, work>>

EnqueueRefused(t) ==
    /\ pc[t] \in {"enqueue", "repair"}
    /\ ~Open(t)
    /\ Raise(t)
    /\ UNCHANGED bounds

Fault ==
    /\ faults < MaxFaults
    /\ faults' = faults + 1
    /\ UNCHANGED <<calls, lives>>

CallFault(t) == Fault /\ Raise(t)

\* claim_next raises after its commit: a RUNNING job without a worker.
ClaimFault(p) ==
    /\ Fault
    /\ pc[p] = "poll" /\ phase[p] = "running"
    /\ \E k \in DOMAIN jobs :
          J!Claimable(jobs[k]) /\ Put(k, J!Claim(jobs[k]))
    /\ UNCHANGED <<rows, fired, now, phase, thread, work>>

\* The call in an except branch raises before its commit.
SettleFault(p) ==
    /\ Fault
    /\ pc[p] \in {"cancel", "fail"}
    /\ Release(p)
    /\ UNCHANGED <<tables, now, phase, todo>>

-----------------------------------------------------------------------------
(* Processes. *)

\* ReminderScheduler.start registers the job type; reconcile follows.
Boot(p) ==
    /\ phase[p] = "down"
    /\ phase' = [phase EXCEPT ![p] = "starting"]
    /\ Goto(p, "list")
    /\ UNCHANGED <<tables, now, work, bounds>>

\* Mutant: nothing is reconciled when the service starts.
ListNothing(p) ==
    /\ pc[p] = "list"
    /\ Goto(p, "next")
    /\ UNCHANGED <<tables, now, phase, work, bounds>>

\* list_active: the active reminders, as long as they are no more than
\* reconcile_limit.
List(p) ==
    /\ pc[p] = "list"
    /\ todo' = [todo EXCEPT ![p] =
                  {CopyOf(r, rows[r]) : r \in {x \in Ids :
                                               rows[x].status = "active"}}]
    /\ Goto(p, "next")
    /\ UNCHANGED <<tables, now, phase, after, held, bounds>>

\* The loop of reconcile.
Reconcile(p) ==
    /\ pc[p] = "next"
    /\ \/ \E c \in todo[p] :
             /\ todo' = [todo EXCEPT ![p] = @ \ {c}]
             /\ Ensure(p, c)
       \/ /\ todo[p] = {}
          /\ Goto(p, "recover")
          /\ UNCHANGED todo
    /\ UNCHANGED <<tables, now, phase, after, held, bounds>>

\* The worker starts and the service takes calls.
Serve(p) ==
    /\ phase' = [phase EXCEPT ![p] = "running"]
    /\ pc' = [t \in Threads |-> IF t = p THEN "poll"
                                ELSE IF HomeOf(t) = p THEN "idle" ELSE pc[t]]
    /\ UNCHANGED <<rows, fired, now, seen, link, work, bounds>>

\* Mutant: an interrupted delivery stays RUNNING.
RecoverNothing(p) == pc[p] = "recover" /\ Serve(p) /\ UNCHANGED jobs

\* JobRuntime.start: recover_interrupted, which skips a row that another
\* process has locked, and the worker.
Recover(p) ==
    /\ pc[p] = "recover"
    /\ \E skipped \in SUBSET {k \in DOMAIN jobs : jobs[k].status = "running"} :
          /\ skipped # {} => \E q \in Procs \ {p} : phase[q] # "down"
          /\ jobs' = [k \in DOMAIN jobs |->
                        IF k \in skipped THEN jobs[k]
                        ELSE J!Recover(jobs[k], TRUE)]
    /\ Serve(p)

Close(p) ==
    /\ phase[p] = "running"
    /\ lives < MaxLives
    /\ phase' = [phase EXCEPT ![p] = "closing"]
    /\ lives' = lives + 1
    /\ UNCHANGED <<tables, now, thread, work, calls, faults>>

\* Its threads and all they remember are gone.
End(p) ==
    /\ phase' = [phase EXCEPT ![p] = "down"]
    /\ pc' = [t \in Threads |-> IF HomeOf(t) = p THEN "down" ELSE pc[t]]
    /\ seen' = [t \in Threads |-> IF HomeOf(t) = p THEN NoCopy ELSE seen[t]]
    /\ link' = [t \in Threads |-> IF HomeOf(t) = p THEN NoLink ELSE link[t]]
    /\ after' = [after EXCEPT ![p] = NoTime]
    /\ todo' = [todo EXCEPT ![p] = {}]
    /\ held' = [held EXCEPT ![p] = NoJob]
    /\ UNCHANGED <<tables, now, calls, faults>>

\* close waits at most five seconds for the worker.
Exit(p) ==
    /\ phase[p] = "closing"
    /\ End(p)
    /\ UNCHANGED lives

Crash(p) ==
    /\ phase[p] # "down"
    /\ lives < MaxLives
    /\ lives' = lives + 1
    /\ End(p)

-----------------------------------------------------------------------------
(* The clock. *)

Tick ==
    /\ now < MaxNow
    /\ now' = now + 1
    /\ UNCHANGED <<tables, phase, thread, work, bounds>>

\* A job's available_at, its slot or the end of a back-off, has come.
BecomeDue(k) ==
    /\ jobs[k].status = "queued" /\ ~jobs[k].due
    /\ k.slot <= now
    /\ Put(k, [jobs[k] EXCEPT !.due = TRUE])
    /\ UNCHANGED <<rows, fired, now, phase, thread, work, bounds>>

-----------------------------------------------------------------------------

CallerStep(t) == EnsureStep(t) \/ CancelOld(t) \/ EnqueueRefused(t)

CallerCalls(t) ==
    \/ \E r \in Ids : \/ Create(t, r)
                      \/ CreateAgain(t, r)
                      \/ CancelReminder(t, r)
                      \/ Reschedule(t, r)
    \/ \E o \in DOMAIN fired : Acknowledge(t, o)
    \/ \E k \in DOMAIN jobs : CancelJob(t, k)

Startup(p) == Boot(p) \/ List(p) \/ Reconcile(p) \/ Recover(p)

ProcessStep(p) ==
    Startup(p) \/ WorkerStep(p) \/ EnsureStep(p) \/ EnqueueRefused(p)

Next ==
    \/ \E t \in Callers : CallerCalls(t) \/ CallerStep(t)
    \/ \E p \in Procs : ProcessStep(p) \/ Close(p) \/ Exit(p) \/ Crash(p)
    \/ \E t \in Threads : CallFault(t)
    \/ \E p \in Procs : ClaimFault(p) \/ SettleFault(p)
    \/ Tick
    \/ \E k \in DOMAIN jobs : BecomeDue(k)

Spec == Init /\ [][Next]_vars

(***************************************************************************)
(* Fairness.  Threads that run are scheduled, the clock advances, back-off *)
(* ends, the service's constructor goes on, a closed process exits and the *)
(* user starts it again.  Nothing is assumed of callers' decisions,        *)
(* crashes and faults.                                                     *)
(***************************************************************************)
Fairness ==
    /\ WF_vars(Tick)
    /\ WF_vars(\E k \in DOMAIN jobs : BecomeDue(k))
    /\ \A p \in Procs : WF_vars(ProcessStep(p)) /\ WF_vars(Exit(p))
    /\ \A t \in Callers : WF_vars(CallerStep(t))

FairSpec == Spec /\ Fairness

-----------------------------------------------------------------------------
(* Properties. *)

Active(r) == rows[r].status = "active"

(***************************************************************************)
(* next_job_id is never out of date: a reminder is linked only while it is *)
(* active, and to a job whose payload carries its present revision and     *)
(* slot, although the job is made in one transaction and linked in a later *)
(* one, and cancel, reschedule and delivery may come in between.           *)
(***************************************************************************)
LinkedJobFits ==
    \A r \in Ids :
        Exists(r) /\ rows[r].job # NoJob =>
            /\ Active(r)
            /\ rows[r].job \in DOMAIN jobs
            /\ rows[r].job.rem = r
            /\ rows[r].job.rev = rows[r].rev
            /\ rows[r].job.slot = rows[r].next

(***************************************************************************)
(* ARCHITECTURE.md: "Every triggered reminder creates one unique, durable  *)
(* occurrence."  trigger_count is the number of occurrences, and none is   *)
(* notified twice, although delivery is retried after failures and         *)
(* crashes, may be repeated by repair jobs, and may be executed by two     *)
(* processes at once.                                                      *)
(***************************************************************************)
FiredOnce ==
    /\ \A r \in Ids :
          Exists(r) => rows[r].count = Cardinality({o \in DOMAIN fired : o.rem = r})
    /\ \A o \in DOMAIN fired : fired[o].told <= 1

(***************************************************************************)
(* A schedule only moves forward: while a revision is in force, all its    *)
(* occurrences lie before next_run_at, so no slot comes up again.          *)
(***************************************************************************)
SlotsAdvance ==
    \A r \in Ids :
        Active(r) =>
            \A o \in DOMAIN fired :
                o.rem = r /\ o.rev = rows[r].rev => o.slot < rows[r].next

\* A reminder, its job and its occurrences are of one schedule.
ScheduleFits == LinkedJobFits /\ SlotsAdvance

(***************************************************************************)
(* ARCHITECTURE.md: "revision checks make old jobs harmless after          *)
(* rescheduling or cancellation."  An occurrence is recorded only for the  *)
(* revision in force, at the slot it stood at, and never before its time,  *)
(* whatever the delivery job had read before.                              *)
(***************************************************************************)
OldJobsHarmless ==
    [][\A o \in DOMAIN fired' \ DOMAIN fired :
          /\ Current(o.rem, o.rev, o.slot)
          /\ rows'[o.rem].rev = o.rev
          /\ o.slot <= now]_vars

\* Every thread of the processes that are up is between two pieces of work.
Quiet ==
    /\ \E p \in Procs : phase[p] = "running"
    /\ \A p \in Procs : phase[p] \in {"down", "running"}
    /\ \A t \in Threads : pc[t] \in {"down", "idle", "poll"}

\* An active reminder that nothing will deliver before the next start.
Stranded(r) ==
    Active(r) /\ (rows[r].job = NoJob \/ jobs[rows[r].job].status \in J!Terminal)

\* A delivery of the revision in force was cancelled behind its trigger.
CutShort(r) ==
    \E k \in DOMAIN jobs :
        /\ k.rem = r /\ k.rev = rows[r].rev
        /\ jobs[k].status = "cancelled"
        /\ OccurrenceOf(k) \in DOMAIN fired

(***************************************************************************)
(* No schedule is lost: whenever the service is up and its threads are     *)
(* idle, every active reminder is linked to a job that is still to run,    *)
(* whatever calls, deliveries, retries, crashes and restarts came before.  *)
(* Excepted are the ways to lose one that the code has: a call that        *)
(* raised, the direct cancellation of a delivery job, a delivery that was  *)
(* cancelled behind its trigger (see EachDueTimeHasJob) and as many        *)
(* interruptions as a job has attempts: the start reconciles before it     *)
(* recovers, so it takes the job it is about to fail for a live one.       *)
(***************************************************************************)
ScheduleKept ==
    Quiet /\ faults = 0 /\ lives < Attempts /\ ~JobCancels =>
        \A r \in Ids : Stranded(r) => CutShort(r)

(***************************************************************************)
(* ARCHITECTURE.md: "each due time is a delayed reminder.deliver job."     *)
(* Without crashes, raising calls and direct cancellations every active    *)
(* reminder has a job to run.  The code breaks this when the worker        *)
(* delivers a reminder between the enqueue and the set_next_job of the     *)
(* caller that creates it: the caller then cancels the job it made, and    *)
(* the delivery stops before it makes the job of the next slot.            *)
(***************************************************************************)
EachDueTimeHasJob ==
    Quiet /\ faults = 0 /\ lives = 0 /\ ~JobCancels =>
        \A r \in Ids : ~Stranded(r)

(***************************************************************************)
(* No job is left over: in the same situation, and if nothing crashed, a   *)
(* job that is still to run is the job of an active reminder.  The jobs    *)
(* that rescheduling and cancellation make superfluous are cancelled.      *)
(***************************************************************************)
NothingLeftOver ==
    Quiet /\ faults = 0 /\ lives = 0 /\ ~JobCancels =>
        \A k \in DOMAIN jobs :
            jobs[k].status \notin J!Terminal =>
                Active(k.rem) /\ rows[k.rem].job = k

(***************************************************************************)
(* A reminder whose time has come is delivered, unless it is rescheduled   *)
(* or cancelled, across crashes and restarts - or until a delivery of its  *)
(* revision was cut short, as EachDueTimeHasJob describes.                 *)
(***************************************************************************)
Revisions == 1 .. MaxCalls + 1

DueIsDelivered ==
    \A r \in Ids, v \in Revisions, s \in 0 .. MaxNow :
        Current(r, v, s) ~> ~Current(r, v, s) \/ CutShort(r)
=============================================================================
