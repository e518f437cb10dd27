--------------------------- MODULE Orchestration ---------------------------
(***************************************************************************)
(* Persistent orchestration: one row of orchestration_runs, its rows of    *)
(* orchestration_steps, the jobs that execute it, and the threads that act *)
(* on them (src/orchestration/runtime.py over src/repositories/            *)
(* orchestration_repository.py, on the job substrate of DurableJobs).      *)
(*                                                                         *)
(* Each process has a worker, named after the process, and callers.  One   *)
(* of its callers, Main, constructs the service: it reconciles the run,    *)
(* recovers interrupted jobs and starts the worker, and reconciles again   *)
(* while the worker is already at work.                                    *)
(*                                                                         *)
(* Runs share nothing but the worker, so one run is modelled; a worker     *)
(* that executes another run is one that has not come to this one.  A job  *)
(* is named by the revision of its key, and position 0 of the code is 1.   *)
(***************************************************************************)
EXTENDS Integers, Sequences, FiniteSets

CONSTANTS
    Procs,         \* processes that share the database
    Callers,       \* threads that call the service
    Home,          \* the process of a caller
    Main,          \* the caller that constructs the service of a process
    Requests,      \* what callers ask create_run for, as it accepts it
    Attempts,      \* max_attempts of orchestration.execute
    StepAttempts,  \* max_attempts of a step
    Recreates,     \* whether callers repeat create_run with its key
    JobCalls,      \* whether callers also use the job commands directly
    MaxCalls,      \* bound: calls after the creation of the run
    MaxLives,      \* bound: crashes and closes
    MaxFaults      \* bound: calls that raise

Kinds == {"delegate", "chain", "parallel", "team"}

Request == [kind : Kinds, total : Nat \ {0}, high : BOOLEAN]

ASSUME OrchestrationAssumption ==
    /\ Procs \cap Callers = {}
    /\ Home \in [Callers -> Procs]
    /\ Main \in [Procs -> Callers]
    /\ \A p \in Procs : Home[Main[p]] = p
    /\ Requests \subseteq Request
    /\ \A q \in Requests : q.kind = "delegate" => q.total = 1
    /\ Attempts \in Nat \ {0} /\ StepAttempts \in Nat \ {0}
    /\ Recreates \in BOOLEAN /\ JobCalls \in BOOLEAN
    /\ MaxCalls \in Nat /\ MaxLives \in Nat /\ MaxFaults \in Nat

Threads == Procs \cup Callers

HomeOf(t) == IF t \in Procs THEN t ELSE Home[t]

NoJob == 0

\* One row of the jobs table, and the methods of its repository.
J == INSTANCE JobRows WITH Scopes <- {"run"}, Keys <- Nat \ {0}, NoKey <- NoJob

RunTerminal == {"completed", "failed", "cancelled"}

RunStatus == {"queued", "running", "waiting_approval"} \cup RunTerminal

StepStatus == {"pending", "running", "completed", "failed", "cancelled",
               "skipped"}

Run ==
    [kind     : Kinds,
     high     : BOOLEAN,         \* allow_high_tools
     status   : RunStatus,
     rev      : Nat \ {0},       \* revision
     job      : Nat,             \* current_job_id
     approved : BOOLEAN,         \* approved_at is set
     stopped  : BOOLEAN,         \* cancelled_at is set
     done     : Nat,             \* completed_steps
     result   : SUBSET Nat]      \* the steps whose results it was made of

Step ==
    [status   : StepStatus,
     attempts : Nat,             \* attempt_count
     input    : SUBSET Nat,      \* the steps whose results input_text quotes
     marker   : BOOLEAN]         \* result_text holds [TEAM_DONE]

NoRun == [status |-> "absent"]

VARIABLES
    run,      \* the run
    steps,    \* its steps, in the order of their positions
    jobs,     \* its jobs, by revision
    effects,  \* how often the agent was run for <<job, position>>
    phase,    \* a process: down, starting, serving, running or closing
    pc,       \* where a thread is
    seen,     \* the copy of the run a caller works with
    work,     \* what a worker remembers of the job it executes
    calls, lives, faults    \* bound counters

tables == <<run, steps, jobs>>
bounds == <<calls, lives, faults>>
vars == <<tables, effects, phase, pc, seen, work, bounds>>

Copy == [status : RunStatus, rev : Nat \ {0}, job : Nat]

NoCopy == [status |-> "absent", rev |-> 0, job |-> NoJob]

Work ==
    [job     : Nat,           \* the job it holds
     granted : BOOLEAN,       \* approval_granted when it was claimed
     ask     : BOOLEAN,       \* the run still needs its own approval
     step    : Nat,           \* the step it executes
     open    : BOOLEAN,       \* list_steps returned unfinished steps
     done    : SUBSET Nat]    \* list_steps returned these as COMPLETED

Idle == [job |-> NoJob, granted |-> FALSE, ask |-> FALSE, step |-> 0,
         open |-> FALSE, done |-> {}]

Pc == {"down", "idle",
       "list", "look", "recover", "ready",             \* the constructor
       "enqueue", "link", "markWaiting", "markFailed", "withdraw",
       "cancelJob", "approveJob", "rejectJob",         \* callers
       "poll", "check0", "claimRun", "check1", "askWait", "approve",
       "prepare", "reread", "check2", "steps", "pick", "deadlock",
       "start", "progress", "execute", "check3", "commit", "team",
       "completeRun", "completeTeam", "failStep", "stop",
       "finish", "pause", "cancel", "fail"}            \* the worker

TypeOK ==
    /\ run \in Run \cup {NoRun}
    /\ steps \in Seq(Step)
    /\ DOMAIN jobs \subseteq Nat \ {0}
    /\ \A v \in DOMAIN jobs : jobs[v] \in J!Row
    /\ DOMAIN effects \subseteq Nat \X Nat
    /\ \A x \in DOMAIN effects : effects[x] \in Nat
    /\ phase \in [Procs -> {"down", "starting", "serving", "running",
                            "closing"}]
    /\ pc \in [Threads -> Pc]
    /\ seen \in [Callers -> Copy \cup {NoCopy}]
    /\ work \in [Procs -> Work]
    /\ calls \in Nat /\ lives \in Nat /\ faults \in Nat

Init ==
    /\ run = NoRun
    /\ steps = << >>
    /\ jobs = [v \in {} |-> NoRun]
    /\ effects = [x \in {} |-> 0]
    /\ phase = [p \in Procs |-> "down"]
    /\ pc = [t \in Threads |-> "down"]
    /\ seen = [t \in Callers |-> NoCopy]
    /\ work = [p \in Procs |-> Idle]
    /\ calls = 0 /\ lives = 0 /\ faults = 0

-----------------------------------------------------------------------------
(* OrchestrationRepository: what its transactions do to a run and steps.   *)

Exists == run.status # "absent"

Ended == run.status \in RunTerminal

At(status) == {i \in DOMAIN steps : steps[i].status = status}

Unfinished == At("pending") \cup At("running")

MinOf(S) == CHOOSE i \in S : \A j \in S : i <= j

\* The steps in S get a status.
Marked(S, status) ==
    [i \in DOMAIN steps |->
        IF i \in S THEN [steps[i] EXCEPT !.status = status] ELSE steps[i]]

SetRun(status) == run' = [run EXCEPT !.status = status]

Same == UNCHANGED <<run, steps>>

\* _step_specs: the dependency of a step, 0 for none.
DependsOn(i) == IF run.kind \in {"chain", "team"} THEN i - 1 ELSE 0

Ready(i) == DependsOn(i) = 0 \/ DependsOn(i) \in At("completed")

\* Mutant: revisions are counted from zero.
UnrevisedRun(q) ==
    [kind |-> q.kind, high |-> q.high, status |-> "queued", rev |-> 0,
     job |-> NoJob, approved |-> FALSE, stopped |-> FALSE, done |-> 0,
     result |-> {}]

NewRun(q) ==
    [kind |-> q.kind, high |-> q.high, status |-> "queued", rev |-> 1,
     job |-> NoJob, approved |-> FALSE, stopped |-> FALSE, done |-> 0,
     result |-> {}]

NewStep == [status |-> "pending", attempts |-> 0, input |-> {},
            marker |-> FALSE]

\* claim_job and set_job are granted to the job of the present revision.
Claims(v) == ~Ended /\ run.rev = v /\ run.job \in {NoJob, v}

Owns(v) == ~Ended /\ run.rev = v /\ run.job = v

ClaimJob(v) ==
    IF Claims(v) THEN run' = [run EXCEPT !.job = v] ELSE UNCHANGED run

MarkWaiting(v) ==
    IF Claims(v)
    THEN run' = [run EXCEPT !.job = v, !.status = "waiting_approval"]
    ELSE UNCHANGED run

MarkApproved(v) ==
    IF Owns(v)
    THEN run' = [run EXCEPT !.approved = TRUE, !.status = "running"]
    ELSE UNCHANGED run

Spent(i) == steps[i].attempts >= StepAttempts

Prepares(v) == Owns(v) /\ \A i \in At("running") : ~Spent(i)

\* prepare_resume: an interrupted step may be tried again, or has failed.
\* No more than one step is RUNNING (OneStepRuns).
PrepareResume(v) ==
    IF ~Owns(v) THEN Same
    ELSE IF Prepares(v)
    THEN steps' = Marked(At("running"), "pending") /\ SetRun("running")
    ELSE steps' = Marked({i \in At("running") : Spent(i)}, "failed")
         /\ SetRun("failed")

Starts(i) ==
    ~Ended /\ steps[i].status = "pending" /\ ~Spent(i) /\ Ready(i)

StartStep(i, input) ==
    IF Starts(i)
    THEN /\ steps' = [steps EXCEPT ![i].status = "running",
                                   ![i].input = input,
                                   ![i].attempts = @ + 1]
         /\ SetRun("running")
    ELSE IF ~Ended /\ steps[i].status = "pending" /\ Spent(i)
    THEN steps' = Marked({i}, "failed") /\ SetRun("failed")
    ELSE Same

CompleteStep(i, marker) ==
    IF steps[i].status # "running" THEN Same
    ELSE /\ steps' = [steps EXCEPT ![i].status = "completed",
                                   ![i].marker = marker]
         /\ run' = [run EXCEPT !.done = @ + 1]

\* fail_step, which does not look at the status of the run.
FailStep(i) ==
    /\ steps' = [j \in DOMAIN steps |->
                   IF j = i /\ steps[j].status = "running"
                   THEN [steps[j] EXCEPT !.status = "failed"]
                   ELSE IF steps[j].status = "pending"
                   THEN [steps[j] EXCEPT !.status = "skipped"]
                   ELSE steps[j]]
    /\ SetRun("failed")

CompleteRun(result, skip) ==
    IF Ended THEN Same
    ELSE /\ steps' = IF skip THEN Marked(At("pending"), "skipped") ELSE steps
         /\ run' = [run EXCEPT !.status = "completed", !.result = result]

\* Mutant: a cancellation leaves the running step as it is.
CancelLeavingRunning ==
    IF Ended THEN Same
    ELSE /\ steps' = Marked(At("pending"), "cancelled")
         /\ run' = [run EXCEPT !.status = "cancelled", !.stopped = TRUE]

Cancel ==
    IF Ended THEN Same
    ELSE /\ steps' = Marked(Unfinished, "cancelled")
         /\ run' = [run EXCEPT !.status = "cancelled", !.stopped = TRUE]

\* mark_failed_from_job: the first unfinished step failed, the others are
\* skipped.
MarkFailed ==
    IF Ended THEN Same
    ELSE /\ steps' = [i \in DOMAIN steps |->
                        IF i \notin Unfinished THEN steps[i]
                        ELSE IF i = MinOf(Unfinished)
                        THEN [steps[i] EXCEPT !.status = "failed"]
                        ELSE [steps[i] EXCEPT !.status = "skipped"]]
         /\ SetRun("failed")

\* Mutant: a resume starts over from the first step.
ResetAll ==
    /\ steps' = [i \in DOMAIN steps |-> NewStep]
    /\ run' = [run EXCEPT !.status = "queued", !.rev = @ + 1, !.job = NoJob,
                          !.stopped = FALSE, !.done = 0, !.result = {}]

\* reset_failed_for_resume of a FAILED run with a FAILED step.
ResetFailed ==
    LET first == MinOf(At("failed")) IN
    /\ steps' = [i \in DOMAIN steps |-> IF i < first THEN steps[i] ELSE NewStep]
    /\ run' = [run EXCEPT !.status = "queued", !.rev = @ + 1, !.job = NoJob,
                          !.stopped = FALSE,
                          !.done = Cardinality({i \in At("completed") :
                                                i < first}),
                          !.result = {}]

-----------------------------------------------------------------------------
(* Threads. *)

Put(v, row) ==
    jobs' = [i \in DOMAIN jobs \cup {v} |-> IF i = v THEN row ELSE jobs[i]]

CopyOf(r) == [status |-> r.status, rev |-> r.rev, job |-> r.job]

Goto(t, label) == pc' = [pc EXCEPT ![t] = label]

\* A caller goes on with a copy of the run, or its call is over.
Take(t, label, copy) == Goto(t, label) /\ seen' = [seen EXCEPT ![t] = copy]

Return(t) == CASE phase[Home[t]] = "starting" -> "recover"
               [] phase[Home[t]] = "serving"  -> "ready"
               [] OTHER                       -> "idle"

Done(t) == Take(t, Return(t), NoCopy)

\* _ensure_job does nothing for a run that has ended.
Ensure(t, copy) ==
    IF copy.status \in RunTerminal THEN Done(t) ELSE Take(t, "enqueue", copy)

IdleCaller(t) == pc[t] = "idle"

Call == calls < MaxCalls /\ calls' = calls + 1

-----------------------------------------------------------------------------
(* Callers. *)

\* create_run, up to the transaction of create.
Create(t) ==
    /\ IdleCaller(t)
    /\ ~Exists
    /\ \E q \in Requests :
          /\ run' = NewRun(q)
          /\ steps' = [i \in 1 .. q.total |-> NewStep]
          /\ Ensure(t, CopyOf(NewRun(q)))
    /\ UNCHANGED <<jobs, effects, phase, work, bounds>>

\* create_run with the idempotency key of the run.
CreateAgain(t) ==
    /\ IdleCaller(t)
    /\ Recreates /\ Call
    /\ Exists
    /\ Ensure(t, CopyOf(run))
    /\ UNCHANGED <<tables, effects, phase, work, lives, faults>>

\* cancel_run: the transaction, after which the job is cancelled.
CancelRun(t) ==
    /\ IdleCaller(t)
    /\ Call
    /\ Exists /\ run.status \notin {"completed", "failed"}
    /\ Cancel
    /\ IF run.job = NoJob THEN Done(t) ELSE Take(t, "cancelJob", CopyOf(run))
    /\ UNCHANGED <<jobs, effects, phase, work, lives, faults>>

\* resolve_approval, and resume_run of a run that waits: the read.
Resolve(t) ==
    /\ IdleCaller(t)
    /\ Call
    /\ run.status = "waiting_approval" /\ run.job # NoJob
    /\ \E label \in {"approveJob", "rejectJob"} : Take(t, label, CopyOf(run))
    /\ UNCHANGED <<tables, effects, phase, work, lives, faults>>

\* resume_run of a run that failed: reset_failed_for_resume.
Resume(t) ==
    /\ IdleCaller(t)
    /\ Call
    /\ run.status = "failed" /\ At("failed") # {}
    /\ ResetFailed
    /\ Ensure(t, CopyOf(run'))
    /\ UNCHANGED <<jobs, effects, phase, work, lives, faults>>

\* The job commands of the service.
CancelJob(t, v) ==
    /\ IdleCaller(t)
    /\ JobCalls /\ Call
    /\ Put(v, J!RequestCancel(jobs[v]))
    /\ UNCHANGED <<run, steps, effects, phase, pc, seen, work, lives, faults>>

ResolveJob(t, v) ==
    /\ IdleCaller(t)
    /\ JobCalls /\ Call
    /\ jobs[v].status = "waiting_approval"
    /\ \E approved \in BOOLEAN : Put(v, J!ResolveApproval(jobs[v], approved))
    /\ UNCHANGED <<run, steps, effects, phase, pc, seen, work, lives, faults>>

\* _ensure_job: enqueue finds the job of the revision or inserts it.
Enqueue(t) ==
    /\ pc[t] = "enqueue"
    /\ phase[Home[t]] # "closing"
    /\ LET v == seen[t].rev IN
          \/ /\ v \in DOMAIN jobs
             /\ Take(t, IF jobs[v].status \in J!Terminal THEN "markFailed"
                                                          ELSE "link",
                     [seen[t] EXCEPT !.job = v])
             /\ UNCHANGED jobs
          \/ /\ v \notin DOMAIN jobs
             /\ Put(v, J!NewRow("run", v, Attempts, TRUE))
             /\ Take(t, "link", [seen[t] EXCEPT !.job = v])
    /\ UNCHANGED <<run, steps, effects, phase, work, bounds>>

\* The second call of _ensure_job, cancel_run, resolve_approval, reconcile.
Link(t) ==
    /\ pc[t] = "link"
    /\ ClaimJob(seen[t].rev)
    /\ Done(t)
    /\ UNCHANGED <<steps, jobs, effects, phase, work, bounds>>

NoteWaiting(t) ==
    /\ pc[t] = "markWaiting"
    /\ MarkWaiting(seen[t].rev)
    /\ Done(t)
    /\ UNCHANGED <<steps, jobs, effects, phase, work, bounds>>

NoteFailed(t) ==
    /\ pc[t] = "markFailed"
    /\ MarkFailed
    /\ Done(t)
    /\ UNCHANGED <<jobs, effects, phase, work, bounds>>

Withdraw(t) ==
    /\ pc[t] = "withdraw"
    /\ Cancel
    /\ Done(t)
    /\ UNCHANGED <<jobs, effects, phase, work, bounds>>

CancelItsJob(t) ==
    /\ pc[t] = "cancelJob"
    /\ Put(seen[t].job, J!RequestCancel(jobs[seen[t].job]))
    /\ Done(t)
    /\ UNCHANGED <<run, steps, effects, phase, work, bounds>>

\* resolve_job_approval; a refusal that took effect withdraws the run.
Answer(t) ==
    /\ pc[t] \in {"approveJob", "rejectJob"}
    /\ LET row == jobs[seen[t].job] IN
          /\ Put(seen[t].job, J!ResolveApproval(row, pc[t] = "approveJob"))
          /\ IF pc[t] = "rejectJob" /\ row.status = "waiting_approval"
             THEN Take(t, "withdraw", seen[t])
             ELSE Done(t)
    /\ UNCHANGED <<run, steps, effects, phase, work, bounds>>

CallerStep(t) ==
    \/ Enqueue(t)
    \/ Link(t)
    \/ NoteWaiting(t)
    \/ NoteFailed(t)
    \/ Withdraw(t)
    \/ CancelItsJob(t)
    \/ Answer(t)

-----------------------------------------------------------------------------
(* The worker: run_once with the handler _execute_run. *)

Remember(p, fields) == work' = [work EXCEPT ![p] = fields]

Held(p) == jobs[work[p].job]

Claim(p) ==
    /\ pc[p] = "poll"
    /\ phase[p] \in {"serving", "running"}
    /\ \E v \in DOMAIN jobs :
          /\ J!Claimable(jobs[v])
          /\ Put(v, J!Claim(jobs[v]))
          /\ Remember(p, [Idle EXCEPT !.job = v,
                             !.granted = jobs[v].approval = "granted"])
    /\ Goto(p, "check0")
    /\ UNCHANGED <<run, steps, effects, phase, seen, bounds>>

\* Mutant: the approval of the job is not recorded with the run.
OnwardUnrecorded(p) ==
    CASE pc[p] = "check0" -> "claimRun"
      [] pc[p] = "check1" -> IF work[p].ask /\ ~work[p].granted
                             THEN "askWait" ELSE "prepare"
      [] pc[p] = "check2" -> "steps"
      [] pc[p] = "check3" -> "commit"

\* Where the handler goes on when the run was not cancelled.
Onward(p) ==
    CASE pc[p] = "check0" -> "claimRun"
      [] pc[p] = "check1" -> IF ~work[p].ask THEN "prepare"
                             ELSE IF work[p].granted THEN "approve"
                             ELSE "askWait"
      [] pc[p] = "check2" -> "steps"
      [] pc[p] = "check3" -> "commit"

\* Every context.check_cancelled of run_once and _execute_run.
Check(p) ==
    /\ pc[p] \in {"check0", "check1", "check2", "check3"}
    /\ Goto(p, IF ~J!IsCancelRequested(Held(p)) THEN Onward(p)
               ELSE IF pc[p] = "check0" THEN "cancel" ELSE "stop")
    /\ UNCHANGED <<tables, effects, phase, seen, work, bounds>>

\* claim_job; a run that has ended or moved on makes the job a no-op.
ClaimRun(p) ==
    /\ pc[p] = "claimRun"
    /\ ClaimJob(work[p].job)
    /\ Remember(p, [work[p] EXCEPT !.ask = run.high /\ ~run.approved])
    /\ Goto(p, IF Claims(work[p].job) THEN "check1" ELSE "finish")
    /\ UNCHANGED <<steps, jobs, effects, phase, seen, bounds>>

AskWait(p) ==
    /\ pc[p] = "askWait"
    /\ MarkWaiting(work[p].job)
    /\ Goto(p, "pause")
    /\ UNCHANGED <<steps, jobs, effects, phase, seen, work, bounds>>

Approve(p) ==
    /\ pc[p] = "approve"
    /\ MarkApproved(work[p].job)
    /\ Goto(p, "prepare")
    /\ UNCHANGED <<steps, jobs, effects, phase, seen, work, bounds>>

Prepare(p) ==
    /\ pc[p] = "prepare"
    /\ PrepareResume(work[p].job)
    /\ Goto(p, IF Prepares(work[p].job) THEN "check2" ELSE "reread")
    /\ UNCHANGED <<jobs, effects, phase, seen, work, bounds>>

\* Only a run that failed or was cancelled ends the job here.
Reread(p) ==
    /\ pc[p] = "reread"
    /\ Goto(p, IF run.status \in {"failed", "cancelled"} THEN "fail"
                                                         ELSE "check2")
    /\ UNCHANGED <<tables, effects, phase, seen, work, bounds>>

\* list_steps, in the loop and after the contribution that ends a team run.
ListSteps(p) ==
    /\ pc[p] \in {"steps", "team"}
    /\ Remember(p, [work[p] EXCEPT !.open = Unfinished # {},
                                   !.done = At("completed")])
    /\ Goto(p, IF pc[p] = "steps" THEN "pick" ELSE "completeTeam")
    /\ UNCHANGED <<tables, effects, phase, seen, bounds>>

\* _build_step_input: the contributions it quotes.
Latest(S, n) == {i \in S : Cardinality({j \in S : j > i}) < n}

Earlier(p, i) == {j \in work[p].done : j < i}

Input(p, i) ==
    IF run.kind \in {"delegate", "parallel"} \/ i = 1 THEN {}
    ELSE Latest(Earlier(p, i), IF run.kind = "chain" THEN 1 ELSE 5)

\* completed[-1] of an empty list.
NoPrevious(p, i) == run.kind = "chain" /\ i > 1 /\ Earlier(p, i) = {}

\* next_step, and what the loop makes of its answer.
Pick(p) ==
    /\ pc[p] = "pick"
    /\ LET next == {i \in At("pending") : Ready(i)} IN
          \/ /\ next = {}
             /\ Goto(p, IF work[p].open THEN "deadlock" ELSE "completeRun")
             /\ UNCHANGED work
          \/ /\ next # {}
             /\ Remember(p, [work[p] EXCEPT !.step = MinOf(next)])
             /\ Goto(p, IF NoPrevious(p, MinOf(next)) THEN "fail" ELSE "start")
    /\ UNCHANGED <<tables, effects, phase, seen, bounds>>

Deadlock(p) ==
    /\ pc[p] = "deadlock"
    /\ MarkFailed
    /\ Goto(p, "fail")
    /\ UNCHANGED <<jobs, effects, phase, seen, work, bounds>>

Start(p) ==
    /\ pc[p] = "start"
    /\ LET i == work[p].step IN
          /\ StartStep(i, Input(p, i))
          /\ Goto(p, IF Starts(i) THEN "progress" ELSE "fail")
    /\ UNCHANGED <<jobs, effects, phase, seen, work, bounds>>

\* set_progress is refused when the job does not run any more.
Progress(p) ==
    /\ pc[p] = "progress"
    /\ Goto(p, IF Held(p).status = "running" THEN "execute"
               ELSE IF J!IsCancelRequested(Held(p)) THEN "stop" ELSE "fail")
    /\ UNCHANGED <<tables, effects, phase, seen, work, bounds>>

\* execute_step runs the agent and returns or raises.  It raises without
\* running it when the service has been closed.
Execute(p) ==
    /\ pc[p] = "execute"
    /\ LET x == <<work[p].job, work[p].step>> IN
          \/ /\ effects' = [y \in DOMAIN effects \cup {x} |->
                              (IF y \in DOMAIN effects THEN effects[y] ELSE 0)
                              + (IF y = x THEN 1 ELSE 0)]
             /\ \E label \in {"check3", "failStep"} : Goto(p, label)
          \/ /\ phase[p] = "closing"
             /\ Goto(p, "failStep")
             /\ UNCHANGED effects
    /\ UNCHANGED <<tables, phase, seen, work, bounds>>

StepFails(p) ==
    /\ pc[p] = "failStep"
    /\ FailStep(work[p].step)
    /\ Goto(p, "fail")
    /\ UNCHANGED <<jobs, effects, phase, seen, work, bounds>>

\* complete_step; the marker ends a team run early.
Commit(p) ==
    /\ pc[p] = "commit"
    /\ \E marker \in BOOLEAN :
          /\ CompleteStep(work[p].step, marker)
          /\ Goto(p, IF steps[work[p].step].status # "running" THEN "fail"
                     ELSE IF run.kind = "team" /\ marker THEN "team"
                     ELSE "check2")
    /\ UNCHANGED <<jobs, effects, phase, seen, work, bounds>>

\* Mutant: a chain's result is that of its first step.
FirstResult(p) == IF run.kind \in {"parallel", "team"} THEN work[p].done
                  ELSE {MinOf(work[p].done)}

\* _assemble_result
Result(p) == IF run.kind \in {"parallel", "team"} THEN work[p].done
             ELSE Latest(work[p].done, 1)

Complete(p) ==
    /\ pc[p] \in {"completeRun", "completeTeam"}
    /\ CompleteRun(Result(p), pc[p] = "completeTeam")
    /\ Goto(p, "finish")
    /\ UNCHANGED <<jobs, effects, phase, seen, work, bounds>>

\* A cancelled job cancels its run.
Stop(p) ==
    /\ pc[p] = "stop"
    /\ Cancel
    /\ Goto(p, "cancel")
    /\ UNCHANGED <<jobs, effects, phase, seen, work, bounds>>

\* The call that ends run_once.  Its last check_cancelled is part of
\* complete, which cancels a job whose cancellation was requested.
Settlement(p) ==
    CASE pc[p] = "finish" -> J!Complete(Held(p))
      [] pc[p] = "pause"  -> J!WaitForApproval(Held(p))
      [] pc[p] = "cancel" -> J!MarkCancelled(Held(p))
      [] pc[p] = "fail"   -> J!Fail(Held(p), FALSE)

Settle(p) ==
    /\ pc[p] \in {"finish", "pause", "cancel", "fail"}
    /\ Put(work[p].job, Settlement(p))
    /\ Goto(p, "poll")
    /\ Remember(p, Idle)
    /\ UNCHANGED <<run, steps, effects, phase, seen, bounds>>

WorkerStep(p) ==
    \/ Claim(p)
    \/ Check(p)
    \/ ClaimRun(p)
    \/ AskWait(p)
    \/ Approve(p)
    \/ Prepare(p)
    \/ Reread(p)
    \/ ListSteps(p)
    \/ Pick(p)
    \/ Deadlock(p)
    \/ Start(p)
    \/ Progress(p)
    \/ Execute(p)
    \/ StepFails(p)
    \/ Commit(p)
    \/ Complete(p)
    \/ Stop(p)
    \/ Settle(p)

-----------------------------------------------------------------------------
(* An exception: a database call that raises, or enqueue on a runtime that *)
(* is closed.  A call that raises after its commit is one that raises at   *)
(* the thread's next step.  A constructor that raises ends its process, as *)
(* Crash does.                                                             *)

Calling == {"enqueue", "link", "markWaiting", "markFailed", "withdraw",
            "cancelJob", "approveJob", "rejectJob"}

CallerRaises(t) ==
    /\ pc[t] \in Calling
    /\ phase[Home[t]] \in {"running", "closing"}
    /\ Done(t)
    /\ UNCHANGED <<tables, effects, phase, work>>

EnqueueRefused(t) ==
    /\ pc[t] = "enqueue"
    /\ phase[Home[t]] = "closing"
    /\ CallerRaises(t)
    /\ UNCHANGED bounds

Fault ==
    /\ faults < MaxFaults
    /\ faults' = faults + 1
    /\ UNCHANGED <<calls, lives>>

CallFault(t) == Fault /\ CallerRaises(t)

\* claim_next raises after its commit: a RUNNING job without a worker.
ClaimFault(p) ==
    /\ Fault
    /\ pc[p] = "poll" /\ phase[p] \in {"serving", "running"}
    /\ \E v \in DOMAIN jobs : J!Claimable(jobs[v]) /\ Put(v, J!Claim(jobs[v]))
    /\ UNCHANGED <<run, steps, effects, phase, pc, seen, work>>

\* The handler's exception fails the job, after fail_step if it is raised
\* beside execute_step.  One in the except branch of run_once is logged and
\* leaves the job RUNNING.
WorkerFault(p) ==
    /\ Fault
    /\ work[p].job # NoJob
    /\ \/ /\ pc[p] \notin {"execute", "pause", "cancel", "fail"}
          /\ Goto(p, IF pc[p] = "check3" THEN "failStep" ELSE "fail")
          /\ UNCHANGED work
       \/ /\ pc[p] \in {"pause", "cancel", "fail"}
          /\ Goto(p, "poll")
          /\ Remember(p, Idle)
    /\ UNCHANGED <<tables, effects, phase, seen>>

-----------------------------------------------------------------------------
(* Processes. *)

Boot(p) ==
    /\ phase[p] = "down"
    /\ phase' = [phase EXCEPT ![p] = "starting"]
    /\ Goto(Main[p], "list")
    /\ UNCHANGED <<tables, effects, seen, work, bounds>>

\* Mutant: a run without a job is not given one.
ListLinked(t) ==
    /\ pc[t] = "list"
    /\ IF ~Exists \/ Ended \/ run.job = NoJob THEN Done(t)
       ELSE Take(t, "look", CopyOf(run))
    /\ UNCHANGED <<tables, effects, phase, work, bounds>>

\* reconcile: list_nonterminal.
List(t) ==
    /\ pc[t] = "list"
    /\ IF ~Exists \/ Ended THEN Done(t)
       ELSE Take(t, IF run.job = NoJob THEN "enqueue" ELSE "look", CopyOf(run))
    /\ UNCHANGED <<tables, effects, phase, work, bounds>>

\* Mutant: a run whose job has ended is left as it is.
LookForWaiting(t) ==
    /\ pc[t] = "look"
    /\ IF jobs[seen[t].job].status = "waiting_approval"
       THEN Take(t, "markWaiting", seen[t])
       ELSE Done(t)
    /\ UNCHANGED <<tables, effects, phase, work, bounds>>

\* get_job, and what reconcile makes of the status of the job.
Look(t) ==
    /\ pc[t] = "look"
    /\ LET status == jobs[seen[t].job].status IN
          CASE status = "waiting_approval" -> Take(t, "markWaiting", seen[t])
            [] status \in {"failed", "succeeded"} -> Take(t, "markFailed", seen[t])
            [] status = "cancelled" -> Take(t, "withdraw", seen[t])
            [] OTHER -> Done(t)
    /\ UNCHANGED <<tables, effects, phase, work, bounds>>

\* Mutant: the job type is registered as safe to repeat.
RecoverSafe(p) ==
    /\ pc[Main[p]] = "recover"
    /\ jobs' = [v \in DOMAIN jobs |-> J!Recover(jobs[v], TRUE)]
    /\ phase' = [phase EXCEPT ![p] = "serving"]
    /\ pc' = [pc EXCEPT ![Main[p]] = "list", ![p] = "poll"]
    /\ UNCHANGED <<run, steps, effects, seen, work, bounds>>

\* JobRuntime.start: recover_interrupted, which skips a row that another
\* process has locked, and the worker.  The second round follows.
Recover(p) ==
    /\ pc[Main[p]] = "recover"
    /\ \E skipped \in SUBSET {v \in DOMAIN jobs : jobs[v].status = "running"} :
          /\ skipped # {} => \E q \in Procs \ {p} : phase[q] # "down"
          /\ jobs' = [v \in DOMAIN jobs |->
                        IF v \in skipped THEN jobs[v]
                        ELSE J!Recover(jobs[v], FALSE)]
    /\ phase' = [phase EXCEPT ![p] = "serving"]
    /\ pc' = [pc EXCEPT ![Main[p]] = "list", ![p] = "poll"]
    /\ UNCHANGED <<run, steps, effects, seen, work, bounds>>

\* The constructor returns, and the service takes calls.
Serve(p) ==
    /\ pc[Main[p]] = "ready"
    /\ phase' = [phase EXCEPT ![p] = "running"]
    /\ pc' = [t \in Threads |-> IF t \in Callers /\ HomeOf(t) = p THEN "idle"
                                                                  ELSE pc[t]]
    /\ UNCHANGED <<tables, effects, seen, work, bounds>>

\* The constructing thread also closes the service.
Close(p) ==
    /\ phase[p] = "running" /\ pc[Main[p]] = "idle"
    /\ lives < MaxLives
    /\ lives' = lives + 1
    /\ phase' = [phase EXCEPT ![p] = "closing"]
    /\ Goto(Main[p], "down")
    /\ UNCHANGED <<tables, effects, seen, work, calls, faults>>

\* Its threads and all they remember are gone.
End(p) ==
    /\ phase' = [phase EXCEPT ![p] = "down"]
    /\ pc' = [t \in Threads |-> IF HomeOf(t) = p THEN "down" ELSE pc[t]]
    /\ seen' = [t \in Callers |-> IF Home[t] = p THEN NoCopy ELSE seen[t]]
    /\ Remember(p, Idle)
    /\ UNCHANGED <<tables, effects, calls, faults>>

\* close waits at most five seconds for the worker.
Exit(p) ==
    /\ phase[p] = "closing"
    /\ End(p)
    /\ UNCHANGED lives

Crash(p) ==
    /\ phase[p] # "down"
    /\ lives < MaxLives
    /\ lives' = lives + 1
    /\ End(p)

-----------------------------------------------------------------------------

CallerCalls(t) ==
    \/ Create(t)
    \/ CreateAgain(t)
    \/ CancelRun(t)
    \/ Resolve(t)
    \/ Resume(t)
    \/ \E v \in DOMAIN jobs : CancelJob(t, v) \/ ResolveJob(t, v)

Constructs(p) == Boot(p) \/ Recover(p) \/ Serve(p)

ThreadStep(t) == CallerStep(t) \/ List(t) \/ Look(t) \/ EnqueueRefused(t)

Next ==
    \/ \E t \in Callers : CallerCalls(t) \/ ThreadStep(t) \/ CallFault(t)
    \/ \E p \in Procs : \/ Constructs(p) \/ WorkerStep(p)
                        \/ ClaimFault(p) \/ WorkerFault(p)
                        \/ Close(p) \/ Exit(p) \/ Crash(p)

Spec == Init /\ [][Next]_vars

(***************************************************************************)
(* Fairness.  Threads that run are scheduled, a process that is down is    *)
(* started again and a closed one exits.  Nothing is assumed of callers'   *)
(* decisions, crashes and faults.  An agent's run ends, because the agent  *)
(* loop is bounded.                                                        *)
(***************************************************************************)
Fairness ==
    /\ \A p \in Procs : /\ WF_vars(Constructs(p)) /\ WF_vars(WorkerStep(p))
                        /\ WF_vars(Exit(p))
    /\ \A t \in Callers : WF_vars(ThreadStep(t))

FairSpec == Spec /\ Fairness

-----------------------------------------------------------------------------
(* Properties. *)

(***************************************************************************)
(* The run and its steps, which many transactions write, tell one story:   *)
(* completed_steps is the number of COMPLETED steps; at most one step is   *)
(* RUNNING, and none in a run that has ended; a COMPLETED run has nothing  *)
(* but COMPLETED steps, and SKIPPED ones if a team ended early; a run that *)
(* was cancelled has no step left to execute; a FAILED run has the FAILED  *)
(* step a resume starts from, unless it was cancelled or lacked nothing    *)
(* but its result (see FailedCanBeResumed); and a run that needs approval  *)
(* and has had an agent run for it says that it was approved.              *)
(*                                                                         *)
(* Repeated create_run calls are excepted.  _ensure_job fails the run for  *)
(* the job of the revision its copy has, although the run may have been    *)
(* resumed since; and what the worker does for the failed revision then    *)
(* meets a run that was resumed once more, as complete_run does not look   *)
(* at the revision: the run is COMPLETED with PENDING steps.  Likewise     *)
(* mark_approved then does nothing, and the worker goes on.                *)
(***************************************************************************)
StepsFitRun ==
    Exists /\ ~Recreates =>
        /\ run.done = Cardinality(At("completed"))
        /\ Cardinality(At("running")) <= 1
        /\ Ended => At("running") = {}
        /\ run.status = "completed" =>
              /\ At("completed") \cup At("skipped") = DOMAIN steps
              /\ At("skipped") # {} => \E i \in At("completed") : steps[i].marker
        /\ run.stopped => Unfinished = {}
        /\ run.status = "failed" =>
              At("failed") # {} \/ run.stopped \/ At("completed") = DOMAIN steps
        /\ run.high /\ DOMAIN effects # {} => run.approved

(***************************************************************************)
(* ARCHITECTURE.md: "An interrupted running step waits for explicit        *)
(* approval before its bounded second attempt, preventing silent           *)
(* repetition of tool side effects."  One job runs the agent of a step     *)
(* once, and once more for every approval it was given, and, as long as    *)
(* its revision is the run's, never more often than the step has attempts. *)
(*                                                                         *)
(* A job can outlive its revision: when prepare_resume has failed the run  *)
(* for a spent step and the run is resumed before the worker reads it      *)
(* again, the worker goes on with the old job in the new revision.         *)
(***************************************************************************)
RepeatNeedsApproval ==
    \A x \in DOMAIN effects :
        /\ effects[x] <= 1 + jobs[x[1]].grants
        /\ x[1] = run.rev => effects[x] <= StepAttempts

(***************************************************************************)
(* docs/features.md: a run with --allow-high "waits for approve            *)
(* orchestration <run_id> or reject orchestration <run_id> before its      *)
(* first step."  No agent of such a run is run, in any revision, before a  *)
(* job of the run was approved.                                            *)
(***************************************************************************)
HighRunsApproved ==
    Exists /\ run.high /\ DOMAIN effects # {} =>
        \E v \in DOMAIN jobs : jobs[v].grants > 0

\* No agent is run before the approval that its run, or the repetition of its
\* step, waits for.
ApprovedFirst == RepeatNeedsApproval /\ HighRunsApproved

(***************************************************************************)
(* A chain hands every step the result of the one before it, and the       *)
(* result of a COMPLETED run is made of the results its steps have,        *)
(* although steps are read in one transaction and used in later ones.      *)
(* (Repeated create_run calls are excepted as in StepsFitRun.)             *)
(***************************************************************************)
ResultsFollow ==
    Exists =>
        /\ run.kind = "chain" =>
              \A i \in At("completed") \ {1} : steps[i].input = {i - 1}
        /\ run.status = "completed" /\ ~Recreates =>
              run.result = IF run.kind \in {"parallel", "team"}
                           THEN At("completed")
                           ELSE {Len(steps)}

\* A run is what its steps make of it, in its status, its counter and its
\* result (orchestration/runtime.py, orchestration_repository.py).
RunReflectsSteps == StepsFitRun /\ ResultsFollow

(***************************************************************************)
(* Work is not undone, and docs/usage.md: "Completed and cancelled runs    *)
(* cannot be resumed."  Through crashes, recoveries, failures and resumes  *)
(* a COMPLETED step stays COMPLETED, so its agent is not run again, a      *)
(* COMPLETED run stays COMPLETED, and a run that was cancelled is never    *)
(* to be executed again (though fail_step may call it FAILED).             *)
(***************************************************************************)
EndedIsKept ==
    [][/\ At("completed") \subseteq At("completed")'
       /\ run.status = "completed" => run'.status = "completed"
       /\ Exists /\ run.stopped =>
             run'.stopped /\ run'.status \in {"cancelled", "failed"}]_vars

\* Every thread of the processes that are up is between two pieces of work.
Quiet ==
    /\ \E p \in Procs : phase[p] = "running"
    /\ \A p \in Procs : phase[p] \in {"down", "running"}
    /\ \A t \in Threads : pc[t] \in {"down", "idle", "poll"}

(***************************************************************************)
(* Run and job agree: when the service is up and its threads are idle, a   *)
(* run that has not ended has the job of its revision, which is still to   *)
(* run; if that job waits for approval, the run shows it to the user.  A  *)
(* run that has ended has no job that waits for approval, unless a crash   *)
(* came between the two transactions that cancel them.                     *)
(***************************************************************************)
RunFitsJob ==
    Quiet /\ Exists /\ faults = 0 /\ ~JobCalls /\ ~Recreates =>
        IF Ended
        THEN lives = 0 =>
                \A v \in DOMAIN jobs : jobs[v].status # "waiting_approval"
        ELSE /\ run.job = run.rev
             /\ jobs[run.job].status \in {"queued", "waiting_approval"}
             /\ jobs[run.job].status = "waiting_approval" =>
                    run.status = "waiting_approval"

(***************************************************************************)
(* ARCHITECTURE.md: "Explicit resume can retry a failed run with a new     *)
(* revision and reset attempt bound."  reset_failed_for_resume needs a     *)
(* FAILED step to start from.  The code breaks this when a run is          *)
(* cancelled while an agent works for it and that agent then raises:       *)
(* fail_step turns the CANCELLED run into a FAILED one.                    *)
(***************************************************************************)
FailedCanBeResumed == run.status = "failed" => At("failed") # {}

(***************************************************************************)
(* A run that is not waiting for its user, and is not ended by him, comes  *)
(* to an end or to a question, across crashes and restarts.                *)
(***************************************************************************)
RunSettles ==
    Exists ~> Ended \/ (run.status = "waiting_approval"
                         /\ jobs[run.job].status = "waiting_approval")
=============================================================================
