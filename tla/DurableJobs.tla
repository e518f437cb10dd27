---------------------------- MODULE DurableJobs ----------------------------
(***************************************************************************)
(* The durable job substrate: the jobs table of PostgreSQL, the processes  *)
(* that run a JobRuntime with its one JobWorker thread on top of it, and   *)
(* the callers that enqueue, cancel and approve jobs                       *)
(* (src/jobs/runtime.py over src/repositories/job_repository.py).          *)
(*                                                                         *)
(* A repository call is one transaction and hence one step; everything     *)
(* else a thread does between two such calls is folded into them.  A job   *)
(* handler is outside this module: it may report progress, look for        *)
(* cancellation, ask for approval, return or raise, in any order.          *)
(***************************************************************************)
EXTENDS JobRows, FiniteSets

CONSTANTS
    Jobs,        \* enqueue calls, each with the job id it generates
    Procs,       \* processes that share the database
    Types,       \* job types
    RetrySafe,   \* the types whose JobDefinition says retry_safe
    MaxAttempts, \* max_attempts of a type
    TypeOf,      \* the job type of a scope
    ScopeOf,     \* the scope an enqueue call asks for
    KeyOf,       \* the idempotency key an enqueue call passes
    MaxLives,    \* bound: how often a process is crashed or closed
    MaxFaults,   \* bound: how many database calls raise
    MaxGrants    \* bound: how often one job is approved

ASSUME JobsAssumption ==
    /\ RetrySafe \subseteq Types
    /\ MaxAttempts \in [Types -> Nat \ {0}]
    /\ TypeOf \in [Scopes -> Types]
    /\ ScopeOf \in [Jobs -> Scopes]
    /\ KeyOf \in [Jobs -> Keys \cup {NoKey}]
    /\ MaxLives \in Nat
    /\ MaxFaults \in Nat
    /\ MaxGrants \in Nat

NoJob == "no job"
NoProc == "no process"
NoAnswer == "no answer"
Rejected == "different job scope"

ASSUME ValuesAssumption ==
    /\ NoJob \notin Jobs
    /\ NoProc \notin Procs
    /\ {NoAnswer, Rejected} \cap Jobs = {}
    /\ NoKey \notin Keys

VARIABLES
    jobs,        \* the jobs table
    call,        \* the progress of each enqueue call
    site,        \* the process an enqueue call was made in
    answer,      \* the job each finished enqueue call returned
    phase,       \* a process: down, up, recovered (start has recovered) or
                 \* running (start has returned)
    registered,  \* the job types a process has registered
    closed,      \* JobRuntime._closed
    pc,          \* where the worker thread of a process is
    held,        \* the job run_once is working on
    granted,     \* JobContext.approval_granted, read when the job was claimed
    retry,       \* the retryable flag run_once passes to fail
    lives,       \* bound counter: crashes and closes so far
    faults       \* bound counter: database calls that raised so far

callVars == <<call, site, answer>>
procVars == <<phase, registered, closed>>
workVars == <<pc, held, granted, retry>>
vars == <<jobs, callVars, procVars, workVars, lives, faults>>

Type(r) == TypeOf[r.scope]
Running(p) == phase[p] # "down"

\* run_once is between its claim and its last repository call.
Working(p) == pc[p] \notin {"none", "idle", "poll", "exited"}

WorkerPc == {"none", "idle", "poll", "check1", "handler", "check2",
             "complete", "wait", "cancel", "fail", "exited"}

TypeOK ==
    /\ jobs \in [Jobs -> Row \cup {Absent}]
    /\ call \in [Jobs -> {"new", "insert", "lost", "done"}]
    /\ site \in [Jobs -> Procs \cup {NoProc}]
    /\ answer \in [Jobs -> Jobs \cup {NoAnswer, Rejected}]
    /\ phase \in [Procs -> {"down", "up", "recovered", "running"}]
    /\ registered \in [Procs -> SUBSET Types]
    /\ closed \in [Procs -> BOOLEAN]
    /\ pc \in [Procs -> WorkerPc]
    /\ held \in [Procs -> Jobs \cup {NoJob}]
    /\ granted \in [Procs -> BOOLEAN]
    /\ retry \in [Procs -> BOOLEAN]
    /\ lives \in Nat
    /\ faults \in Nat

Init ==
    /\ jobs = [j \in Jobs |-> Absent]
    /\ call = [j \in Jobs |-> "new"]
    /\ site = [j \in Jobs |-> NoProc]
    /\ answer = [j \in Jobs |-> NoAnswer]
    /\ phase = [p \in Procs |-> "down"]
    /\ registered = [p \in Procs |-> {}]
    /\ closed = [p \in Procs |-> FALSE]
    /\ pc = [p \in Procs |-> "none"]
    /\ held = [p \in Procs |-> NoJob]
    /\ granted = [p \in Procs |-> FALSE]
    /\ retry = [p \in Procs |-> FALSE]
    /\ lives = 0
    /\ faults = 0

-----------------------------------------------------------------------------
(* Callers. *)

Owner(k) == {j \in Jobs : Exists(jobs[j]) /\ jobs[j].key = k}

\* enqueue answers with the row that owns the key, if its scope is the
\* caller's, and raises otherwise.
AnswerExisting(c) ==
    /\ KeyOf[c] # NoKey
    /\ \E j \in Owner(KeyOf[c]) :
          answer' = [answer EXCEPT ![c] = IF jobs[j].scope = ScopeOf[c]
                                          THEN j ELSE Rejected]
    /\ call' = [call EXCEPT ![c] = "done"]
    /\ UNCHANGED jobs

UnusedKey(c) == KeyOf[c] = NoKey \/ Owner(KeyOf[c]) = {}

\* JobRuntime.enqueue up to the first transaction of the repository, which
\* looks for a row with the caller's key.
EnqueueLookup(c, p) ==
    /\ call[c] = "new"
    /\ Running(p) /\ ~closed[p]
    /\ TypeOf[ScopeOf[c]] \in registered[p]
    /\ \/ AnswerExisting(c)
       \/ /\ UnusedKey(c)
          /\ call' = [call EXCEPT ![c] = "insert"]
          /\ UNCHANGED <<jobs, answer>>
    /\ site' = [site EXCEPT ![c] = p]
    /\ UNCHANGED <<procVars, workVars, lives, faults>>

\* Mutant: idempotency_key without its unique constraint.
InsertUnchecked(c) ==
    /\ call[c] = "insert"
    /\ \E due \in BOOLEAN :
          jobs' = [jobs EXCEPT ![c] =
                      NewRow(ScopeOf[c], KeyOf[c],
                             MaxAttempts[TypeOf[ScopeOf[c]]], due)]
    /\ answer' = [answer EXCEPT ![c] = c]
    /\ call' = [call EXCEPT ![c] = "done"]
    /\ UNCHANGED <<site, procVars, workVars, lives, faults>>

\* The second transaction: the INSERT, or the row that violates the unique
\* constraint on idempotency_key.
EnqueueInsert(c) ==
    /\ call[c] = "insert"
    /\ \/ AnswerExisting(c)
       \/ /\ UnusedKey(c)
          /\ \E due \in BOOLEAN :
                jobs' = [jobs EXCEPT ![c] =
                            NewRow(ScopeOf[c], KeyOf[c],
                                   MaxAttempts[TypeOf[ScopeOf[c]]], due)]
          /\ answer' = [answer EXCEPT ![c] = c]
          /\ call' = [call EXCEPT ![c] = "done"]
    /\ UNCHANGED <<site, procVars, workVars, lives, faults>>

CancelJob(j) ==
    /\ \E p \in Procs : Running(p)
    /\ Exists(jobs[j])
    /\ jobs' = [jobs EXCEPT ![j] = RequestCancel(@)]
    /\ UNCHANGED <<callVars, procVars, workVars, lives, faults>>

ResolveJobApproval(j, approved) ==
    /\ \E p \in Procs : Running(p)
    /\ Exists(jobs[j])
    /\ approved => jobs[j].grants < MaxGrants
    /\ jobs' = [jobs EXCEPT ![j] = ResolveApproval(@, approved)]
    /\ UNCHANGED <<callVars, procVars, workVars, lives, faults>>

\* The wall clock reaches available_at.
BecomeDue(j) ==
    /\ jobs[j].status = "queued"
    /\ ~jobs[j].due
    /\ jobs' = [jobs EXCEPT ![j].due = TRUE]
    /\ UNCHANGED <<callVars, procVars, workVars, lives, faults>>

-----------------------------------------------------------------------------
(* The life of a process. *)

\* A process begins and constructs its JobRuntime.
Boot(p) ==
    /\ phase[p] = "down"
    /\ phase' = [phase EXCEPT ![p] = "up"]
    /\ UNCHANGED <<jobs, callVars, registered, closed, workVars, lives, faults>>

Register(p, t) ==
    /\ Running(p) /\ ~closed[p]
    /\ t \notin registered[p]
    /\ registered' = [registered EXCEPT ![p] = @ \cup {t}]
    /\ UNCHANGED <<jobs, callVars, phase, closed, workVars, lives, faults>>

\* Mutant: every registered type is taken to be safe to repeat.
RecoverAllRegistered(p) ==
    jobs' = [j \in Jobs |-> IF Exists(jobs[j])
                            THEN Recover(jobs[j], Type(jobs[j]) \in registered[p])
                            ELSE jobs[j]]

\* recover_interrupted skips a row another process has locked at this moment.
RecoverRows(p) ==
    \E skipped \in SUBSET {j \in Jobs : jobs[j].status = "running"} :
        /\ skipped # {} => \E q \in Procs \ {p} : Running(q)
        /\ jobs' = [j \in Jobs |->
                      IF j \in skipped \/ ~Exists(jobs[j]) THEN jobs[j]
                      ELSE Recover(jobs[j],
                                   Type(jobs[j]) \in RetrySafe \cap registered[p])]

\* Mutant: start forgets that it was called before.
StartAgain(p) ==
    /\ phase[p] \in {"up", "running"} /\ ~closed[p]
    /\ RecoverRows(p)
    /\ phase' = [phase EXCEPT ![p] = IF @ = "up" THEN "recovered" ELSE @]
    /\ UNCHANGED <<callVars, registered, closed, workVars, lives, faults>>

\* JobRuntime.start under its lock.
StartRecover(p) ==
    /\ phase[p] = "up" /\ ~closed[p]
    /\ RecoverRows(p)
    /\ phase' = [phase EXCEPT ![p] = "recovered"]
    /\ UNCHANGED <<callVars, registered, closed, workVars, lives, faults>>

\* JobWorker.start, after the lock has been released.
StartWorker(p) ==
    /\ phase[p] = "recovered"
    /\ phase' = [phase EXCEPT ![p] = "running"]
    /\ pc' = [pc EXCEPT ![p] = "idle"]
    /\ UNCHANGED <<jobs, callVars, registered, closed, held, granted, retry,
                   lives, faults>>

\* The thread that constructed and started the runtime closes it.
Close(p) ==
    /\ phase[p] \in {"up", "running"} /\ ~closed[p]
    /\ lives < MaxLives
    /\ closed' = [closed EXCEPT ![p] = TRUE]
    /\ lives' = lives + 1
    /\ UNCHANGED <<jobs, callVars, phase, registered, workVars, faults>>

\* The process is gone: its daemon worker and its unfinished calls with it.
End(p) ==
    /\ phase' = [phase EXCEPT ![p] = "down"]
    /\ registered' = [registered EXCEPT ![p] = {}]
    /\ closed' = [closed EXCEPT ![p] = FALSE]
    /\ pc' = [pc EXCEPT ![p] = "none"]
    /\ held' = [held EXCEPT ![p] = NoJob]
    /\ granted' = [granted EXCEPT ![p] = FALSE]
    /\ retry' = [retry EXCEPT ![p] = FALSE]
    /\ call' = [c \in Jobs |-> IF call[c] = "insert" /\ site[c] = p
                                THEN "lost" ELSE call[c]]
    /\ UNCHANGED <<jobs, site, answer, faults>>

\* close waits at most five seconds for the worker, then the process exits.
Exit(p) ==
    /\ Running(p) /\ closed[p]
    /\ End(p)
    /\ UNCHANGED lives

Crash(p) ==
    /\ Running(p)
    /\ lives < MaxLives
    /\ lives' = lives + 1
    /\ End(p)

-----------------------------------------------------------------------------
(* The worker thread: JobWorker._run and JobRuntime.run_once. *)

Goto(p, label) == pc' = [pc EXCEPT ![p] = label]

\* run_once returns, or an exception has left it: the loop goes on.
Release(p) ==
    /\ Goto(p, "idle")
    /\ held' = [held EXCEPT ![p] = NoJob]
    /\ granted' = [granted EXCEPT ![p] = FALSE]
    /\ retry' = [retry EXCEPT ![p] = FALSE]

\* An exception other than the two control exceptions reaches run_once.
Raise(p, retryable) ==
    /\ Goto(p, "fail")
    /\ retry' = [retry EXCEPT ![p] =
                    retryable /\ Type(jobs[held[p]]) \in RetrySafe]
    /\ UNCHANGED <<jobs, held, granted>>

LoopHead(p) ==
    /\ pc[p] = "idle"
    /\ Goto(p, IF closed[p] THEN "exited" ELSE "poll")
    /\ UNCHANGED <<jobs, held, granted, retry>>

ClaimableBy(p) ==
    {j \in Jobs : Claimable(jobs[j]) /\ Type(jobs[j]) \in registered[p]}

ClaimNext(p) ==
    /\ pc[p] = "poll"
    /\ \/ \E j \in ClaimableBy(p) :
             /\ jobs' = [jobs EXCEPT ![j] = Claim(@)]
             /\ Goto(p, "check1")
             /\ held' = [held EXCEPT ![p] = j]
             /\ granted' = [granted EXCEPT ![p] = jobs[j].approval = "granted"]
             /\ UNCHANGED retry
       \/ /\ ClaimableBy(p) = {}
          /\ Goto(p, "idle")
          /\ UNCHANGED <<jobs, held, granted, retry>>

\* context.check_cancelled, before and after the handler.
CheckCancelled(p) ==
    /\ \/ pc[p] = "check1" /\ Goto(p, "handler")
       \/ pc[p] = "check2" /\ Goto(p, "complete")
    /\ ~IsCancelRequested(jobs[held[p]])
    /\ UNCHANGED <<jobs, held, granted, retry>>

\* check_cancelled raises JobCancelled; the handler may call it as well.
ObserveCancelled(p) ==
    /\ pc[p] \in {"check1", "handler", "check2"}
    /\ IsCancelRequested(jobs[held[p]])
    /\ Goto(p, "cancel")
    /\ UNCHANGED <<jobs, held, granted, retry>>

HandlerReturns(p) ==
    /\ pc[p] = "handler"
    /\ Goto(p, "check2")
    /\ UNCHANGED <<jobs, held, granted, retry>>

\* The handler raises, a NonRetryableJobError or any other exception.
HandlerRaises(p) ==
    /\ pc[p] = "handler"
    /\ \E retryable \in BOOLEAN : Raise(p, retryable)

\* require_approval raises JobAwaitingApproval unless approval was granted
\* before the claim.
HandlerAsksApproval(p) ==
    /\ pc[p] = "handler"
    /\ ~granted[p]
    /\ Goto(p, "wait")
    /\ UNCHANGED <<jobs, held, granted, retry>>

\* set_progress of a job that is no longer running and is not cancelled.
ProgressRefused(p) ==
    /\ pc[p] = "handler"
    /\ jobs[held[p]].status # "running"
    /\ ~IsCancelRequested(jobs[held[p]])
    /\ Raise(p, TRUE)

\* The result cannot be serialised or is too long.
ResultRefused(p) ==
    /\ pc[p] = "complete"
    /\ Raise(p, TRUE)

\* The repository call that ends run_once.
Settlement(p) ==
    CASE pc[p] = "complete" -> Complete(jobs[held[p]])
      [] pc[p] = "wait"     -> WaitForApproval(jobs[held[p]])
      [] pc[p] = "cancel"   -> MarkCancelled(jobs[held[p]])
      [] pc[p] = "fail"     -> Fail(jobs[held[p]], retry[p])

Settle(p) ==
    /\ pc[p] \in {"complete", "wait", "cancel", "fail"}
    /\ jobs' = [jobs EXCEPT ![held[p]] = Settlement(p)]
    /\ Release(p)

HandlerEnds(p) ==
    HandlerReturns(p) \/ HandlerRaises(p) \/ HandlerAsksApproval(p)

WorkerStep(p) ==
    /\ \/ LoopHead(p)
       \/ ClaimNext(p)
       \/ CheckCancelled(p)
       \/ ObserveCancelled(p)
       \/ HandlerEnds(p)
       \/ ProgressRefused(p)
       \/ ResultRefused(p)
       \/ Settle(p)
    /\ UNCHANGED <<callVars, procVars, lives, faults>>

-----------------------------------------------------------------------------
(* A database call raises, before its transaction committed or after. *)

Applied(j, row) ==
    \/ jobs' = [jobs EXCEPT ![j] = row]
    \/ UNCHANGED jobs

\* claim_next raises: the job may have become RUNNING with nobody to run it.
ClaimFault(p) ==
    /\ pc[p] = "poll"
    /\ \E j \in ClaimableBy(p) : Applied(j, Claim(jobs[j]))
    /\ Release(p)

\* A call inside the try block raises: run_once goes on to fail the job.
CallFault(p) ==
    /\ \/ pc[p] \in {"check1", "check2"} /\ UNCHANGED jobs
       \/ pc[p] = "complete" /\ Applied(held[p], Settlement(p))
    /\ Goto(p, "fail")
    /\ retry' = [retry EXCEPT ![p] = Type(jobs[held[p]]) \in RetrySafe]
    /\ UNCHANGED <<held, granted>>

\* A call in one of the except branches raises: _run logs it and polls on.
SettleFault(p) ==
    /\ pc[p] \in {"wait", "cancel", "fail"}
    /\ Applied(held[p], Settlement(p))
    /\ Release(p)

WorkerFault(p) ==
    /\ faults < MaxFaults
    /\ faults' = faults + 1
    /\ ClaimFault(p) \/ CallFault(p) \/ SettleFault(p)
    /\ UNCHANGED <<callVars, procVars, lives>>

\* recover_interrupted raises out of start, which may be called again.
RecoverFault(p) ==
    /\ faults < MaxFaults
    /\ faults' = faults + 1
    /\ phase[p] = "up" /\ ~closed[p]
    /\ RecoverRows(p) \/ UNCHANGED jobs
    /\ UNCHANGED <<callVars, procVars, workVars, lives>>

-----------------------------------------------------------------------------

Caller ==
    \/ \E c \in Jobs, p \in Procs : EnqueueLookup(c, p)
    \/ \E c \in Jobs : EnqueueInsert(c)
    \/ \E j \in Jobs : CancelJob(j)
    \/ \E j \in Jobs, approved \in BOOLEAN : ResolveJobApproval(j, approved)
    \/ \E j \in Jobs : BecomeDue(j)

Process(p) ==
    \/ Boot(p)
    \/ \E t \in Types : Register(p, t)
    \/ StartRecover(p)
    \/ StartWorker(p)
    \/ Close(p)
    \/ Exit(p)
    \/ Crash(p)

Next ==
    \/ Caller
    \/ \E p \in Procs : Process(p)
    \/ \E p \in Procs : WorkerStep(p)
    \/ \E p \in Procs : WorkerFault(p)
    \/ \E p \in Procs : RecoverFault(p)

Spec == Init /\ [][Next]_vars

(***************************************************************************)
(* Fairness.  The worker thread is scheduled and handlers return; the      *)
(* clock advances; a caller's enqueue call finishes; AikaService registers *)
(* its job types and starts the runtime in its constructor; a closed       *)
(* process exits and the user starts AIKA again.  Nothing is assumed of    *)
(* cancellations, approvals, crashes and faults.                           *)
(***************************************************************************)
Fairness ==
    /\ \A j \in Jobs : WF_vars(BecomeDue(j))
    /\ \A c \in Jobs : WF_vars(EnqueueInsert(c))
    /\ \A p \in Procs :
          /\ WF_vars(WorkerStep(p))
          /\ WF_vars(Boot(p))
          /\ WF_vars(StartRecover(p))
          /\ WF_vars(StartWorker(p))
          /\ WF_vars(Exit(p))
          /\ \A t \in Types : WF_vars(Register(p, t))

FairSpec == Spec /\ Fairness

-----------------------------------------------------------------------------
(* Properties. *)

Rows == {j \in Jobs : Exists(jobs[j])}

(***************************************************************************)
(* The hard limit on attempts (ARCHITECTURE.md, "Recovery policy").  Every *)
(* start that no pause gave back is counted, whatever ended it - a return, *)
(* an exception, a crash, a failed transaction - the count never passes    *)
(* max_attempts, and a queued job always has an attempt left: otherwise    *)
(* claim_next would never select it and it would stay queued for ever.     *)
(***************************************************************************)
AttemptsAccounted ==
    \A j \in Rows :
        /\ jobs[j].attempts = jobs[j].starts - jobs[j].pauses
        /\ jobs[j].attempts <= jobs[j].max
        /\ jobs[j].status = "queued" => jobs[j].attempts < jobs[j].max

(***************************************************************************)
(* No silent repetition: a job whose type is not retry-safe is started     *)
(* once, and once more for each approval its owner gave after that.  In    *)
(* particular such a job is back in the queue only if every start it had   *)
(* has been answered by an approval.                                       *)
(***************************************************************************)
OneApprovalPerRepeat ==
    \A j \in Rows :
        Type(jobs[j]) \notin RetrySafe =>
            /\ jobs[j].starts <= jobs[j].grants + 1
            /\ jobs[j].status = "queued" => jobs[j].starts = jobs[j].grants

(***************************************************************************)
(* A requested cancellation is never lost: from then on the row is RUNNING *)
(* (the handler has not noticed yet) or CANCELLED, and never again queued, *)
(* waiting, succeeded or failed, whichever call the worker ends with.      *)
(***************************************************************************)
CancelIsSticky ==
    \A j \in Rows :
        jobs[j].cancel => jobs[j].status \in {"running", "cancelled"}

(***************************************************************************)
(* With one process, the worker's job and the RUNNING rows agree.  While   *)
(* run_once is at work on a job nothing takes the job away from it; only   *)
(* when the commit of complete succeeded and its answer was lost does the  *)
(* worker go on to fail a job that is finished.  And as long as no         *)
(* database call raised, a RUNNING row is either the worker's or an        *)
(* interrupted one that start has still to recover.                        *)
(***************************************************************************)
WorkerOwnsRunning ==
    /\ \A p \in Procs :
          Working(p) =>
              \/ jobs[held[p]].status = "running"
              \/ pc[p] = "fail" /\ jobs[held[p]].status \in {"succeeded", "cancelled"}
    /\ faults = 0 =>
         \A j \in Rows :
            jobs[j].status = "running" =>
                \/ \E p \in Procs : Working(p) /\ held[p] = j
                \/ \A p \in Procs : phase[p] \in {"down", "up"}

(***************************************************************************)
(* An idempotency key stands for one job: however the lookups and inserts  *)
(* of several callers interleave, there is one row per key, and callers    *)
(* that used the same key and were not refused got that row, which has     *)
(* their own scope.                                                        *)
(***************************************************************************)
KeyMeansOneJob ==
    /\ \A i, j \in Rows :
          jobs[i].key = jobs[j].key /\ jobs[i].key # NoKey => i = j
    /\ \A c \in Jobs :
          answer[c] \in Jobs =>
              /\ answer[c] \in Rows
              /\ jobs[answer[c]].key = KeyOf[c]
              /\ jobs[answer[c]].scope = ScopeOf[c]

(***************************************************************************)
(* A finished job never changes again.  What can go wrong is a worker that *)
(* has lost its job - another process recovered it and finished it - and   *)
(* whose own last repository call arrives late.                            *)
(***************************************************************************)
TerminalIsFinal ==
    [][\A j \in Jobs : jobs[j].status \in Terminal => jobs'[j] = jobs[j]]_vars

(***************************************************************************)
(* A cancellation requested while the handler runs takes effect: the job   *)
(* becomes CANCELLED, across crashes and restarts, unless a database call  *)
(* raised (see JobsSettle).                                                *)
(***************************************************************************)
CancelTakesEffect ==
    \A j \in Jobs :
        (Exists(jobs[j]) /\ jobs[j].cancel)
            ~> jobs[j].status = "cancelled" \/ faults > 0

(***************************************************************************)
(* No job is stranded: one that is queued or running finishes or comes to  *)
(* wait for its owner's approval, across crashes, closes and restarts.  A  *)
(* call that raises in an except branch of run_once does strand its job    *)
(* until the next start, which nothing obliges a healthy process to make.  *)
(***************************************************************************)
JobsSettle ==
    \A j \in Jobs :
        jobs[j].status \in {"queued", "running"}
            ~> jobs[j].status \in Terminal \cup {"waiting_approval"} \/ faults > 0

-----------------------------------------------------------------------------
(***************************************************************************)
(* The inductive invariant behind the safety properties.  A row is good    *)
(* for job j when it carries what the enqueue call asked for and its       *)
(* counters agree with its status; a worker at work holds a job that has a *)
(* row, and carries the retryable flag only for a retry-safe one.          *)
(***************************************************************************)
UnsafeJob(j) == TypeOf[ScopeOf[j]] \notin RetrySafe

GoodRow(j, r) ==
    /\ r \in Row
    /\ r.scope = ScopeOf[j]
    /\ r.key = KeyOf[j]
    /\ r.max = MaxAttempts[TypeOf[ScopeOf[j]]]
    /\ r.attempts = r.starts - r.pauses
    /\ r.attempts <= r.max
    /\ r.status = "queued" => r.attempts < r.max
    /\ r.status = "running" => r.attempts > 0
    /\ r.cancel => r.status \in {"running", "cancelled"}
    /\ UnsafeJob(j) =>
          /\ r.starts <= r.grants + 1
          /\ r.status = "queued" => r.starts = r.grants
          /\ r.status \in {"running", "waiting_approval"} => r.starts = r.grants + 1

RowsGood == \A j \in Jobs : jobs[j] = Absent \/ GoodRow(j, jobs[j])

WorkersGood ==
    \A p \in Procs :
        /\ phase[p] # "running" => pc[p] = "none"
        /\ Working(p) => held[p] \in Jobs /\ Exists(jobs[held[p]])
        /\ retry[p] => Working(p) /\ ~UnsafeJob(held[p])

CallsGood == \A c \in Jobs : call[c] # "done" => jobs[c] = Absent

IInv == TypeOK /\ RowsGood /\ WorkersGood /\ CallsGood /\ KeyMeansOneJob

-----------------------------------------------------------------------------
(* The life of each job, as JobLifecycle specifies it. *)

Lifecycle == INSTANCE JobLifecycle WITH
    Limit <- [j \in Jobs |-> MaxAttempts[TypeOf[ScopeOf[j]]]],
    Unsafe <- {j \in Jobs : TypeOf[ScopeOf[j]] \notin RetrySafe},
    status <- [j \in Jobs |-> jobs[j].status],
    doomed <- {j \in Jobs : Exists(jobs[j]) /\ jobs[j].cancel},
    tries <- [j \in Jobs |-> IF Exists(jobs[j]) THEN jobs[j].attempts ELSE 0],
    permits <- [j \in Jobs |-> IF Exists(jobs[j])
                               THEN 1 + jobs[j].grants - jobs[j].starts
                               ELSE 1]

(***************************************************************************)
(* Every step of the processes, the workers and the callers, with crashes, *)
(* failing transactions and workers that lost their job, is a step of      *)
(* JobLifecycle or leaves every job as it was.                             *)
(***************************************************************************)
ImplementsLifecycle == Lifecycle!Spec
=============================================================================
