---------------------- MODULE OrchestrationRunProofs ----------------------
(***************************************************************************)
(* Proofs about Orchestration: what the run, its steps, its jobs and the   *)
(* agents' runs make of each other.  They are for one process: with two,   *)
(* recover_interrupted takes a live worker's job away, and two workers     *)
(* execute one run.                                                        *)
(*                                                                         *)
(* Shape: the steps of a run are a COMPLETED prefix, at most one step that *)
(* is tried, and a rest; it says how far the worker has come with them.    *)
(* Counts: what was executed, against what was started and approved.       *)
(* Agreement: who sees to the job of the run, when run and job differ.     *)
(***************************************************************************)
EXTENDS OrchestrationProofs

-----------------------------------------------------------------------------
(* Shape: the steps of the run, and how far the worker has come. *)

\* COMPLETED steps are a prefix; the step after it is the only one that may
\* be RUNNING or FAILED; a run that has not ended has nothing else but
\* PENDING steps, and one that has ended has no RUNNING step.
StepsShape ==
    Exists =>
        /\ run.done = 0 \/ run.done \in DOMAIN steps
        /\ \A i \in DOMAIN steps :
              /\ steps[i].status = "completed" <=> i <= run.done
              /\ steps[i].status \in {"running", "failed"} => i = run.done + 1
              /\ ~Ended => steps[i].status \in {"completed", "running", "pending"}
              /\ Ended => steps[i].status # "running"

StoppedShape ==
    Exists =>
        /\ run.status = "cancelled" => run.stopped
        /\ run.stopped =>
              /\ run.status \in {"cancelled", "failed"}
              /\ \A i \in DOMAIN steps :
                    steps[i].status \notin {"pending", "running", "failed"}

ChainShape ==
    Exists /\ run.kind = "chain" =>
        \A i \in DOMAIN steps \ {1} :
            steps[i].status \in {"completed", "running"} => steps[i].input = {i - 1}

Shapes == StepsShape /\ StoppedShape /\ ChainShape

\* No step of the run is RUNNING; none is left to execute.
NoneRuns == \A i \in DOMAIN steps : steps[i].status # "running"

NoneLeft == \A i \in DOMAIN steps : steps[i].status \notin {"pending", "running"}

\* After claim_job and before prepare_resume.
EarlyPc == {"check1", "askWait", "approve", "prepare"}

\* The loop, when no step is RUNNING.
LoopPc == {"check2", "steps", "pick", "deadlock", "start", "team",
           "completeRun", "completeTeam"}

\* The loop, when the worker has started a step.
TryPc == {"progress", "execute", "check3", "failStep", "commit"}

\* What list_steps returned is still so.
ListedPc == {"pick", "deadlock", "completeRun", "completeTeam"} \cup ChosenPc

Placed(p) ==
    /\ pc[p] \in EarlyPc \cup LoopPc \cup TryPc \cup {"reread"} =>
          run.status # "completed"
    /\ pc[p] \in EarlyPc => Owns(work[p].job) \/ NoneRuns
    /\ pc[p] \in LoopPc \cup {"reread"} => NoneRuns
    /\ pc[p] \in LoopPc /\ Ended => NoneLeft
    /\ pc[p] \in ListedPc => work[p].done = 1 .. run.done
    /\ pc[p] \in ChosenPc => work[p].step = run.done + 1
    /\ pc[p] \in {"team", "completeTeam"} =>
          /\ run.kind = "team"
          /\ \E i \in DOMAIN steps : steps[i].status = "completed" /\ steps[i].marker

-----------------------------------------------------------------------------
(* Counts: what was executed, what was started, what was approved. *)

\* How often the agent was run.
Count(x) == IF x \in DOMAIN effects THEN effects[x] ELSE 0

\* Before the worker has run the agent of its step.
UntriedPc == EarlyPc \cup LoopPc \cup {"check0", "claimRun", "reread", "progress", "execute"}

\* A job runs the agent of a step at most once each time it is started.
EffectsFit ==
    \A x \in DOMAIN effects :
        /\ x[1] \in DOMAIN jobs /\ x[2] \in DOMAIN steps
        /\ effects[x] <= jobs[x[1]].starts

\* While a job is held, it has still to run it for every step that is not
\* COMPLETED.
Unspent(p) ==
    \A i \in DOMAIN steps :
        /\ steps[i].status # "completed" /\ work[p].job # NoJob
        /\ pc[p] \in UntriedPc \/ (pc[p] \in TryPc /\ i # work[p].step)
        => Count(<<work[p].job, i>>) < jobs[work[p].job].starts

\* In the present revision every run of an agent is an attempt of its step.
AttemptsFit ==
    \A i \in DOMAIN steps :
        /\ steps[i].attempts <= StepAttempts
        /\ Count(<<run.rev, i>>) <= steps[i].attempts

Tried(p) ==
    pc[p] \in {"progress", "execute"} /\ work[p].job = run.rev =>
        Count(<<run.rev, work[p].step>>) < steps[work[p].step].attempts

Asked == \E v \in DOMAIN jobs : jobs[v].grants > 0

ApprovalFits ==
    Exists /\ (run.approved \/ (run.high /\ DOMAIN effects # {})) => Asked

AskedFor(p) ==
    /\ work[p].granted => Asked
    /\ pc[p] = "approve" => work[p].granted
    /\ pc[p] = "check1" /\ ~work[p].ask /\ run.high => Asked
    /\ pc[p] \in {"prepare", "reread"} \cup LoopPc \cup TryPc /\ run.high => Asked

OneInv ==
    /\ RefInv /\ Shapes /\ EffectsFit /\ AttemptsFit /\ ApprovalFits
    /\ \A p \in Procs : Placed(p) /\ Unspent(p) /\ Tried(p) /\ AskedFor(p)

-----------------------------------------------------------------------------
(* Without repeated create_run calls: nobody fails the run of a worker. *)

\* _execute_run, once it has claimed the run.
WorkPc == EarlyPc \cup LoopPc \cup TryPc \cup {"reread"}

DownFit(p) == phase[p] = "down" => pc[p] = "down" /\ \A t \in Callers : pc[t] = "down"

\* The constructor is alone with the worker: no command resumes the run, and
\* reconcile fails a run only when its job has ended.
BuildFit(p) ==
    phase[p] \in {"starting", "serving"} =>
        /\ pc[p] \in WorkPc => work[p].job = run.rev
        /\ \A t \in Callers :
              /\ t # Main[p] => pc[t] = "down"
              /\ pc[t] # "idle"
              /\ pc[t] \in Calling \cup {"look"} => seen[t].rev = run.rev
              /\ pc[t] = "markFailed" =>
                    \/ Ended
                    \/ run.rev \in DOMAIN jobs /\ jobs[run.rev].status \in J!Terminal

\* A caller of the service makes a job, and finds none that has ended.
ServeFit(p) ==
    phase[p] \in {"running", "closing"} =>
        \A t \in Callers :
            /\ pc[t] \notin {"list", "look", "recover", "ready", "markFailed"}
            /\ pc[t] = "enqueue" =>
                  /\ seen[t].rev \notin DOMAIN jobs
                  /\ \A u \in Callers \ {t} : pc[u] = "enqueue" => seen[u].rev # seen[t].rev

HoldsRunning(p) == work[p].job # NoJob => jobs[work[p].job].status = "running"

\* What the worker relies on is still so, or the run was cancelled.
Undisturbed(p) ==
    /\ pc[p] \in EarlyPc => Owns(work[p].job) \/ run.stopped
    /\ pc[p] \in LoopPc \cup TryPc => run.status # "failed"
    /\ pc[p] \in TryPc => steps[work[p].step].status = "running" \/ run.stopped
    /\ (pc[p] = "pick" /\ ~work[p].open) \/ pc[p] = "completeRun" =>
          At("completed") = DOMAIN steps \/ run.stopped
    /\ pc[p] = "check1" /\ ~work[p].ask /\ run.high => run.approved
    /\ pc[p] \in {"prepare", "reread"} \cup LoopPc /\ run.high =>
          run.approved \/ run.stopped
    /\ pc[p] \in TryPc /\ run.high => run.approved

EndedShape ==
    Exists =>
        /\ run.status = "completed" =>
              /\ At("completed") \cup At("skipped") = DOMAIN steps
              /\ At("skipped") # {} => \E i \in At("completed") : steps[i].marker
              /\ run.result = IF run.kind \in {"parallel", "team"}
                              THEN At("completed") ELSE {Len(steps)}
        /\ run.status = "failed" =>
              At("failed") # {} \/ run.stopped \/ At("completed") = DOMAIN steps
        /\ run.high /\ DOMAIN effects # {} => run.approved

CallersFit(p) == DownFit(p) /\ BuildFit(p) /\ ServeFit(p)

CalmInv ==
    /\ OneInv /\ EndedShape
    /\ \A p \in Procs : CallersFit(p) /\ HoldsRunning(p) /\ Undisturbed(p)

-----------------------------------------------------------------------------
(* Shape: what the transactions of callers leave of the steps. *)

Rows == Exists /\ run \in Run /\ steps \in Seq(Step) /\ 1 \in DOMAIN steps

\* What a worker may rely on, whoever else acts on its run.
Steady ==
    /\ run'.done = run.done /\ run'.approved = run.approved
    /\ run'.status = "completed" <=> run.status = "completed"
    /\ run.stopped => run'.stopped
    /\ \A i \in DOMAIN steps :
          /\ steps[i].status = "completed" => steps'[i].marker = steps[i].marker
          /\ steps'[i].status = "running" => steps[i].status = "running"
          /\ \/ run'.rev = run.rev /\ steps'[i].attempts = steps[i].attempts
             \/ run'.rev = run.rev + 1 /\ steps'[i].attempts <= steps[i].attempts
    /\ Ended' => (Ended /\ steps' = steps) \/ NoneLeft'
    /\ \A v : Owns(v) => Owns(v)' \/ NoneRuns'

LEMMA RowsTyped ==
    ASSUME Rows
    PROVE  /\ DOMAIN steps \subseteq Nat \ {0} /\ run.done \in Nat /\ run.rev \in Nat
           /\ Len(steps) \in Nat /\ DOMAIN steps = 1 .. Len(steps)
           /\ \A i \in DOMAIN steps :
                 /\ steps[i] \in Step /\ steps[i].attempts \in Nat
                 /\ steps[i].status \in StepStatus
  <1>1. /\ Len(steps) \in Nat /\ DOMAIN steps = 1 .. Len(steps)
        /\ \A j \in DOMAIN steps : steps[j] \in Step
    BY StepsSeq DEF Rows
  <1>2. QED
    BY <1>1 DEF Rows, Run, Step

LEMMA UntouchedShape ==
    ASSUME Rows, Shapes, UNCHANGED <<run, steps>>
    PROVE  Shapes' /\ Steady
  <1>1. Shapes'
    BY DEF Shapes, StepsShape, StoppedShape, ChainShape, Exists, Ended
  <1>2. Steady
    BY DEF Steady, Owns, Ended
  <1>3. QED
    BY <1>1, <1>2

LEMMA LinkShape ==
    ASSUME Rows, Shapes, DOMAIN jobs \subseteq Nat, LinkMove
    PROVE  Shapes' /\ Steady
  <1>1. PICK v \in DOMAIN jobs : ClaimJob(v) \/ MarkWaiting(v)
    BY DEF LinkMove
  <1>2. /\ steps' = steps /\ SameRun /\ run'.stopped = run.stopped
        /\ \/ run' = run
           \/ /\ Claims(v) /\ run'.job = v
              /\ run'.status \in {run.status, "waiting_approval"}
    BY <1>1, Linking DEF LinkMove, Rows
  <1>3. CASE run' = run
    BY <1>2, <1>3, UntouchedShape
  <1>4. CASE Claims(v) /\ run'.job = v /\ run'.status \in {run.status, "waiting_approval"}
    <2>1. ~Ended /\ ~Ended' /\ ~run.stopped /\ ~run'.stopped /\ Exists
      BY <1>2, <1>4, StatusNames DEF Claims, Ended, Shapes, StoppedShape, Rows
    <2>2. Shapes'
      BY <1>2, <2>1, StatusNames DEF Shapes, StepsShape, StoppedShape, ChainShape, SameRun, Revised, Ended
    <2>3. \A u : Owns(u) => Owns(u)'
      BY <1>2, <1>4, <2>1 DEF Owns, Claims, SameRun, Revised
    <2>4. QED
      BY <1>2, <2>1, <2>2, <2>3 DEF Steady, SameRun, Revised, Ended, RunTerminal
  <1>5. QED
    BY <1>2, <1>3, <1>4

LEMMA CancelShape ==
    ASSUME Rows, Shapes, Cancel
    PROVE  Shapes' /\ Steady
  <1>1. /\ SameRun /\ SameSteps
        /\ \/ Ended /\ UNCHANGED <<run, steps>>
           \/ /\ ~Ended /\ run'.status = "cancelled" /\ run'.stopped
              /\ \A i \in DOMAIN steps :
                    steps'[i].status = IF i \in Unfinished THEN "cancelled" ELSE steps[i].status
    BY Cancelling DEF Rows
  <1>2. CASE UNCHANGED <<run, steps>>
    BY <1>2, UntouchedShape
  <1>3. CASE ~Ended /\ run'.status = "cancelled"
    <2>1. Ended' /\ Exists
      BY <1>3 DEF Ended, RunTerminal, Rows
    <2>2. /\ run'.done = run.done /\ DOMAIN steps' = DOMAIN steps /\ run'.kind = run.kind
          /\ run'.rev = run.rev /\ run'.approved = run.approved /\ run'.stopped
          /\ \A i \in DOMAIN steps : /\ steps'[i].attempts = steps[i].attempts
                                     /\ steps'[i].input = steps[i].input
                                     /\ steps'[i].marker = steps[i].marker
      BY <1>1, <1>3 DEF SameRun, SameSteps, Revised
    <2>3. \A i \in DOMAIN steps :
             \/ steps'[i].status = "completed" /\ steps[i].status = "completed"
             \/ steps'[i].status = "cancelled" /\ steps[i].status # "completed"
      BY <1>1, <1>3, <2>1 DEF Shapes, StepsShape, Unfinished, At
    <2>4. Shapes'
      BY <1>3, <2>1, <2>2, <2>3 DEF Shapes, StepsShape, StoppedShape, ChainShape
    <2>5. NoneLeft'
      BY <2>2, <2>3 DEF NoneLeft
    <2>6. run.status # "completed" /\ run'.status # "completed" /\ ~run.stopped
      BY <1>1, <1>3, StatusNames DEF Ended, Rows, Shapes, StoppedShape
    <2>7. Steady
      BY <1>3, <2>1, <2>2, <2>3, <2>5, <2>6 DEF Steady, NoneLeft, NoneRuns
    <2>8. QED
      BY <2>4, <2>7
  <1>4. QED
    BY <1>1, <1>2, <1>3

\* The first of the steps left is the one after the COMPLETED ones.
LEMMA FirstLeft ==
    ASSUME Rows, StepsShape, ~Ended
    PROVE  /\ Unfinished = {i \in DOMAIN steps : i > run.done}
           /\ Unfinished # {} => MinOf(Unfinished) = run.done + 1
  <1>1. /\ DOMAIN steps \subseteq Nat /\ run.done \in Nat
        /\ Len(steps) \in Nat /\ DOMAIN steps = 1 .. Len(steps)
    BY RowsTyped
  <1>2. \A i \in DOMAIN steps : i \in Unfinished <=> ~(i <= run.done)
    BY DEF Rows, StepsShape, Unfinished, At
  <1>3. Unfinished = {i \in DOMAIN steps : i > run.done}
    BY <1>1, <1>2 DEF Unfinished, At
  <1>4. ASSUME Unfinished # {} PROVE MinOf(Unfinished) = run.done + 1
    <2>1. run.done + 1 \in Unfinished /\ \A j \in Unfinished : run.done + 1 <= j
      BY <1>1, <1>3, <1>4
    <2>2. QED
      BY <1>1, <1>3, <2>1, LeastIs
  <1>5. QED
    BY <1>3, <1>4

LEMMA FailedShape ==
    ASSUME Rows, Shapes, MarkFailed
    PROVE  Shapes' /\ Steady
  <1>1. /\ SameRun /\ SameSteps /\ run'.stopped = run.stopped
        /\ \/ Ended /\ UNCHANGED <<run, steps>>
           \/ /\ ~Ended /\ run'.status = "failed"
              /\ \A i \in DOMAIN steps :
                    steps'[i].status = IF i \notin Unfinished THEN steps[i].status
                                       ELSE IF i = MinOf(Unfinished) THEN "failed" ELSE "skipped"
    BY MarkingFailed DEF Rows
  <1>2. CASE UNCHANGED <<run, steps>>
    BY <1>2, UntouchedShape
  <1>3. CASE ~Ended /\ run'.status = "failed"
    <2>1. Ended' /\ Exists /\ ~run'.stopped
      BY <1>1, <1>3, StatusNames DEF Ended, Rows, Shapes, StoppedShape
    <2>2. /\ run'.done = run.done /\ DOMAIN steps' = DOMAIN steps /\ run'.kind = run.kind
          /\ run'.rev = run.rev /\ run'.approved = run.approved
          /\ \A i \in DOMAIN steps : /\ steps'[i].attempts = steps[i].attempts
                                     /\ steps'[i].input = steps[i].input
                                     /\ steps'[i].marker = steps[i].marker
      BY <1>1, <1>3 DEF SameRun, SameSteps, Revised
    <2>3. \A i \in DOMAIN steps :
             \/ steps'[i].status = "completed" /\ steps[i].status = "completed"
             \/ steps'[i].status = "failed" /\ steps[i].status # "completed" /\ i = run.done + 1
             \/ steps'[i].status = "skipped" /\ steps[i].status # "completed"
      <3>1. SUFFICES ASSUME NEW i \in DOMAIN steps
                     PROVE  \/ steps'[i].status = "completed" /\ steps[i].status = "completed"
                            \/ steps'[i].status = "failed" /\ steps[i].status # "completed" /\ i = run.done + 1
                            \/ steps'[i].status = "skipped" /\ steps[i].status # "completed"
        OBVIOUS
      <3>2. CASE i \in Unfinished
        BY <1>1, <1>3, <3>2, FirstLeft DEF Shapes, Unfinished, At
      <3>3. CASE i \notin Unfinished
        BY <1>1, <1>3, <2>1, <3>3 DEF Shapes, StepsShape, Unfinished, At
      <3>4. QED
        BY <3>2, <3>3
    <2>4. Shapes'
      BY <1>3, <2>1, <2>2, <2>3 DEF Shapes, StepsShape, StoppedShape, ChainShape
    <2>5. NoneLeft'
      BY <2>2, <2>3 DEF NoneLeft
    <2>6. run.status # "completed" /\ run'.status # "completed" /\ ~run.stopped
      BY <1>1, <1>3, StatusNames DEF Ended, Rows, Shapes, StoppedShape
    <2>7. Steady
      BY <1>3, <2>1, <2>2, <2>3, <2>5, <2>6 DEF Steady, NoneLeft, NoneRuns
    <2>8. QED
      BY <2>4, <2>7
  <1>4. QED
    BY <1>1, <1>2, <1>3

LEMMA CompletedAre ==
    ASSUME Rows, StepsShape
    PROVE  At("completed") = 1 .. run.done /\ Cardinality(At("completed")) = run.done
  <1>1. /\ run.done \in Nat /\ Len(steps) \in Nat /\ DOMAIN steps = 1 .. Len(steps)
    BY RowsTyped
  <1>2. /\ \A i \in DOMAIN steps : steps[i].status = "completed" <=> i <= run.done
        /\ run.done <= Len(steps)
    BY <1>1 DEF Rows, StepsShape
  <1>3. At("completed") = 1 .. run.done
    BY <1>1, <1>2 DEF At
  <1>4. Cardinality(1 .. run.done) = run.done
    BY <1>1, FS_Interval, SMTT(30)
  <1>5. QED
    BY <1>3, <1>4

LEMMA ResumeShape ==
    ASSUME Rows, Shapes, ResumeMove
    PROVE  Shapes' /\ Steady
  <1>1. /\ DOMAIN steps \subseteq Nat \ {0} /\ run.done \in Nat /\ run.rev \in Nat
        /\ \A i \in DOMAIN steps : steps[i].attempts \in Nat
    BY RowsTyped
  <1>2. At("failed") # {} /\ \A i \in At("failed") : i = run.done + 1
    BY DEF ResumeMove, Shapes, StepsShape, Rows, At
  <1>3. MinOf(At("failed")) = run.done + 1
    <2>1. run.done + 1 \in At("failed") /\ At("failed") \subseteq Nat
      BY <1>1, <1>2 DEF At
    <2>2. QED
      BY <1>2, <2>1, LeastIs
  <1>4. {i \in At("completed") : i < run.done + 1} = At("completed")
    BY <1>1, CompletedAre DEF Shapes
  <1>5. /\ run' \in Run /\ run'.rev = run.rev + 1 /\ run'.kind = run.kind
        /\ run'.status = "queued" /\ ~run'.stopped /\ run'.approved = run.approved
        /\ run'.done = Cardinality({i \in At("completed") : i < run.done + 1})
        /\ DOMAIN steps' = DOMAIN steps
        /\ \A i \in DOMAIN steps : steps'[i] = IF i < run.done + 1 THEN steps[i] ELSE NewStep
    BY <1>3, Resetting DEF ResumeMove, Rows
  <1>6. run'.done = run.done
    BY <1>4, <1>5, CompletedAre DEF Shapes
  <1>7. \A i \in DOMAIN steps :
           \/ i <= run.done /\ steps'[i] = steps[i] /\ steps[i].status = "completed"
           \/ /\ ~(i <= run.done) /\ steps'[i].status = "pending" /\ steps'[i].attempts = 0
              /\ steps[i].status # "completed"
    BY <1>1, <1>5 DEF NewStep, Shapes, StepsShape, Rows
  <1>8. Exists' /\ ~Ended'
    BY <1>5 DEF Exists, Ended, RunTerminal
  <1>9. Shapes'
    BY <1>5, <1>6, <1>7, <1>8, ZenonT(30) DEF Shapes, StepsShape, StoppedShape, ChainShape, Rows
  <1>10. NoneRuns'
    BY <1>5, <1>7 DEF NoneRuns
  <1>11. ~run.stopped /\ run.status # "completed"
    BY <1>2 DEF ResumeMove, Shapes, StoppedShape, Rows, At
  <1>12. Steady
    BY <1>1, <1>5, <1>6, <1>7, <1>8, <1>10, <1>11 DEF Steady
  <1>13. QED
    BY <1>9, <1>12

-----------------------------------------------------------------------------
(* One process: the steps of everyone but its worker. *)

\* The worker goes on with what it has, or is not at work.
Aside(p) ==
    /\ UNCHANGED effects
    /\ \/ pc'[p] = pc[p] /\ work'[p] = work[p]
       \/ pc'[p] \in {"down", "poll"} /\ work'[p] \in {work[p], Idle}
    /\ \/ UNCHANGED <<run, steps>>
       \/ CreateMove
       \/ LinkMove \/ (Exists /\ Cancel) \/ (Exists /\ MarkFailed)
       \/ ResumeMove

LEMMA AsideStep ==
    ASSUME NEW p, Procs = {p}, RefInv, [Next]_vars
    PROVE  WorkerActs(p) \/ Aside(p)
  <1>0. /\ p \in Procs /\ Procs \cap Callers = {} /\ Threads = Procs \cup Callers
        /\ pc \in [Threads -> Pc] /\ work \in [Procs -> Work] /\ Main[p] \in Callers
    BY OrchestrationAssumption DEF RefInv, TypeOK, Threads
  <1>1. ASSUME NEW t \in Callers, CallerActs(t) PROVE Aside(p)
    <2>1. pc'[p] = pc[p] /\ work' = work /\ effects' = effects
      BY <1>0, <1>1, CallerMoves, CallerPcs
    <2>2. QED
      BY <1>1, <2>1, CallerTables DEF Aside
  <1>2. CASE ClaimFault(p)
    BY <1>2 DEF ClaimFault, Aside
  <1>3. CASE LifeActs(p)
    <2>1. UNCHANGED <<run, steps, effects>>
      BY <1>0, <1>3, LifeMoves
    <2>2. \/ pc'[p] = pc[p] /\ work'[p] = work[p]
          \/ pc'[p] \in {"down", "poll"} /\ work'[p] \in {work[p], Idle}
      <3>1. CASE Recover(p)
        <4>1. pc' = [pc EXCEPT ![Main[p]] = "list", ![p] = "poll"] /\ work' = work
          BY <3>1 DEF Recover
        <4>2. pc'[p] = "poll"
          BY <1>0, <4>1
        <4>3. QED
          BY <4>1, <4>2
      <3>2. CASE Boot(p) /\ work' = work
        BY <1>0, <3>2 DEF Boot, Goto
      <3>3. CASE Close(p) /\ work' = work
        BY <1>0, <3>3 DEF Close, Goto
      <3>4. CASE Serve(p) /\ work' = work
        BY <1>0, <3>4 DEF Serve
      <3>5. CASE End(p)
        BY <1>0, <3>5 DEF End, Remember, HomeOf
      <3>6. QED
        BY <1>0, <1>3, <3>1, <3>2, <3>3, <3>4, <3>5, LifeMoves
    <2>3. QED
      BY <2>1, <2>2 DEF Aside
  <1>4. CASE UNCHANGED vars
    BY <1>4 DEF vars, tables, Aside
  <1>5. QED
    BY <1>0, <1>1, <1>2, <1>3, <1>4, Actors

LEMMA RowsAre ==
    ASSUME RefInv, Exists PROVE Rows
  <1>1. run \in Run /\ steps \in Seq(Step) /\ steps # << >>
    BY RunKnown DEF RefInv, TypeOK, RunFits
  <1>2. 1 \in DOMAIN steps
    BY <1>1, StepsSeq
  <1>3. QED
    BY <1>1, <1>2 DEF Rows

LEMMA AsideShape ==
    ASSUME NEW p, RefInv, Shapes, Aside(p)
    PROVE  Shapes' /\ (Exists => Steady) /\ (~Exists => UNCHANGED run \/ CreateMove)
  <1>1. DOMAIN jobs \subseteq Nat
    BY DEF RefInv, TypeOK
  <1>2. CASE Exists
    BY <1>1, <1>2, RowsAre, UntouchedShape, LinkShape, CancelShape, FailedShape, ResumeShape
       DEF Aside, CreateMove
  <1>3. CASE ~Exists /\ UNCHANGED <<run, steps>>
    BY <1>3 DEF Shapes, StepsShape, StoppedShape, ChainShape, Exists
  <1>4. CASE CreateMove
    <2>1. PICK q \in Requests : run' = NewRun(q) /\ steps' = [i \in 1 .. q.total |-> NewStep]
      BY <1>4 DEF CreateMove
    <2>2. /\ run'.done = 0 /\ run'.status = "queued" /\ ~run'.stopped
          /\ \A i \in DOMAIN steps' : steps'[i].status = "pending" /\ i \in Nat \ {0}
      BY <2>1, NewRunTyped DEF NewRun, NewStep
    <2>3. QED
      BY <1>4, <2>2 DEF CreateMove, Shapes, StepsShape, StoppedShape, ChainShape, Ended, RunTerminal
  <1>5. QED
    BY <1>2, <1>3, <1>4 DEF Aside, LinkMove, ResumeMove, Exists

LEMMA AskedKept ==
    ASSUME RefInv, JobsGrow, JobsPaid', Asked PROVE Asked'
  <1>1. PICK v \in DOMAIN jobs : jobs[v].grants > 0
    BY DEF Asked
  <1>2. v \in DOMAIN jobs' /\ jobs[v].grants <= jobs'[v].grants
    BY DEF JobsGrow
  <1>3. jobs[v].grants \in Nat /\ jobs'[v].grants \in Nat
    BY <1>2, RowNats DEF RefInv, JobsPaid, Paid
  <1>4. jobs'[v].grants > 0
    BY <1>1, <1>2, <1>3
  <1>5. QED
    BY <1>2, <1>4 DEF Asked

\* What is counted is a number.
LEMMA CountsTyped ==
    ASSUME RefInv
    PROVE  /\ \A x : Count(x) \in Nat
           /\ \A v \in DOMAIN jobs : jobs[v].starts \in Nat /\ jobs[v].grants \in Nat
           /\ \A i \in DOMAIN steps : steps[i].attempts \in Nat
  <1>1. \A x : Count(x) \in Nat
    BY DEF Count, RefInv, TypeOK
  <1>2. \A v \in DOMAIN jobs : jobs[v].starts \in Nat /\ jobs[v].grants \in Nat
    BY RowNats DEF RefInv, JobsPaid, Paid
  <1>3. \A i \in DOMAIN steps : steps[i].attempts \in Nat
    BY StepsSeq DEF RefInv, TypeOK, Step
  <1>4. QED
    BY <1>1, <1>2, <1>3

LEMMA AsidePlaced ==
    ASSUME NEW p \in Procs, RefInv, RefInv', Shapes, Shapes', Placed(p), Aside(p), Exists, Steady,
           RunLasts
    PROVE  Placed(p)'
  <1>1. CASE pc'[p] \in {"down", "poll"}
    BY <1>1 DEF Placed, EarlyPc, LoopPc, TryPc, ListedPc, ChosenPc
  <1>2. CASE pc'[p] = pc[p] /\ work'[p] = work[p]
    <2>1. /\ DOMAIN steps' = DOMAIN steps /\ run'.kind = run.kind /\ run'.done = run.done /\ Exists'
      BY DEF RunLasts, Steady
    <2>2. /\ NoneRuns => NoneRuns'
          /\ Owns(work[p].job) => Owns(work[p].job)' \/ NoneRuns'
      BY <1>2, <2>1 DEF Steady, NoneRuns, Owns
    <2>3. (Ended => NoneLeft) /\ Ended' => NoneLeft'
      BY <2>1 DEF Steady, NoneLeft
    <2>4. ASSUME NEW i \in DOMAIN steps, steps[i].status = "completed", steps[i].marker
          PROVE  steps'[i].status = "completed" /\ steps'[i].marker
      BY <2>1, <2>4 DEF Steady, Shapes, StepsShape
    <2>5. QED
      BY <1>2, <2>1, <2>2, <2>3, <2>4 DEF Placed, Steady
  <1>3. QED
    BY <1>1, <1>2 DEF Aside

LEMMA AsideCounts ==
    ASSUME NEW p \in Procs, OneInv, RefInv', Shapes', Aside(p), Exists, Steady, RunLasts, JobsGrow
    PROVE  EffectsFit' /\ AttemptsFit' /\ Unspent(p)' /\ Tried(p)'
  <1>1. /\ DOMAIN steps' = DOMAIN steps /\ DOMAIN jobs \subseteq DOMAIN jobs'
        /\ \A x : Count(x)' = Count(x)
        /\ \A i \in DOMAIN steps : steps'[i].status = "completed" <=> steps[i].status = "completed"
        /\ Exists' /\ run.rev \in Nat
    BY RowsAre, RowsTyped DEF RunLasts, JobsGrow, Aside, Count, OneInv, Steady, Shapes, StepsShape
  <1>2. /\ \A x : Count(x) \in Nat
        /\ \A v \in DOMAIN jobs : /\ jobs[v].starts \in Nat /\ jobs'[v].starts \in Nat
                                  /\ jobs[v].starts <= jobs'[v].starts
        /\ \A i \in DOMAIN steps : steps[i].attempts \in Nat /\ steps'[i].attempts \in Nat
    <2>1. /\ \A v \in DOMAIN jobs' : jobs'[v].starts \in Nat
          /\ \A i \in DOMAIN steps' : steps'[i].attempts \in Nat
      BY StepsSeq, RowNats DEF RefInv, TypeOK, Step, JobsPaid, Paid
    <2>2. QED
      BY <1>1, <2>1, CountsTyped DEF OneInv, JobsGrow
  <1>3. EffectsFit'
    <2>1. \A x \in DOMAIN effects : effects[x] \in Nat
      BY DEF OneInv, RefInv, TypeOK
    <2>2. QED
      BY <1>1, <1>2, <2>1 DEF OneInv, EffectsFit, Aside
  <1>4. Unspent(p)'
    <2>1. CASE pc'[p] = pc[p] /\ work'[p] = work[p]
      <3>1. work[p].job # NoJob => work[p].job \in DOMAIN jobs
        BY DEF OneInv, RefInv, WorkFits
      <3>2. Unspent(p)
        BY DEF OneInv
      <3>3. ASSUME NEW i \in DOMAIN steps, NEW v \in DOMAIN jobs, Count(<<v, i>>) < jobs[v].starts
            PROVE  Count(<<v, i>>)' < jobs'[v].starts
        <4>1. Count(<<v, i>>)' = Count(<<v, i>>)
          BY <1>1
        <4>2. Count(<<v, i>>) \in Nat
          BY <1>2
        <4>3. QED
          BY <1>2, <3>3, <4>1, <4>2
      <3>4. SUFFICES ASSUME NEW i \in DOMAIN steps', steps'[i].status # "completed",
                            work'[p].job # NoJob,
                            pc'[p] \in UntriedPc \/ (pc'[p] \in TryPc /\ i # work'[p].step)
                     PROVE  (Count(<<work[p].job, i>>) < jobs[work[p].job].starts)'
        BY DEF Unspent
      <3>5. work[p].job \in DOMAIN jobs /\ Count(<<work[p].job, i>>) < jobs[work[p].job].starts
        BY <1>1, <2>1, <3>1, <3>2, <3>4 DEF Unspent
      <3>6. PICK v \in DOMAIN jobs : v = work[p].job
        BY <3>5
      <3>7. Count(<<v, i>>)' < jobs'[v].starts
        BY <1>1, <3>3, <3>4, <3>5, <3>6
      <3>8. QED
        BY <2>1, <3>6, <3>7 DEF Count
    <2>2. CASE pc'[p] \in {"down", "poll"}
      BY <2>2 DEF Unspent, UntriedPc, EarlyPc, LoopPc, TryPc
    <2>3. QED
      BY <2>1, <2>2 DEF Aside
  \* A new revision has no job yet.
  <1>5. CASE run'.rev = run.rev + 1
    <2>1. \A i : Count(<<run'.rev, i>>) = 0
      <3>1. run'.rev \notin DOMAIN jobs
        BY <1>1, <1>5 DEF OneInv, RefInv, RunFits
      <3>2. \A x \in DOMAIN effects : x[1] \in DOMAIN jobs
        BY DEF OneInv, EffectsFit
      <3>3. \A i : <<run'.rev, i>> \notin DOMAIN effects
        BY <3>1, <3>2
      <3>4. QED
        BY <3>3 DEF Count
    <2>2. AttemptsFit'
      <3>1. StepAttempts \in Nat
        BY OrchestrationAssumption
      <3>2. \A i \in DOMAIN steps : steps'[i].attempts <= steps[i].attempts
        BY <1>1, <1>2, <1>5 DEF Steady
      <3>3. \A i \in DOMAIN steps : steps[i].attempts <= StepAttempts
        BY DEF OneInv, AttemptsFit
      <3>4. \A i \in DOMAIN steps : steps'[i].attempts <= StepAttempts
        BY <1>2, <3>1, <3>2, <3>3
      <3>5. \A i : Count(<<run.rev, i>>)' = 0
        BY <2>1 DEF Count, Aside
      <3>6. \A i \in DOMAIN steps' : Count(<<run.rev, i>>)' <= steps'[i].attempts
        <4>1. \A i \in DOMAIN steps' : steps'[i].attempts >= 0
          BY <1>1, <1>2
        <4>2. QED
          BY <3>5, <4>1
      <3>7. QED
        BY <1>1, <3>4, <3>6 DEF AttemptsFit
    <2>3. Tried(p)'
      <3>1. work[p].job # run'.rev /\ Idle.job # run'.rev
        BY <1>1, <1>5 DEF OneInv, RefInv, WorkFits, RunFits, NoJob, Idle
      <3>2. QED
        BY <3>1 DEF Tried, Aside
    <2>4. QED
      BY <1>3, <1>4, <2>2, <2>3
  <1>6. CASE run'.rev = run.rev
    <2>1. \A i \in DOMAIN steps : steps'[i].attempts = steps[i].attempts
      BY <1>1, <1>6 DEF Steady
    <2>2. AttemptsFit'
      BY <1>1, <1>6, <2>1 DEF OneInv, AttemptsFit
    <2>3. Tried(p)'
      <3>1. CASE pc'[p] = pc[p] /\ work'[p] = work[p]
        <4>1. pc[p] \in {"progress", "execute"} => work[p].step \in DOMAIN steps
          BY DEF OneInv, RefInv, WorkFits, ChosenPc
        <4>2. QED
          BY <1>1, <1>6, <2>1, <3>1, <4>1 DEF OneInv, Tried
      <3>2. CASE pc'[p] \in {"down", "poll"}
        BY <3>2 DEF Tried
      <3>3. QED
        BY <3>1, <3>2 DEF Aside
    <2>4. QED
      BY <1>3, <1>4, <2>2, <2>3
  <1>7. QED
    BY <1>1, <1>5, <1>6, RowsAre DEF Steady, Rows, OneInv

LEMMA AsideAsked ==
    ASSUME NEW p \in Procs, OneInv, RefInv', Aside(p), Exists, Steady, RunLasts, JobsGrow
    PROVE  ApprovalFits' /\ AskedFor(p)'
  <1>1. Asked => Asked'
    BY AskedKept DEF OneInv, RefInv
  <1>2. run'.high = run.high /\ run'.approved = run.approved /\ effects' = effects
    BY DEF RunLasts, Steady, Aside
  <1>3. ApprovalFits'
    BY <1>1, <1>2 DEF OneInv, ApprovalFits
  <1>4. AskedFor(p)'
    <2>1. CASE pc'[p] = pc[p] /\ work'[p] = work[p]
      BY <1>1, <1>2, <2>1 DEF OneInv, AskedFor
    <2>2. CASE pc'[p] \in {"down", "poll"} /\ work'[p] \in {work[p], Idle}
      BY <1>1, <2>2 DEF OneInv, AskedFor, EarlyPc, LoopPc, TryPc, Idle
    <2>3. QED
      BY <2>1, <2>2 DEF Aside
  <1>5. QED
    BY <1>3, <1>4

\* Before there is a run there is nothing to execute.
LEMMA AsideFirst ==
    ASSUME NEW p, Procs = {p}, OneInv, RefInv', Shapes', Aside(p), ~Exists, UNCHANGED run \/ CreateMove
    PROVE  OneInv'
  <1>1. DOMAIN jobs = {} /\ DOMAIN effects = {} /\ DOMAIN steps = {}
    <2>1. DOMAIN jobs = {} /\ steps = << >>
      BY DEF OneInv, RefInv, RunFits
    <2>2. \A x \in DOMAIN effects : x[1] \in DOMAIN jobs
      BY DEF OneInv, EffectsFit
    <2>3. DOMAIN effects = {}
      BY <2>1, <2>2
    <2>4. DOMAIN steps = {}
      BY <2>1
    <2>5. QED
      BY <2>1, <2>3, <2>4
  <1>2. p \in Procs /\ work[p].job = NoJob /\ ~Busy(p)
    BY <1>1 DEF OneInv, RefInv, WorkFits, ThreadsFit
  <1>3. /\ pc'[p] \in {"down", "poll"} /\ work'[p].job = NoJob
        /\ work'[p].granted => Asked
    BY <1>2 DEF Aside, Busy, Idle, OneInv, AskedFor
  <1>4. ~Asked
    BY <1>1 DEF Asked
  <1>5. Placed(p)' /\ Unspent(p)' /\ Tried(p)' /\ AskedFor(p)'
    BY <1>3, <1>4 DEF Placed, Unspent, Tried, AskedFor, UntriedPc, EarlyPc, LoopPc, TryPc, ListedPc, ChosenPc
  <1>6. effects' = effects
    BY DEF Aside
  <1>7. EffectsFit'
    BY <1>1, <1>6 DEF EffectsFit
  <1>8. AttemptsFit' /\ ApprovalFits'
    <2>1. CASE UNCHANGED run
      <3>1. ~Exists' /\ DOMAIN steps' = {}
        BY <2>1 DEF Exists, RefInv, RunFits
      <3>2. QED
        BY <3>1 DEF AttemptsFit, ApprovalFits
    <2>2. CASE CreateMove
      <3>1. PICK q \in Requests : run' = NewRun(q) /\ steps' = [i \in 1 .. q.total |-> NewStep]
        BY <2>2 DEF CreateMove
      <3>2. ~run'.approved /\ \A i \in DOMAIN steps' : steps'[i].attempts = 0
        BY <3>1 DEF NewRun, NewStep
      <3>3. \A i : Count(<<run.rev, i>>)' = 0
        BY <1>1, <1>6 DEF Count
      <3>4. StepAttempts \in Nat
        BY OrchestrationAssumption
      <3>5. QED
        BY <1>1, <1>6, <3>2, <3>3, <3>4 DEF AttemptsFit, ApprovalFits
    <2>3. QED
      BY <2>1, <2>2
  <1>9. QED
    BY <1>5, <1>7, <1>8 DEF OneInv

-----------------------------------------------------------------------------
(* Shape: what the worker's own transactions leave of the steps. *)

\* What no step of the worker takes back.
Onwards ==
    /\ run'.rev = run.rev
    /\ run.stopped => run'.stopped
    /\ run.status = "completed" => run'.status = "completed"
    /\ \A i \in DOMAIN steps :
          steps[i].status = "completed" => steps'[i].marker = steps[i].marker

SameAttempts == \A i \in DOMAIN steps : steps'[i].attempts = steps[i].attempts

LEMMA ApproveShape ==
    ASSUME Rows, Shapes, NEW v \in Nat, MarkApproved(v), UNCHANGED steps
    PROVE  /\ Shapes' /\ Onwards /\ SameAttempts /\ run'.done = run.done
           /\ run'.status = "completed" => run.status = "completed"
           /\ \A u : Owns(u) => Owns(u)'
  <1>1. /\ run' \in Run /\ Revised /\ run'.done = run.done /\ run'.job = run.job
        /\ run'.stopped = run.stopped
        /\ \/ run' = run
           \/ Owns(v) /\ run'.status = "running" /\ run'.approved
    BY Approving DEF Rows
  <1>2. CASE run' = run
    BY <1>2, UntouchedShape DEF Steady, Onwards, SameAttempts, Owns, Ended
  <1>3. CASE Owns(v) /\ run'.status = "running"
    <2>1. ~Ended /\ ~Ended' /\ ~run.stopped /\ ~run'.stopped /\ Exists /\ run.status # "completed"
      BY <1>1, <1>3, StatusNames DEF Owns, Ended, Shapes, StoppedShape, Rows
    <2>2. Shapes'
      BY <1>1, <1>3, <2>1 DEF Shapes, StepsShape, StoppedShape, ChainShape, Revised
    <2>3. Onwards /\ SameAttempts
      BY <1>1, <2>1 DEF Onwards, SameAttempts, Revised
    <2>4. \A u : Owns(u) => Owns(u)'
      BY <1>1, <2>1 DEF Owns, Revised
    <2>5. QED
      BY <1>1, <1>3, <2>2, <2>3, <2>4
  <1>4. QED
    BY <1>1, <1>2, <1>3

LEMMA PrepareShape ==
    ASSUME Rows, Shapes, NEW v, PrepareResume(v), Owns(v) \/ NoneRuns
    PROVE  /\ Shapes' /\ Onwards /\ SameAttempts /\ NoneRuns'
           /\ run'.done = run.done /\ run'.approved = run.approved
           /\ Prepares(v) => ~Ended'
           /\ run'.status = "completed" => run.status = "completed"
  <1>1. /\ SameRun /\ SameSteps /\ run'.stopped = run.stopped
        /\ \/ ~Owns(v) /\ UNCHANGED <<run, steps>>
           \/ /\ Prepares(v) /\ run'.status = "running"
              /\ \A i \in DOMAIN steps :
                    steps'[i].status = IF i \in At("running") THEN "pending" ELSE steps[i].status
           \/ /\ Owns(v) /\ ~Prepares(v) /\ run'.status = "failed"
              /\ \A i \in DOMAIN steps :
                    steps'[i].status = IF i \in At("running") /\ Spent(i) THEN "failed"
                                       ELSE steps[i].status
    BY Preparing DEF Rows
  <1>2. CASE ~Owns(v) /\ UNCHANGED <<run, steps>>
    BY <1>1, <1>2, UntouchedShape DEF Onwards, SameAttempts, SameRun, NoneRuns, Prepares, Owns
  <1>3. /\ run'.done = run.done /\ DOMAIN steps' = DOMAIN steps /\ run'.kind = run.kind
        /\ run'.rev = run.rev /\ run'.approved = run.approved
        /\ \A i \in DOMAIN steps : /\ steps'[i].attempts = steps[i].attempts
                                   /\ steps'[i].input = steps[i].input
                                   /\ steps'[i].marker = steps[i].marker
    BY <1>1 DEF SameRun, SameSteps, Revised
  <1>4. ASSUME Owns(v)
        PROVE  ~Ended /\ ~run.stopped /\ run.status # "completed" /\ ~run'.stopped /\ Exists
    BY <1>1, <1>4 DEF Owns, Ended, RunTerminal, Shapes, StoppedShape, Rows
  <1>5. CASE Prepares(v) /\ run'.status = "running"
    <2>1. Owns(v) /\ ~Ended' /\ run'.status # "completed"
      BY <1>5 DEF Prepares, Ended, RunTerminal
    <2>2. \A i \in DOMAIN steps :
             \/ steps'[i].status = "completed" /\ steps[i].status = "completed"
             \/ steps'[i].status = "pending" /\ steps[i].status # "completed"
      BY <1>1, <1>4, <1>5, <2>1 DEF Shapes, StepsShape, At
    <2>3. Shapes' /\ NoneRuns'
      BY <1>3, <1>4, <1>5, <2>1, <2>2 DEF Shapes, StepsShape, StoppedShape, ChainShape, NoneRuns
    <2>4. QED
      BY <1>3, <1>4, <2>1, <2>3 DEF Onwards, SameAttempts
  <1>6. CASE Owns(v) /\ ~Prepares(v) /\ run'.status = "failed"
    <2>1. Ended'
      BY <1>6 DEF Ended, RunTerminal
    <2>2. PICK r \in DOMAIN steps : steps[r].status = "running" /\ Spent(r)
      BY <1>6 DEF Prepares, At
    <2>3. \A i \in DOMAIN steps : steps[i].status = "running" => i = r
      BY <1>4, <1>6, <2>2 DEF Shapes, StepsShape
    <2>4. \A i \in DOMAIN steps :
             \/ steps'[i].status = "completed" /\ steps[i].status = "completed"
             \/ steps'[i].status = "pending" /\ steps[i].status # "completed"
             \/ /\ steps'[i].status = "failed" /\ steps[i].status # "completed"
                /\ i = run.done + 1
      <3>1. \A i \in DOMAIN steps :
               steps'[i].status = IF steps[i].status = "running" THEN "failed" ELSE steps[i].status
        BY <1>1, <1>4, <1>5, <1>6, <2>2, <2>3 DEF At
      <3>2. QED
        BY <1>4, <1>6, <3>1 DEF Shapes, StepsShape
    <2>5. Shapes' /\ NoneRuns'
      BY <1>3, <1>4, <1>6, <2>1, <2>4 DEF Shapes, StepsShape, StoppedShape, ChainShape, NoneRuns
    <2>6. QED
      BY <1>3, <1>4, <1>6, <2>5 DEF Onwards, SameAttempts
  <1>7. QED
    BY <1>1, <1>2, <1>5, <1>6

LEMMA StartShape ==
    ASSUME Rows, Shapes, NEW i \in DOMAIN steps, i = run.done + 1, NoneRuns,
           NEW input \in SUBSET Nat, run.kind = "chain" /\ i # 1 => input = {i - 1},
           StartStep(i, input)
    PROVE  /\ Shapes' /\ Onwards
           /\ run'.done = run.done /\ run'.approved = run.approved
           /\ run'.status = "completed" => run.status = "completed"
           /\ \A j \in DOMAIN steps \ {i} : steps'[j].attempts = steps[j].attempts
           /\ \/ Starts(i) /\ ~Ended' /\ steps'[i].attempts = steps[i].attempts + 1
              \/ ~Starts(i) /\ steps'[i].attempts = steps[i].attempts
  <1>1. /\ SameRun /\ run'.stopped = run.stopped
        /\ DOMAIN steps' = DOMAIN steps
        /\ \A j \in DOMAIN steps \ {i} : steps'[j] = steps[j]
        /\ steps'[i].marker = steps[i].marker
        /\ \/ UNCHANGED <<run, steps>> /\ ~Starts(i)
           \/ /\ Starts(i) /\ run'.status = "running" /\ steps'[i].status = "running"
              /\ steps'[i].input = input /\ steps'[i].attempts = steps[i].attempts + 1
           \/ /\ ~Starts(i) /\ ~Ended /\ steps[i].status = "pending"
              /\ run'.status = "failed" /\ steps'[i].status = "failed"
              /\ steps'[i].input = steps[i].input /\ steps'[i].attempts = steps[i].attempts
    BY Starting DEF Rows
  <1>2. CASE UNCHANGED <<run, steps>> /\ ~Starts(i)
    BY <1>1, <1>2, UntouchedShape DEF Onwards, SameRun
  <1>3. /\ run'.done = run.done /\ run'.kind = run.kind
        /\ run'.rev = run.rev /\ run'.approved = run.approved
    BY <1>1 DEF SameRun, Revised
  <1>4. ASSUME ~Ended, steps[i].status = "pending"
        PROVE  /\ ~run.stopped /\ run.status # "completed" /\ ~run'.stopped /\ Exists
               /\ \A j \in DOMAIN steps \ {i} :
                     \/ steps[j].status = "completed" /\ j <= run.done
                     \/ steps[j].status = "pending" /\ ~(j <= run.done)
               /\ ~(i <= run.done)
    BY <1>1, <1>4 DEF Ended, RunTerminal, Shapes, StepsShape, StoppedShape, Rows, NoneRuns
  <1>5. CASE Starts(i) /\ run'.status = "running" /\ steps'[i].status = "running"
    <2>1. ~Ended /\ ~Ended' /\ steps[i].status = "pending" /\ run'.status # "completed"
      BY <1>5 DEF Starts, Ended, RunTerminal
    <2>2. StepsShape' /\ StoppedShape'
      BY <1>1, <1>3, <1>4, <1>5, <2>1 DEF Shapes, StepsShape, StoppedShape
    <2>3. ChainShape'
      BY <1>1, <1>3, <1>4, <1>5, <2>1 DEF Shapes, ChainShape
    <2>4. Onwards
      BY <1>1, <1>3, <1>4, <2>1 DEF Onwards
    <2>5. QED
      BY <1>1, <1>3, <1>5, <2>1, <2>2, <2>3, <2>4 DEF Shapes
  <1>6. CASE /\ ~Starts(i) /\ ~Ended /\ steps[i].status = "pending"
             /\ run'.status = "failed" /\ steps'[i].status = "failed"
             /\ steps'[i].input = steps[i].input /\ steps'[i].attempts = steps[i].attempts
    <2>1. Ended'
      BY <1>6 DEF Ended, RunTerminal
    <2>2. StepsShape' /\ StoppedShape'
      BY <1>1, <1>3, <1>4, <1>6, <2>1 DEF Shapes, StepsShape, StoppedShape
    <2>3. ChainShape'
      BY <1>1, <1>3, <1>4, <1>6, <2>1 DEF Shapes, ChainShape
    <2>4. Onwards
      BY <1>1, <1>3, <1>4, <1>6, <2>1 DEF Onwards
    <2>5. QED
      BY <1>1, <1>3, <1>6, <2>1, <2>2, <2>3, <2>4 DEF Shapes
  <1>7. QED
    BY <1>1, <1>2, <1>5, <1>6

LEMMA CommitShape ==
    ASSUME Rows, Shapes, NEW i \in DOMAIN steps, steps[i].status = "running",
           NEW marker \in BOOLEAN, CompleteStep(i, marker)
    PROVE  /\ Shapes' /\ Onwards /\ SameAttempts /\ NoneRuns' /\ ~Ended'
           /\ run'.done = i /\ i = run.done + 1 /\ run'.approved = run.approved
           /\ steps'[i].status = "completed" /\ steps'[i].marker = marker
  <1>1. /\ run' \in Run /\ Revised /\ run'.status = run.status
        /\ run'.stopped = run.stopped /\ run'.approved = run.approved
        /\ run'.done = run.done + 1
        /\ DOMAIN steps' = DOMAIN steps
        /\ \A j \in DOMAIN steps \ {i} : steps'[j] = steps[j]
        /\ steps'[i].status = "completed" /\ steps'[i].marker = marker
        /\ steps'[i].input = steps[i].input /\ steps'[i].attempts = steps[i].attempts
    BY Completing DEF Rows
  <1>2. /\ i = run.done + 1 /\ ~Ended /\ ~Ended' /\ ~run.stopped
        /\ Exists' /\ run'.rev = run.rev /\ run'.kind = run.kind
    BY <1>1 DEF Rows, Shapes, StepsShape, StoppedShape, Ended, Exists, Revised
  <1>3. \A j \in DOMAIN steps \ {i} :
           \/ steps[j].status = "completed" /\ j <= run.done
           \/ steps[j].status = "pending" /\ ~(j <= run.done)
    BY <1>2 DEF Rows, Shapes, StepsShape
  <1>4. /\ run.done \in Nat /\ DOMAIN steps \subseteq Nat
    BY RowsTyped
  <1>5. \A j \in DOMAIN steps \ {i} : j <= run'.done <=> j <= run.done
    BY <1>1, <1>2, <1>4
  <1>6. i <= run'.done /\ run'.done = i
    BY <1>1, <1>2, <1>4
  <1>7. StepsShape'
    <2>1. \A j \in DOMAIN steps : /\ steps'[j].status = "completed" <=> j <= run'.done
                                  /\ steps'[j].status \in {"completed", "pending"}
      BY <1>1, <1>3, <1>5, <1>6
    <2>2. QED
      BY <1>1, <1>2, <1>6, <2>1 DEF StepsShape
  <1>8. StoppedShape' /\ ChainShape'
    BY <1>1, <1>2 DEF Shapes, StoppedShape, ChainShape, Rows, Ended, RunTerminal
  <1>9. NoneRuns'
    BY <1>1, <1>3 DEF NoneRuns
  <1>10. Onwards /\ SameAttempts
    BY <1>1, <1>2 DEF Onwards, SameAttempts
  <1>11. QED
    BY <1>1, <1>2, <1>6, <1>7, <1>8, <1>9, <1>10 DEF Shapes

LEMMA FailsShape ==
    ASSUME Rows, Shapes, NEW i, i = run.done + 1, FailStep(i), run.status # "completed"
    PROVE  /\ Shapes' /\ Onwards /\ SameAttempts
           /\ run'.done = run.done /\ run'.approved = run.approved
           /\ run'.status = "completed" => run.status = "completed"
  <1>1. /\ SameRun /\ SameSteps /\ run'.status = "failed" /\ run'.stopped = run.stopped
        /\ \A j \in DOMAIN steps :
              steps'[j].status = IF j = i /\ steps[j].status = "running" THEN "failed"
                                 ELSE IF steps[j].status = "pending" THEN "skipped"
                                 ELSE steps[j].status
    BY Failing DEF Rows
  <1>2. /\ run'.done = run.done /\ DOMAIN steps' = DOMAIN steps /\ run'.kind = run.kind
        /\ run'.rev = run.rev /\ run'.approved = run.approved
        /\ \A j \in DOMAIN steps : /\ steps'[j].attempts = steps[j].attempts
                                   /\ steps'[j].input = steps[j].input
                                   /\ steps'[j].marker = steps[j].marker
    BY <1>1 DEF SameRun, SameSteps, Revised
  <1>3. Ended' /\ Exists
    BY <1>1 DEF Ended, RunTerminal, Rows
  <1>4. \A j \in DOMAIN steps :
           /\ steps'[j].status # "running" /\ steps'[j].status # "pending"
           /\ steps'[j].status = "completed" <=> steps[j].status = "completed"
           /\ steps'[j].status = "failed" => j = run.done + 1
           /\ steps'[j].status = "failed" => steps[j].status \in {"running", "failed"}
    BY <1>1, <1>3 DEF Shapes, StepsShape
  <1>5. Shapes'
    BY <1>1, <1>2, <1>3, <1>4 DEF Shapes, StepsShape, StoppedShape, ChainShape
  <1>6. Onwards /\ SameAttempts
    BY <1>1, <1>2 DEF Onwards, SameAttempts
  <1>7. QED
    BY <1>1, <1>2, <1>5, <1>6

LEMMA FinishShape ==
    ASSUME Rows, Shapes, NoneRuns, NEW result \in SUBSET Nat, NEW skip \in BOOLEAN,
           CompleteRun(result, skip)
    PROVE  /\ Shapes' /\ Onwards /\ SameAttempts
           /\ run'.done = run.done /\ run'.approved = run.approved
  <1>1. /\ SameRun /\ SameSteps /\ run'.stopped = run.stopped
        /\ \/ Ended /\ UNCHANGED <<run, steps>>
           \/ /\ ~Ended /\ run'.status = "completed" /\ run'.result = result
              /\ \A i \in DOMAIN steps :
                    steps'[i].status = IF skip /\ i \in At("pending") THEN "skipped"
                                       ELSE steps[i].status
    BY Finishing DEF Rows
  <1>2. CASE UNCHANGED <<run, steps>>
    BY <1>2, UntouchedShape DEF Onwards, SameAttempts
  <1>3. CASE ~Ended /\ run'.status = "completed"
    <2>1. Ended' /\ Exists /\ ~run.stopped /\ run'.stopped = run.stopped
      BY <1>1, <1>3 DEF Ended, RunTerminal, Rows, Shapes, StoppedShape
    <2>2. /\ run'.done = run.done /\ DOMAIN steps' = DOMAIN steps /\ run'.kind = run.kind
          /\ run'.rev = run.rev /\ run'.approved = run.approved
          /\ \A i \in DOMAIN steps : /\ steps'[i].attempts = steps[i].attempts
                                     /\ steps'[i].input = steps[i].input
                                     /\ steps'[i].marker = steps[i].marker
      BY <1>1, <1>3 DEF SameRun, SameSteps, Revised
    <2>3. \A i \in DOMAIN steps :
             \/ steps'[i].status = "completed" /\ steps[i].status = "completed"
             \/ steps'[i].status \in {"pending", "skipped"} /\ steps[i].status # "completed"
      BY <1>1, <1>3, <2>1 DEF Shapes, StepsShape, NoneRuns, At
    <2>4. Shapes'
      BY <1>3, <2>1, <2>2, <2>3 DEF Shapes, StepsShape, StoppedShape, ChainShape
    <2>5. QED
      BY <1>3, <2>1, <2>2, <2>4 DEF Onwards, SameAttempts
  <1>4. QED
    BY <1>1, <1>2, <1>3

\* The latest contribution of a chain is that of the step before.
LEMMA LatestOne ==
    ASSUME NEW n \in Nat \ {0} PROVE Latest(1 .. n, 1) = {n}
  <1>1. SUFFICES ASSUME NEW j \in 1 .. n
                 PROVE  Cardinality({k \in 1 .. n : k > j}) < 1 <=> j = n
    BY DEF Latest
  <1> DEFINE S == {k \in 1 .. n : k > j}
  <1>2. IsFiniteSet(S)
    <2>1. IsFiniteSet(1 .. n) /\ S \subseteq 1 .. n
      BY FS_Interval
    <2>2. QED
      BY <2>1, FS_Subset
  <1>3. Cardinality(S) \in Nat /\ (Cardinality(S) = 0 <=> S = {})
    BY <1>2, FS_CardinalityType, FS_EmptySet
  <1>4. S = {} <=> j = n
    <2>1. j # n => n \in S
      OBVIOUS
    <2>2. j = n => S = {}
      OBVIOUS
    <2>3. QED
      BY <2>1, <2>2
  <1>5. QED
    BY <1>3, <1>4

LEMMA ChainInput ==
    ASSUME NEW p, NEW i, run.kind = "chain", i # 1, run.done \in Nat, i = run.done + 1,
           work[p].done = 1 .. run.done
    PROVE  Input(p, i) = {i - 1}
  <1>1. run.done \in Nat \ {0} /\ i - 1 = run.done
    OBVIOUS
  <1>2. Earlier(p, i) = 1 .. run.done
    BY <1>1 DEF Earlier
  <1>3. Input(p, i) = Latest(1 .. run.done, 1)
    BY <1>2 DEF Input
  <1>4. QED
    BY <1>1, <1>3, LatestOne

-----------------------------------------------------------------------------
(* One process: the steps of its worker. *)

LEMMA WorkerExists ==
    ASSUME NEW p \in Procs, RefInv, WorkerActs(p)
    PROVE  /\ Rows /\ DOMAIN jobs \subseteq Nat \ {0}
           /\ pc \in [Threads -> Pc] /\ p \in Threads /\ work \in [Procs -> Work]
           /\ pc[p] # "poll" => work[p].job \in DOMAIN jobs /\ work[p].job # NoJob
           /\ pc[p] = "poll" => Claim(p)
           /\ pc[p] \in ChosenPc => work[p].step \in DOMAIN steps
  <1>1. /\ Busy(p) <=> work[p].job # NoJob
        /\ work[p].job # NoJob => work[p].job \in DOMAIN jobs
        /\ pc[p] \in ChosenPc => work[p].step \in DOMAIN steps
    BY DEF RefInv, ThreadsFit, WorkFits
  <1>2. pc[p] # "down"
    BY WorkerMoves DEF RefInv, ThreadsFit
  <1>3. pc[p] = "poll" => Claim(p)
    BY <1>1
       DEF WorkerActs, WorkerStep, WorkerFault, Check, ClaimRun, AskWait, Approve, Prepare, Reread,
           ListSteps, Pick, Deadlock, Start, Progress, Execute, StepFails, Commit, Complete, Stop,
           Settle, Busy
  <1>4. DOMAIN jobs # {}
    BY <1>1, <1>2, <1>3 DEF Claim, Busy
  <1>5. Rows
    BY <1>4, RowsAre DEF RefInv, RunFits
  <1>6. /\ pc \in [Threads -> Pc] /\ p \in Threads /\ work \in [Procs -> Work]
        /\ DOMAIN jobs \subseteq Nat \ {0}
    BY DEF RefInv, TypeOK, Threads
  <1>7. QED
    BY <1>1, <1>2, <1>3, <1>5, <1>6 DEF Busy

\* What a step of the worker leaves of the run.
LEMMA WorkerMove ==
    ASSUME NEW p \in Procs, RefInv, Shapes, Placed(p), WorkerActs(p)
    PROVE  /\ Shapes' /\ Onwards
           /\ \/ run'.done = run.done
              \/ Commit(p) /\ run'.done = work[p].step /\ work[p].step = run.done + 1
           /\ \/ SameAttempts
              \/ /\ Start(p) /\ Starts(work[p].step)
                 /\ steps'[work[p].step].attempts = steps[work[p].step].attempts + 1
                 /\ \A j \in DOMAIN steps \ {work[p].step} :
                       steps'[j].attempts = steps[j].attempts
           /\ run'.approved = run.approved \/ Approve(p)
  <1> DEFINE Out == /\ Shapes' /\ Onwards
                    /\ \/ run'.done = run.done
                       \/ Commit(p) /\ run'.done = work[p].step /\ work[p].step = run.done + 1
                    /\ \/ SameAttempts
                       \/ /\ Start(p) /\ Starts(work[p].step)
                          /\ steps'[work[p].step].attempts = steps[work[p].step].attempts + 1
                          /\ \A j \in DOMAIN steps \ {work[p].step} :
                                steps'[j].attempts = steps[j].attempts
                    /\ run'.approved = run.approved \/ Approve(p)
  <1>0. /\ Rows /\ DOMAIN jobs \subseteq Nat /\ work[p] \in Work
        /\ pc[p] \in ChosenPc => work[p].step \in DOMAIN steps
    BY WorkerExists
  <1>1. ASSUME Shapes', Steady, run'.rev = run.rev PROVE Out
    <2>1. SameAttempts
      BY <1>0, <1>1, RowsTyped DEF Steady, SameAttempts, Rows, Run
    <2>2. Onwards
      BY <1>1 DEF Steady, Onwards
    <2>3. QED
      BY <1>1, <2>1, <2>2 DEF Steady
  <1>2. CASE UNCHANGED <<run, steps>>
    BY <1>0, <1>1, <1>2, UntouchedShape
  <1>3. CASE LinkMove
    <2>1. PICK v \in DOMAIN jobs : ClaimJob(v) \/ MarkWaiting(v)
      BY <1>3 DEF LinkMove
    <2>2. run'.rev = run.rev
      BY <1>0, <2>1, Linking DEF Rows, SameRun, Revised
    <2>3. QED
      BY <1>0, <1>1, <1>3, <2>2, LinkShape
  <1>4. CASE Cancel
    BY <1>0, <1>1, <1>4, CancelShape, Cancelling DEF Rows, SameRun, Revised
  <1>5. CASE MarkFailed
    BY <1>0, <1>1, <1>5, FailedShape, MarkingFailed DEF Rows, SameRun, Revised
  <1>6. CASE Approve(p)
    <2>1. work[p].job \in Nat /\ MarkApproved(work[p].job) /\ UNCHANGED steps
      BY <1>0, <1>6 DEF Approve, Work
    <2>2. Shapes' /\ Onwards /\ SameAttempts /\ run'.done = run.done
      BY <1>0, <2>1, ApproveShape
    <2>3. QED
      BY <1>6, <2>2
  <1>7. CASE Prepare(p)
    <2>1. Owns(work[p].job) \/ NoneRuns
      BY <1>7 DEF Placed, Prepare, EarlyPc
    <2>2. QED
      BY <1>0, <1>7, <2>1, PrepareShape DEF Prepare
  <1>8. CASE Start(p)
    <2> DEFINE i == work[p].step
    <2>1. /\ i \in DOMAIN steps /\ i = run.done + 1 /\ NoneRuns /\ work[p].done = 1 .. run.done
          /\ run.done \in Nat
      BY <1>0, <1>8, RowsTyped DEF Placed, Start, ChosenPc, LoopPc, ListedPc
    <2>2. Input(p, i) \in SUBSET Nat /\ (run.kind = "chain" /\ i # 1 => Input(p, i) = {i - 1})
      BY <1>0, <2>1, InputTyped, ChainInput
    <2>3. StartStep(i, Input(p, i))
      BY <1>8 DEF Start
    <2>4. /\ Shapes' /\ Onwards
          /\ run'.done = run.done /\ run'.approved = run.approved
          /\ \A j \in DOMAIN steps \ {i} : steps'[j].attempts = steps[j].attempts
          /\ \/ Starts(i) /\ ~Ended' /\ steps'[i].attempts = steps[i].attempts + 1
             \/ ~Starts(i) /\ steps'[i].attempts = steps[i].attempts
      BY <1>0, <2>1, <2>2, <2>3, StartShape
    <2>5. QED
      BY <1>8, <2>4 DEF SameAttempts
  <1>9. CASE StepFails(p)
    <2>1. work[p].step = run.done + 1 /\ run.status # "completed" /\ FailStep(work[p].step)
      BY <1>9 DEF Placed, StepFails, ChosenPc, TryPc
    <2>2. QED
      BY <1>0, <2>1, FailsShape
  <1>10. CASE Commit(p)
    <2>1. PICK marker \in BOOLEAN : CompleteStep(work[p].step, marker)
      BY <1>10 DEF Commit
    <2>2. CASE steps[work[p].step].status # "running"
      BY <1>2, <2>1, <2>2 DEF CompleteStep, Same
    <2>3. CASE steps[work[p].step].status = "running"
      <3>1. work[p].step \in DOMAIN steps
        BY <1>0, <1>10 DEF Commit, ChosenPc
      <3>2. /\ Shapes' /\ Onwards /\ SameAttempts /\ run'.approved = run.approved
            /\ run'.done = work[p].step /\ work[p].step = run.done + 1
        BY <1>0, <2>1, <2>3, <3>1, CommitShape
      <3>3. QED
        BY <1>10, <3>2
    <2>4. QED
      BY <2>2, <2>3
  <1>11. CASE Complete(p)
    <2>1. NoneRuns /\ Result(p) \in SUBSET Nat
      BY <1>0, <1>11, InputTyped DEF Placed, Complete, LoopPc
    <2>2. PICK skip \in BOOLEAN : CompleteRun(Result(p), skip)
      BY <1>11 DEF Complete
    <2>3. QED
      BY <1>0, <2>1, <2>2, FinishShape
  <1>12. QED
    BY <1>2, <1>3, <1>4, <1>5, <1>6, <1>7, <1>8, <1>9, <1>10, <1>11, WorkerTables

\* The step after the COMPLETED ones does not wait for another one.
LEMMA ReadyNext ==
    ASSUME Rows, StepsShape PROVE Ready(run.done + 1)
  <1>1. run.done \in Nat
    BY RowsTyped
  <1>2. PICK k : k = run.done + 1 /\ k - 1 = run.done
    BY <1>1
  <1>3. DependsOn(k) \in {0, k - 1}
    BY DEF DependsOn
  <1>4. run.done # 0 => run.done \in At("completed")
    BY <1>1, CompletedAre
  <1>5. Ready(k)
    BY <1>2, <1>3, <1>4 DEF Ready
  <1>6. QED
    BY <1>2, <1>5

LEMMA WorkerPlaced ==
    ASSUME NEW p \in Procs, RefInv, RefInv', Shapes, Shapes', Placed(p), WorkerActs(p)
    PROVE  Placed(p)'
  <1>0. /\ Rows /\ DOMAIN jobs \subseteq Nat \ {0}
        /\ pc \in [Threads -> Pc] /\ p \in Threads /\ work \in [Procs -> Work] /\ work[p] \in Work
        /\ pc[p] # "poll" => work[p].job \in DOMAIN jobs
        /\ pc[p] \in ChosenPc => work[p].step \in DOMAIN steps
    BY WorkerExists
  <1>1. ASSUME pc'[p] \in {"poll", "check0", "claimRun", "stop", "finish", "pause", "cancel", "fail"}
        PROVE  Placed(p)'
    BY <1>1 DEF Placed, EarlyPc, LoopPc, TryPc, ListedPc, ChosenPc
  <1>2. run.done \in Nat /\ DOMAIN steps \subseteq Nat \ {0}
    BY <1>0, RowsTyped
  <1>3. UNCHANGED <<run, steps>> => UNCHANGED <<NoneRuns, NoneLeft, Ended>>
    BY DEF NoneRuns, NoneLeft, Ended
  <1>4. ASSUME UNCHANGED <<run, steps, work>>, pc'[p] \notin {"check2", "pick", "completeTeam", "start", "reread"},
               \/ pc[p] \in EarlyPc /\ pc'[p] \in EarlyPc
               \/ pc[p] = "check2" /\ pc'[p] = "steps"
               \/ pc[p] = "pick" /\ pc'[p] \in {"deadlock", "completeRun"}
               \/ /\ pc[p] \in {"progress", "execute", "check3"}
                  /\ pc'[p] \in {"execute", "check3", "failStep", "commit"}
        PROVE  Placed(p)'
    <2>1. Owns(work[p].job)' = Owns(work[p].job)
      BY <1>4 DEF Owns, Ended
    <2>2. QED
      BY <1>3, <1>4, <2>1 DEF Placed, EarlyPc, LoopPc, TryPc, ListedPc, ChosenPc
  <1>5. CASE Claim(p) \/ AskWait(p) \/ Deadlock(p) \/ StepFails(p) \/ Complete(p) \/ Stop(p) \/ Settle(p)
    BY <1>0, <1>1, <1>5 DEF Claim, AskWait, Deadlock, StepFails, Complete, Stop, Settle, Goto
  <1>6. CASE Check(p)
    <2>1. /\ UNCHANGED <<run, steps, work>>
          /\ \/ pc'[p] \in {"claimRun", "cancel", "stop"}
             \/ pc[p] = "check1" /\ pc'[p] \in {"prepare", "approve", "askWait"}
             \/ pc[p] = "check2" /\ pc'[p] = "steps"
             \/ pc[p] = "check3" /\ pc'[p] = "commit"
      BY <1>0, <1>6 DEF Check, Goto, Onward, tables
    <2>2. QED
      BY <1>1, <1>4, <2>1 DEF EarlyPc
  <1>7. CASE ClaimRun(p)
    <2>1. CASE Claims(work[p].job)
      <3>1. run' = [run EXCEPT !.job = work[p].job] /\ pc'[p] = "check1"
        BY <1>0, <1>7, <2>1 DEF ClaimRun, ClaimJob, Goto
      <3>2. work'[p].job = work[p].job
        BY <1>0, <1>7 DEF ClaimRun, Remember, Work
      <3>3. run'.status # "completed"
        BY <1>0, <2>1, <3>1 DEF Claims, Ended, RunTerminal, Rows, Run
      <3>4. Owns(work[p].job)'
        BY <1>0, <2>1, <3>1, <3>2 DEF Owns, Claims, Ended, Rows, Run
      <3>5. QED
        BY <3>1, <3>3, <3>4 DEF Placed, EarlyPc, LoopPc, TryPc, ListedPc, ChosenPc
    <2>2. CASE ~Claims(work[p].job)
      BY <1>0, <1>1, <1>7, <2>2 DEF ClaimRun, Goto
    <2>3. QED
      BY <2>1, <2>2
  <1>8. CASE Approve(p)
    <2>1. /\ work[p].job \in Nat /\ MarkApproved(work[p].job) /\ UNCHANGED <<steps, work>>
          /\ pc'[p] = "prepare" /\ pc[p] = "approve"
      BY <1>0, <1>8 DEF Approve, Goto
    <2>2. /\ run'.status = "completed" => run.status = "completed"
          /\ \A u : Owns(u) => Owns(u)'
      BY <1>0, <2>1, ApproveShape
    <2>3. Owns(work[p].job) => Owns(work[p].job)'
      BY <2>1, <2>2 DEF Owns
    <2>4. NoneRuns => NoneRuns'
      BY <2>1 DEF NoneRuns
    <2>5. QED
      BY <2>1, <2>2, <2>3, <2>4 DEF Placed, EarlyPc, LoopPc, TryPc, ListedPc, ChosenPc
  <1>9. CASE Prepare(p)
    <2>1. /\ PrepareResume(work[p].job) /\ pc[p] = "prepare"
          /\ pc'[p] = IF Prepares(work[p].job) THEN "check2" ELSE "reread"
      BY <1>0, <1>9 DEF Prepare, Goto
    <2>2. /\ Owns(work[p].job) \/ NoneRuns
          /\ run.status # "completed"
      BY <2>1 DEF Placed, EarlyPc
    <2>3. /\ NoneRuns' /\ run'.status # "completed"
          /\ Prepares(work[p].job) => ~Ended'
      BY <1>0, <2>1, <2>2, PrepareShape
    <2>4. QED
      BY <2>1, <2>3 DEF Placed, EarlyPc, LoopPc, TryPc, ListedPc, ChosenPc
  <1>10. CASE Reread(p)
    <2>1. /\ UNCHANGED <<run, steps, work>> /\ pc[p] = "reread"
          /\ pc'[p] = IF run.status \in {"failed", "cancelled"} THEN "fail" ELSE "check2"
      BY <1>0, <1>10 DEF Reread, Goto, tables
    <2>2. pc'[p] = "check2" => ~Ended /\ NoneRuns /\ run.status # "completed"
      BY <2>1 DEF Placed, Ended, RunTerminal
    <2>3. QED
      BY <1>1, <1>3, <2>1, <2>2 DEF Placed, EarlyPc, LoopPc, TryPc, ListedPc, ChosenPc
  <1>11. CASE ListSteps(p)
    <2>1. /\ UNCHANGED <<run, steps>> /\ pc[p] \in {"steps", "team"}
          /\ pc'[p] = IF pc[p] = "steps" THEN "pick" ELSE "completeTeam"
          /\ work' = [work EXCEPT ![p] = [work[p] EXCEPT !.open = Unfinished # {},
                                                         !.done = At("completed")]]
      BY <1>0, <1>11 DEF ListSteps, Goto, tables, Remember
    <2>2. work'[p].done = 1 .. run.done
      <3>1. work'[p].done = At("completed")
        BY <1>0, <2>1 DEF Work
      <3>2. QED
        BY <1>0, <3>1, CompletedAre DEF Shapes
    <2>3. QED
      BY <1>3, <2>1, <2>2 DEF Placed, EarlyPc, LoopPc, TryPc, ListedPc, ChosenPc
  <1>12. CASE Pick(p)
    <2> DEFINE next == {i \in At("pending") : Ready(i)}
    <2>0. UNCHANGED <<run, steps>> /\ pc[p] = "pick"
      BY <1>12 DEF Pick, tables
    <2>1. CASE next = {}
      <3>1. UNCHANGED work /\ pc'[p] \in {"deadlock", "completeRun"}
        BY <1>0, <1>12, <2>1 DEF Pick, Goto
      <3>2. QED
        BY <1>4, <2>0, <3>1
    <2>2. CASE next # {}
      <3>1. /\ work' = [work EXCEPT ![p] = [work[p] EXCEPT !.step = MinOf(next)]]
            /\ pc'[p] \in {"fail", "start"}
        BY <1>0, <1>12, <2>2 DEF Pick, Goto, Remember
      <3>2. work'[p].step = MinOf(next) /\ work'[p].done = work[p].done
        BY <1>0, <3>1 DEF Work
      <3>3. ~Ended
        <4>1. ~NoneLeft
          BY <2>2 DEF NoneLeft, At
        <4>2. QED
          BY <2>0, <4>1 DEF Placed, LoopPc
      <3>4. \A i \in DOMAIN steps : steps[i].status = "pending" <=> i > run.done
        <4>1. \A i \in DOMAIN steps : \/ steps[i].status = "completed" /\ i <= run.done
                                      \/ steps[i].status = "pending" /\ ~(i <= run.done)
          BY <1>0, <2>0, <3>3 DEF Placed, LoopPc, NoneRuns, Shapes, StepsShape, Rows
        <4>2. QED
          BY <1>2, <4>1
      <3>5. run.done + 1 \in next /\ next \subseteq Nat /\ \A j \in next : run.done + 1 <= j
        <4>1. \A j \in next : j \in DOMAIN steps /\ j > run.done
          BY <3>4 DEF At
        <4>2. PICK j \in next : TRUE
          BY <2>2
        <4>3. Len(steps) \in Nat /\ DOMAIN steps = 1 .. Len(steps)
          BY <1>0, RowsTyped
        <4>4. run.done + 1 \in DOMAIN steps
          BY <1>2, <4>1, <4>2, <4>3
        <4>5. run.done + 1 \in At("pending")
          BY <1>2, <3>4, <4>4 DEF At
        <4>6. Ready(run.done + 1)
          BY <1>0, ReadyNext DEF Shapes
        <4>7. QED
          BY <1>2, <4>1, <4>5, <4>6
      <3>6. MinOf(next) = run.done + 1
        BY <3>5, LeastIs
      <3>7. QED
        BY <1>1, <1>3, <2>0, <3>1, <3>2, <3>6 DEF Placed, EarlyPc, LoopPc, TryPc, ListedPc, ChosenPc
    <2>3. QED
      BY <2>1, <2>2
  <1>13. CASE Start(p)
    <2>1. /\ UNCHANGED work /\ pc[p] = "start"
          /\ pc'[p] = IF Starts(work[p].step) THEN "progress" ELSE "fail"
      BY <1>0, <1>13 DEF Start, Goto
    <2>2. work[p].step \in DOMAIN steps /\ Input(p, work[p].step) \in SUBSET Nat
      BY <1>0, <2>1, InputTyped DEF ChosenPc
    <2>3. /\ run'.done = run.done
          /\ Starts(work[p].step) => run'.status = "running"
      BY <1>0, <1>13, <2>2, Starting DEF Rows, Start, SameRun
    <2>4. QED
      BY <1>1, <2>1, <2>3 DEF Placed, EarlyPc, LoopPc, TryPc, ListedPc, ChosenPc
  <1>14. CASE Progress(p) \/ Execute(p)
    <2>1. /\ UNCHANGED <<run, steps, work>> /\ pc[p] \in {"progress", "execute"}
          /\ pc'[p] \in {"execute", "stop", "fail", "check3", "failStep"}
      BY <1>0, <1>14 DEF Progress, Execute, Goto, tables
    <2>2. QED
      BY <1>1, <1>4, <2>1
  <1>15. CASE Commit(p)
    <2>1. /\ UNCHANGED work /\ pc[p] = "commit" /\ work[p].step \in DOMAIN steps
      BY <1>0, <1>15 DEF Commit, ChosenPc
    <2>2. PICK marker \in BOOLEAN :
             /\ CompleteStep(work[p].step, marker)
             /\ pc'[p] = IF steps[work[p].step].status # "running" THEN "fail"
                         ELSE IF run.kind = "team" /\ marker THEN "team" ELSE "check2"
      BY <1>0, <1>15 DEF Commit, Goto
    <2>3. CASE steps[work[p].step].status # "running"
      BY <1>1, <2>2, <2>3
    <2>4. CASE steps[work[p].step].status = "running"
      <3>1. /\ NoneRuns' /\ ~Ended' /\ run'.done = work[p].step
            /\ steps'[work[p].step].status = "completed" /\ steps'[work[p].step].marker = marker
            /\ run' \in Run /\ Revised /\ DOMAIN steps' = DOMAIN steps
        BY <1>0, <2>1, <2>2, <2>4, CommitShape, Completing DEF Rows
      <3>2. run'.status # "completed" /\ run'.kind = run.kind
        BY <3>1 DEF Ended, RunTerminal, Revised
      <3>3. QED
        BY <2>1, <2>2, <2>4, <3>1, <3>2 DEF Placed, EarlyPc, LoopPc, TryPc, ListedPc, ChosenPc
    <2>5. QED
      BY <2>3, <2>4
  <1>16. CASE WorkerFault(p)
    <2>1. /\ UNCHANGED <<run, steps>>
          /\ \/ pc'[p] \in {"fail", "poll"}
             \/ pc[p] = "check3" /\ pc'[p] = "failStep" /\ UNCHANGED work
      BY <1>0, <1>16 DEF WorkerFault, Goto, tables
    <2>2. QED
      BY <1>1, <1>4, <2>1
  <1>17. QED
    BY <1>5, <1>6, <1>7, <1>8, <1>9, <1>10, <1>11, <1>12, <1>13, <1>14, <1>15, <1>16
       DEF WorkerActs, WorkerStep

-----------------------------------------------------------------------------
(* Counts: where a step of the worker takes it. *)

EndPc == {"poll", "finish", "stop", "cancel", "pause", "fail"}

AskedPc == {"prepare", "reread"} \cup LoopPc \cup TryPc

\* The agent is run for the worker's step.
Ran(p) ==
    LET x == <<work[p].job, work[p].step>> IN
    effects' = [y \in DOMAIN effects \cup {x} |->
                  (IF y \in DOMAIN effects THEN effects[y] ELSE 0)
                  + (IF y = x THEN 1 ELSE 0)]

Course(p) ==
    \/ Claim(p) /\ effects' = effects /\ pc'[p] = "check0"
    \/ effects' = effects /\ pc'[p] \in EndPc
    \/ pc[p] = "execute" /\ Ran(p) /\ pc'[p] \in {"check3", "failStep"} /\ work' = work
    \/ /\ effects' = effects /\ work'[p].job = work[p].job /\ pc[p] \in UntriedPc
       /\ pc'[p] # "progress"
       /\ pc'[p] = "execute" => pc[p] = "progress" /\ UNCHANGED <<run, steps, work>>
    \/ effects' = effects /\ work' = work /\ Start(p) /\ Starts(work[p].step)
    \/ effects' = effects /\ work' = work /\ pc[p] \in TryPc /\ pc'[p] \in {"failStep", "commit"}
    \/ effects' = effects /\ work' = work /\ Commit(p) /\ run'.done # run.done /\ pc'[p] \in LoopPc

LEMMA WorkerCourse ==
    ASSUME NEW p \in Procs, RefInv, WorkerActs(p)
    PROVE  Course(p)
  <1>0. /\ Rows /\ pc \in [Threads -> Pc] /\ p \in Threads /\ work \in [Procs -> Work]
        /\ work[p] \in Work
    BY WorkerExists
  <1>1. CASE Claim(p)
    BY <1>0, <1>1 DEF Claim, Goto, Course
  <1>2. CASE Check(p) \/ AskWait(p) \/ Approve(p) \/ Prepare(p) \/ Reread(p)
    BY <1>0, <1>2
       DEF Check, AskWait, Approve, Prepare, Reread, Goto, Onward, tables, Course, EndPc, UntriedPc,
           EarlyPc, LoopPc, TryPc
  <1>3. CASE ClaimRun(p)
    <2>1. work'[p].job = work[p].job
      BY <1>0, <1>3 DEF ClaimRun, Remember, Work
    <2>2. effects' = effects /\ pc[p] = "claimRun" /\ pc'[p] \in {"check1", "finish"}
      BY <1>0, <1>3 DEF ClaimRun, Goto
    <2>3. QED
      BY <2>1, <2>2 DEF Course, UntriedPc
  <1>4. CASE ListSteps(p)
    <2>1. work'[p].job = work[p].job
      BY <1>0, <1>4 DEF ListSteps, Remember, Work
    <2>2. effects' = effects /\ pc[p] \in {"steps", "team"} /\ pc'[p] \in {"pick", "completeTeam"}
      BY <1>0, <1>4 DEF ListSteps, Goto
    <2>3. QED
      BY <2>1, <2>2 DEF Course, UntriedPc, LoopPc
  <1>5. CASE Pick(p)
    <2>1. work'[p].job = work[p].job
      BY <1>0, <1>5 DEF Pick, Remember, Work
    <2>2. effects' = effects /\ pc[p] = "pick" /\ pc'[p] \in {"deadlock", "completeRun", "fail", "start"}
      BY <1>0, <1>5 DEF Pick, Goto
    <2>3. QED
      BY <2>1, <2>2 DEF Course, UntriedPc, LoopPc
  <1>6. CASE Deadlock(p) \/ StepFails(p) \/ Complete(p) \/ Stop(p) \/ Settle(p)
    BY <1>0, <1>6 DEF Deadlock, StepFails, Complete, Stop, Settle, Goto, Course, EndPc
  <1>7. CASE Start(p)
    BY <1>0, <1>7 DEF Start, Goto, Course, EndPc
  <1>8. CASE Progress(p)
    BY <1>0, <1>8 DEF Progress, Goto, tables, Course, EndPc, UntriedPc
  <1>9. CASE Execute(p)
    <2>1. /\ pc[p] = "execute" /\ work' = work
          /\ \/ Ran(p) /\ pc'[p] \in {"check3", "failStep"}
             \/ effects' = effects /\ pc'[p] = "failStep"
      BY <1>0, <1>9 DEF Execute, Goto, Ran
    <2>2. QED
      BY <2>1 DEF Course, TryPc
  <1>10. CASE Commit(p)
    <2>1. /\ effects' = effects /\ work' = work
          /\ pc'[p] = "fail" \/ (steps[work[p].step].status = "running" /\ pc'[p] \in {"team", "check2"})
      BY <1>0, <1>10 DEF Commit, Goto
    <2>2. ASSUME steps[work[p].step].status = "running" PROVE run'.done # run.done
      <3>1. run.done \in Nat /\ run \in Run
        BY <1>0, RowsTyped DEF Rows
      <3>2. run' = [run EXCEPT !.done = @ + 1]
        BY <1>10, <2>2 DEF Commit, CompleteStep
      <3>3. run'.done = run.done + 1
        BY <3>1, <3>2 DEF Run
      <3>4. QED
        BY <3>1, <3>3
    <2>3. QED
      BY <1>10, <2>1, <2>2 DEF Course, EndPc, LoopPc
  <1>11. CASE WorkerFault(p)
    <2>1. /\ effects' = effects
          /\ \/ pc'[p] \in {"fail", "poll"}
             \/ pc[p] = "check3" /\ pc'[p] = "failStep" /\ UNCHANGED work
      BY <1>0, <1>11 DEF WorkerFault, Goto
    <2>2. QED
      BY <2>1 DEF Course, EndPc, TryPc
  <1>12. QED
    BY <1>1, <1>2, <1>3, <1>4, <1>5, <1>6, <1>7, <1>8, <1>9, <1>10, <1>11
       DEF WorkerActs, WorkerStep

\* What the worker knows of approvals.
LEMMA WorkerKnows ==
    ASSUME NEW p \in Procs, RefInv, WorkerActs(p)
    PROVE  \/ Claim(p)
           \/ /\ work'[p].granted => work[p].granted
              /\ pc'[p] = "approve" => pc[p] = "check1" /\ work[p].granted /\ work' = work
              /\ pc'[p] = "check1" => (work'[p].ask <=> run.high /\ ~run.approved)
              /\ pc'[p] \in AskedPc =>
                    pc[p] \in AskedPc \/ pc[p] = "approve" \/ (pc[p] = "check1" /\ ~work[p].ask)
  <1> DEFINE Out == /\ work'[p].granted => work[p].granted
                    /\ pc'[p] = "approve" => pc[p] = "check1" /\ work[p].granted /\ work' = work
                    /\ pc'[p] = "check1" => (work'[p].ask <=> run.high /\ ~run.approved)
                    /\ pc'[p] \in AskedPc =>
                          pc[p] \in AskedPc \/ pc[p] = "approve" \/ (pc[p] = "check1" /\ ~work[p].ask)
  <1>0. /\ pc \in [Threads -> Pc] /\ p \in Threads /\ work \in [Procs -> Work]
        /\ work[p] \in Work /\ Rows
    BY WorkerExists
  <1>1. CASE Check(p)
    <2>1. work' = work
      BY <1>1 DEF Check
    <2>2. \/ pc'[p] \in {"claimRun", "askWait", "cancel", "stop"}
          \/ pc[p] = "check1" /\ ~work[p].ask /\ pc'[p] = "prepare"
          \/ pc[p] = "check1" /\ work[p].granted /\ pc'[p] = "approve"
          \/ pc[p] \in {"check2", "check3"} /\ pc'[p] \in {"steps", "commit"}
      BY <1>0, <1>1 DEF Check, Goto, Onward
    <2>3. Out
      BY <2>1, <2>2 DEF AskedPc, LoopPc, TryPc
    <2>4. QED
      BY <2>3
  <1>2. CASE ClaimRun(p)
    <2>1. work'[p].granted = work[p].granted /\ work'[p].ask = (run.high /\ ~run.approved)
      BY <1>0, <1>2 DEF ClaimRun, Remember, Work
    <2>2. pc'[p] \in {"check1", "finish"}
      BY <1>0, <1>2 DEF ClaimRun, Goto
    <2>3. Out
      BY <2>1, <2>2 DEF AskedPc, LoopPc, TryPc
    <2>4. QED
      BY <2>3
  <1>3. CASE AskWait(p) \/ Approve(p) \/ Prepare(p) \/ Reread(p)
    <2>1. Out
      BY <1>0, <1>3 DEF AskWait, Approve, Prepare, Reread, Goto, AskedPc, LoopPc, TryPc
    <2>2. QED
      BY <2>1
  <1>4. CASE ListSteps(p) \/ Pick(p)
    <2>1. work'[p].granted = work[p].granted
      BY <1>0, <1>4 DEF ListSteps, Pick, Remember, Work
    <2>2. /\ pc[p] \in {"steps", "team", "pick"}
          /\ pc'[p] \in {"pick", "completeTeam", "deadlock", "completeRun", "fail", "start"}
      BY <1>0, <1>4 DEF ListSteps, Pick, Goto
    <2>3. Out
      BY <2>1, <2>2 DEF AskedPc, LoopPc, TryPc
    <2>4. QED
      BY <2>3
  <1>5. CASE Deadlock(p) \/ Start(p) \/ Progress(p) \/ StepFails(p) \/ Commit(p) \/ Complete(p) \/ Stop(p)
    <2>1. Out
      BY <1>0, <1>5 DEF Deadlock, Start, Progress, StepFails, Commit, Complete, Stop, Goto, AskedPc, LoopPc, TryPc
    <2>2. QED
      BY <2>1
  <1>6. CASE Execute(p)
    <2>1. pc[p] = "execute" /\ work' = work /\ pc'[p] \in {"check3", "failStep"}
      BY <1>0, <1>6 DEF Execute, Goto
    <2>2. QED
      BY <2>1 DEF AskedPc, LoopPc, TryPc
  <1>7. CASE Settle(p)
    <2>1. pc'[p] = "poll" /\ work'[p] = Idle
      BY <1>0, <1>7 DEF Settle, Goto, Remember
    <2>2. QED
      BY <2>1 DEF AskedPc, LoopPc, TryPc, Idle
  <1>8. CASE WorkerFault(p)
    <2>1. \/ pc'[p] = "poll" /\ work'[p] = Idle
          \/ work' = work /\ pc'[p] = "fail"
          \/ work' = work /\ pc[p] = "check3" /\ pc'[p] = "failStep"
      BY <1>0, <1>8 DEF WorkerFault, Goto, Remember
    <2>2. QED
      BY <2>1 DEF AskedPc, LoopPc, TryPc, Idle
  <1>9. QED
    BY <1>1, <1>2, <1>3, <1>4, <1>5, <1>6, <1>7, <1>8 DEF WorkerActs, WorkerStep

\* What was executed, started and tried stays in step.
LEMMA WorkerCounts ==
    ASSUME NEW p \in Procs, OneInv, RefInv', WorkerActs(p), RunLasts, JobsGrow,
           Placed(p), Placed(p)'
    PROVE  EffectsFit' /\ AttemptsFit' /\ Unspent(p)' /\ Tried(p)'
  <1>0. /\ Rows /\ DOMAIN jobs \subseteq Nat \ {0}
        /\ pc \in [Threads -> Pc] /\ p \in Threads /\ work \in [Procs -> Work] /\ work[p] \in Work
        /\ pc[p] # "poll" => work[p].job \in DOMAIN jobs /\ work[p].job # NoJob
        /\ pc[p] = "poll" => Claim(p)
        /\ pc[p] \in ChosenPc => work[p].step \in DOMAIN steps
        /\ RefInv /\ Shapes /\ Placed(p) /\ StepsShape
    BY WorkerExists DEF OneInv, Shapes
  <1>1. /\ Shapes' /\ Onwards
        /\ \/ run'.done = run.done
           \/ Commit(p) /\ run'.done = work[p].step /\ work[p].step = run.done + 1
        /\ \/ SameAttempts
           \/ /\ Start(p) /\ Starts(work[p].step)
              /\ steps'[work[p].step].attempts = steps[work[p].step].attempts + 1
              /\ \A j \in DOMAIN steps \ {work[p].step} : steps'[j].attempts = steps[j].attempts
    BY <1>0, WorkerMove
  <1>2. /\ DOMAIN steps' = DOMAIN steps /\ DOMAIN jobs \subseteq DOMAIN jobs'
        /\ run'.rev = run.rev /\ run.rev \in Nat /\ Exists /\ Exists'
        /\ run.done \in Nat /\ run'.done \in Nat /\ DOMAIN steps \subseteq Nat \ {0}
        /\ StepsShape'
    <2>1. Exists /\ run.rev \in Nat /\ run.done \in Nat /\ DOMAIN steps \subseteq Nat \ {0}
      BY <1>0, RowsTyped DEF Rows
    <2>2. Exists' /\ DOMAIN steps' = DOMAIN steps /\ run' \in Run
      BY <2>1 DEF RunLasts, RefInv, TypeOK, Exists, NoRun
    <2>3. QED
      BY <1>1, <2>1, <2>2 DEF JobsGrow, Onwards, Run, Shapes
  \* A step that was COMPLETED remains so; a commit adds the worker's own.
  <1>3. \A i \in DOMAIN steps :
           /\ steps'[i].status # "completed" => steps[i].status # "completed"
           /\ Commit(p) /\ run'.done # run.done /\ steps'[i].status # "completed" => i # work[p].step
    <2>1. \A i \in DOMAIN steps : i <= run.done => i <= run'.done
      BY <1>1, <1>2
    <2>2. \A i \in DOMAIN steps : /\ steps[i].status = "completed" <=> i <= run.done
                                  /\ steps'[i].status = "completed" <=> i <= run'.done
      BY <1>0, <1>2 DEF StepsShape
    <2>3. Commit(p) /\ run'.done # run.done => work[p].step <= run'.done
      BY <1>1, <1>2
    <2>4. QED
      BY <2>1, <2>2, <2>3
  <1>4. /\ \A x : Count(x) \in Nat
        /\ \A v \in DOMAIN jobs : /\ jobs[v].starts \in Nat /\ jobs'[v].starts \in Nat
                                  /\ jobs[v].starts <= jobs'[v].starts
        /\ \A i \in DOMAIN steps : steps[i].attempts \in Nat /\ steps'[i].attempts \in Nat
    <2>1. /\ \A v \in DOMAIN jobs' : jobs'[v].starts \in Nat
          /\ \A i \in DOMAIN steps' : steps'[i].attempts \in Nat
      BY StepsSeq, RowNats DEF RefInv, TypeOK, Step, JobsPaid, Paid
    <2>2. QED
      BY <1>2, <2>1, CountsTyped DEF OneInv, JobsGrow
  <1>5. StepAttempts \in Nat
    BY OrchestrationAssumption
  \* What remains to be run for a job that is held.
  <1>6. ASSUME NEW v \in DOMAIN jobs, NEW i, Count(<<v, i>>)' = Count(<<v, i>>),
               Count(<<v, i>>) < jobs[v].starts
        PROVE  Count(<<v, i>>)' < jobs'[v].starts
    BY <1>4, <1>6
  <1>7. DOMAIN effects \subseteq Nat \X Nat /\ \A x \in DOMAIN effects : effects[x] \in Nat
    BY <1>0 DEF RefInv, TypeOK
  <1>8. /\ EffectsFit /\ AttemptsFit /\ Unspent(p) /\ Tried(p)
    BY DEF OneInv
  \* Attempts only grow, and are bounded.
  <1>9. \A i \in DOMAIN steps : /\ steps[i].attempts <= steps'[i].attempts
                                /\ steps'[i].attempts <= StepAttempts
    <2>1. SUFFICES ASSUME NEW i \in DOMAIN steps
                   PROVE  steps[i].attempts <= steps'[i].attempts /\ steps'[i].attempts <= StepAttempts
      OBVIOUS
    <2>2. steps[i].attempts <= StepAttempts
      BY <1>8 DEF AttemptsFit
    <2>3. \/ steps'[i].attempts = steps[i].attempts
          \/ steps'[i].attempts = steps[i].attempts + 1 /\ ~(steps[i].attempts >= StepAttempts)
      BY <1>1 DEF SameAttempts, Starts, Spent
    <2>4. steps[i].attempts \in Nat
      BY <1>4
    <2>5. QED
      BY <1>5, <2>2, <2>3, <2>4
  <1>10. ASSUME effects' = effects PROVE EffectsFit' /\ AttemptsFit' /\ \A x : Count(x)' = Count(x)
    <2>1. \A x : Count(x)' = Count(x)
      BY <1>10 DEF Count
    <2>2. EffectsFit'
      BY <1>2, <1>4, <1>7, <1>8, <1>10 DEF EffectsFit
    <2>3. ASSUME NEW i \in DOMAIN steps' PROVE Count(<<run.rev, i>>)' <= steps'[i].attempts
      <3>1. Count(<<run.rev, i>>)' = Count(<<run.rev, i>>) /\ i \in DOMAIN steps
        BY <1>2, <1>10 DEF Count
      <3>2. Count(<<run.rev, i>>) <= steps[i].attempts /\ steps[i].attempts <= steps'[i].attempts
        BY <1>8, <1>9, <3>1 DEF AttemptsFit
      <3>3. QED
        BY <1>4, <3>1, <3>2
    <2>4. AttemptsFit'
      BY <1>2, <1>9, <2>3 DEF AttemptsFit
    <2>5. QED
      BY <2>1, <2>2, <2>4
  <1>11. CASE Claim(p) /\ effects' = effects /\ pc'[p] = "check0"
    <2>1. Tried(p)'
      BY <1>11 DEF Tried
    <2>2. PICK v \in DOMAIN jobs : J!Claimable(jobs[v]) /\ Put(v, J!Claim(jobs[v]))
                                   /\ work'[p].job = v
      BY <1>0, <1>11, ZenonT(30) DEF Claim, Remember, Idle
    <2>3. jobs'[v].starts = jobs[v].starts + 1
      <3>1. jobs'[v] = J!Claim(jobs[v])
        BY <2>2 DEF Put
      <3>2. QED
        BY <1>0, <2>2, <3>1, RowClaimed DEF RefInv, JobsPaid
    <2>4. \A i : Count(<<v, i>>)' < jobs'[v].starts
      <3>1. \A i : Count(<<v, i>>) <= jobs[v].starts
        BY <1>4, <1>8 DEF Count, EffectsFit
      <3>2. QED
        BY <1>4, <1>10, <1>11, <2>3, <3>1
    <2>5. Unspent(p)'
      BY <2>2, <2>4 DEF Unspent
    <2>6. QED
      BY <1>10, <1>11, <2>1, <2>5
  <1>12. CASE effects' = effects /\ pc'[p] \in EndPc
    <2>1. Tried(p)' /\ Unspent(p)'
      BY <1>12 DEF Tried, Unspent, EndPc, UntriedPc, EarlyPc, LoopPc, TryPc
    <2>2. QED
      BY <1>10, <1>12, <2>1
  \* The worker keeps its job, and what it has left to run.
  <1>13. ASSUME effects' = effects, work'[p].job = work[p].job, pc[p] # "poll",
                \A i \in DOMAIN steps :
                   /\ steps'[i].status # "completed"
                   /\ pc'[p] \in UntriedPc \/ (pc'[p] \in TryPc /\ i # work'[p].step)
                   => pc[p] \in UntriedPc \/ (pc[p] \in TryPc /\ i # work[p].step)
         PROVE  Unspent(p)'
    <2>1. PICK v \in DOMAIN jobs : v = work[p].job
      BY <1>0, <1>13
    <2>2. SUFFICES ASSUME NEW i \in DOMAIN steps', steps'[i].status # "completed",
                          pc'[p] \in UntriedPc \/ (pc'[p] \in TryPc /\ i # work'[p].step)
                   PROVE  Count(<<v, i>>)' < jobs'[v].starts
      BY <1>13, <2>1 DEF Unspent
    <2>3. Count(<<v, i>>) < jobs[v].starts
      BY <1>0, <1>2, <1>3, <1>8, <1>13, <2>1, <2>2 DEF Unspent
    <2>4. Count(<<v, i>>)' = Count(<<v, i>>)
      BY <1>13 DEF Count
    <2>5. QED
      BY <1>6, <2>3, <2>4
  <1>14. CASE /\ effects' = effects /\ work'[p].job = work[p].job /\ pc[p] \in UntriedPc
              /\ pc'[p] # "progress"
              /\ pc'[p] = "execute" => pc[p] = "progress" /\ UNCHANGED <<run, steps, work>>
    <2>1. pc[p] # "poll"
      BY <1>14 DEF UntriedPc, EarlyPc, LoopPc
    <2>2. Unspent(p)'
      BY <1>13, <1>14, <2>1
    <2>3. Tried(p)'
      <3>1. CASE pc'[p] = "execute"
        BY <1>8, <1>14, <3>1 DEF Tried, Count
      <3>2. CASE pc'[p] # "execute"
        BY <1>14, <3>2 DEF Tried
      <3>3. QED
        BY <3>1, <3>2
    <2>4. QED
      BY <1>10, <1>14, <2>2, <2>3
  <1>15. CASE effects' = effects /\ work' = work /\ Start(p) /\ Starts(work[p].step)
    <2>1. pc[p] = "start" /\ work[p].step \in DOMAIN steps
      BY <1>0, <1>15 DEF Start, ChosenPc
    <2>2. Unspent(p)'
      BY <1>13, <1>15, <2>1 DEF UntriedPc, LoopPc
    <2>3. PICK i \in DOMAIN steps : i = work[p].step
      BY <2>1
    <2>4. steps'[i].attempts = steps[i].attempts + 1
      <3>1. run \in Run /\ steps \in Seq(Step) /\ Input(p, i) \in SUBSET Nat
        BY <1>0, InputTyped DEF Rows
      <3>2. StartStep(i, Input(p, i))
        BY <1>15, <2>3 DEF Start
      <3>3. Starts(i)
        BY <1>15, <2>3
      <3>4. QED
        BY <3>1, <3>2, <3>3, Starting
    <2>5. Count(<<run.rev, i>>)' < steps'[i].attempts
      <3>1. Count(<<run.rev, i>>) <= steps[i].attempts
        BY <1>8 DEF AttemptsFit
      <3>2. Count(<<run.rev, i>>)' = Count(<<run.rev, i>>)
        BY <1>2, <1>15 DEF Count
      <3>3. QED
        BY <1>4, <2>4, <3>1, <3>2
    <2>6. Tried(p)'
      BY <1>15, <2>3, <2>5 DEF Tried
    <2>7. QED
      BY <1>10, <1>15, <2>2, <2>6
  <1>16. CASE effects' = effects /\ work' = work /\ pc[p] \in TryPc /\ pc'[p] \in {"failStep", "commit"}
    <2>1. Tried(p)'
      BY <1>16 DEF Tried
    <2>2. pc[p] # "poll" /\ pc'[p] \notin UntriedPc
      BY <1>16 DEF TryPc, UntriedPc, EarlyPc, LoopPc
    <2>3. Unspent(p)'
      BY <1>13, <1>16, <2>2
    <2>4. QED
      BY <1>10, <1>16, <2>1, <2>3
  <1>17. CASE effects' = effects /\ work' = work /\ Commit(p) /\ run'.done # run.done /\ pc'[p] \in LoopPc
    <2>1. Tried(p)'
      BY <1>17 DEF Tried, LoopPc
    <2>2. pc[p] = "commit"
      BY <1>17 DEF Commit
    <2>3. Unspent(p)'
      BY <1>3, <1>13, <1>17, <2>2 DEF TryPc
    <2>4. QED
      BY <1>10, <1>17, <2>1, <2>3
  \* The agent was run.
  <1>18. CASE pc[p] = "execute" /\ Ran(p) /\ pc'[p] \in {"check3", "failStep"} /\ work' = work
    <2>1. PICK v \in DOMAIN jobs, n \in DOMAIN steps : v = work[p].job /\ n = work[p].step
      BY <1>0, <1>18 DEF ChosenPc
    <2>2. /\ DOMAIN effects' = DOMAIN effects \cup {<<v, n>>}
          /\ effects'[<<v, n>>] = Count(<<v, n>>) + 1
          /\ \A x \in DOMAIN effects \ {<<v, n>>} : effects'[x] = effects[x]
      <3>1. effects' = [y \in DOMAIN effects \cup {<<v, n>>} |->
                          (IF y \in DOMAIN effects THEN effects[y] ELSE 0)
                          + (IF y = <<v, n>> THEN 1 ELSE 0)]
        BY <1>18, <2>1 DEF Ran
      <3>2. \A x \in DOMAIN effects \ {<<v, n>>} : effects'[x] = effects[x] + 0
        BY <3>1
      <3>3. QED
        BY <1>7, <3>1, <3>2 DEF Count
    <2>3. /\ Count(<<v, n>>)' = Count(<<v, n>>) + 1
          /\ \A i : i # n => Count(<<v, i>>)' = Count(<<v, i>>)
          /\ \A u, i : u # v => Count(<<u, i>>)' = Count(<<u, i>>)
      <3>1. \A x : x # <<v, n>> => Count(x)' = Count(x)
        BY <2>2 DEF Count
      <3>2. QED
        BY <2>2, <3>1 DEF Count
    <2>4. Count(<<v, n>>) < jobs[v].starts
      <3>1. n = run.done + 1
        BY <1>0, <1>18, <2>1 DEF Placed, ChosenPc
      <3>2. ~(n <= run.done)
        BY <1>2, <3>1
      <3>3. steps[n].status # "completed"
        BY <1>0, <1>2, <3>2 DEF StepsShape
      <3>4. QED
        BY <1>0, <1>8, <1>18, <2>1, <3>3 DEF Unspent, UntriedPc
    <2>5. EffectsFit'
      <3>1. effects'[<<v, n>>] <= jobs'[v].starts
        BY <1>4, <2>2, <2>4
      <3>2. ASSUME NEW x \in DOMAIN effects \ {<<v, n>>}
            PROVE  x[1] \in DOMAIN jobs' /\ x[2] \in DOMAIN steps' /\ effects'[x] <= jobs'[x[1]].starts
        BY <1>2, <1>4, <1>7, <1>8, <2>2 DEF EffectsFit
      <3>3. QED
        BY <1>2, <2>2, <3>1, <3>2 DEF EffectsFit
    <2>6. AttemptsFit'
      <3>1. ASSUME NEW i \in DOMAIN steps PROVE Count(<<run.rev, i>>)' <= steps'[i].attempts
        <4>1. Count(<<run.rev, i>>) <= steps[i].attempts
          BY <1>8 DEF AttemptsFit
        <4>2. CASE i = n /\ v = run.rev
          <5>1. Count(<<run.rev, i>>) < steps[i].attempts
            BY <1>8, <1>18, <2>1, <4>2 DEF Tried
          <5>2. Count(<<run.rev, i>>)' = Count(<<run.rev, i>>) + 1
            BY <1>2, <2>3, <4>2
          <5>3. QED
            BY <1>4, <1>9, <5>1, <5>2
        <4>3. CASE ~(i = n /\ v = run.rev)
          <5>1. Count(<<run.rev, i>>)' = Count(<<run.rev, i>>)
            BY <1>2, <2>3, <4>3
          <5>2. QED
            BY <1>4, <1>9, <4>1, <5>1
        <4>4. QED
          BY <4>2, <4>3
      <3>2. QED
        BY <1>2, <1>9, <3>1 DEF AttemptsFit
    <2>7. Tried(p)'
      BY <1>18 DEF Tried
    <2>8. Unspent(p)'
      <3>1. ASSUME NEW i \in DOMAIN steps, steps'[i].status # "completed", i # n
            PROVE  Count(<<v, i>>)' < jobs'[v].starts
        <4>1. Count(<<v, i>>) < jobs[v].starts
          BY <1>0, <1>3, <1>8, <1>18, <2>1, <3>1 DEF Unspent, UntriedPc
        <4>2. QED
          BY <1>6, <2>3, <3>1, <4>1
      <3>2. pc'[p] \notin UntriedPc
        BY <1>18 DEF UntriedPc, EarlyPc, LoopPc
      <3>3. QED
        BY <1>2, <1>18, <2>1, <3>1, <3>2 DEF Unspent
    <2>9. QED
      BY <2>5, <2>6, <2>7, <2>8
  <1>19. QED
    BY <1>0, <1>11, <1>12, <1>14, <1>15, <1>16, <1>17, <1>18, WorkerCourse DEF Course

LEMMA WorkerAsked ==
    ASSUME NEW p \in Procs, OneInv, RefInv', WorkerActs(p), RunLasts, JobsGrow, Exists
    PROVE  ApprovalFits' /\ AskedFor(p)'
  <1>0. /\ ApprovalFits /\ AskedFor(p) /\ RefInv /\ Shapes /\ Placed(p)
        /\ pc \in [Threads -> Pc] /\ p \in Threads /\ work \in [Procs -> Work] /\ work[p] \in Work
    BY WorkerExists DEF OneInv
  <1>1. Asked => Asked'
    BY <1>0, AskedKept DEF RefInv
  <1>2. Exists' /\ run'.high = run.high
    BY DEF RunLasts
  <1>3. ASSUME pc[p] \in AskedPc \/ pc[p] = "approve" \/ (pc[p] = "check1" /\ ~work[p].ask), run.high
        PROVE  Asked
    BY <1>0, <1>3 DEF AskedFor, AskedPc
  <1>4. ApprovalFits'
    <2>1. run'.approved => Asked'
      <3>1. CASE run'.approved = run.approved
        BY <1>0, <1>1, <3>1 DEF ApprovalFits
      <3>2. CASE Approve(p)
        BY <1>0, <1>1, <3>2 DEF Approve, AskedFor
      <3>3. QED
        BY <1>0, <3>1, <3>2, WorkerMove
    <2>2. run'.high /\ DOMAIN effects' # {} => Asked'
      <3>1. CASE effects' = effects
        BY <1>0, <1>1, <1>2, <3>1 DEF ApprovalFits
      <3>2. CASE pc[p] = "execute"
        BY <1>1, <1>2, <1>3, <3>2 DEF AskedPc, TryPc
      <3>3. QED
        BY <1>0, <3>1, <3>2, WorkerCourse DEF Course
    <2>3. QED
      BY <2>1, <2>2 DEF ApprovalFits
  <1>5. CASE Claim(p)
    <2>1. PICK v \in DOMAIN jobs :
             /\ J!Claimable(jobs[v])
             /\ work'[p].granted = (jobs[v].approval = "granted") /\ pc'[p] = "check0"
      BY <1>0, <1>5 DEF Claim, Remember, Idle, Goto
    <2>2. work'[p].granted => Asked
      BY <1>0, <2>1 DEF RefInv, JobsPaid, Paid, Asked
    <2>3. AskedFor(p)'
      BY <1>1, <2>1, <2>2 DEF AskedFor, LoopPc, TryPc
    <2>4. QED
      BY <1>4, <2>3
  <1>6. CASE /\ work'[p].granted => work[p].granted
             /\ pc'[p] = "approve" => pc[p] = "check1" /\ work[p].granted /\ work' = work
             /\ pc'[p] = "check1" => (work'[p].ask <=> run.high /\ ~run.approved)
             /\ pc'[p] \in AskedPc =>
                   pc[p] \in AskedPc \/ pc[p] = "approve" \/ (pc[p] = "check1" /\ ~work[p].ask)
    <2>1. work'[p].granted => Asked'
      BY <1>0, <1>1, <1>6 DEF AskedFor
    <2>2. pc'[p] = "approve" => work'[p].granted
      BY <1>6
    <2>3. pc'[p] = "check1" /\ ~work'[p].ask /\ run'.high => Asked'
      BY <1>0, <1>1, <1>2, <1>6 DEF ApprovalFits
    <2>4. pc'[p] \in AskedPc /\ run'.high => Asked'
      BY <1>1, <1>2, <1>3, <1>6
    <2>5. AskedFor(p)'
      BY <2>1, <2>2, <2>3, <2>4 DEF AskedFor, AskedPc
    <2>6. QED
      BY <1>4, <2>5
  <1>7. QED
    BY <1>0, <1>5, <1>6, WorkerKnows

-----------------------------------------------------------------------------
(* One process: the invariant, and what follows. *)

LEMMA OneInit ==
    ASSUME Init, RefInv PROVE OneInv
  <1>1. ~Exists /\ steps = << >> /\ DOMAIN effects = {}
    BY DEF Init, Exists, NoRun
  <1>2. Shapes
    BY <1>1 DEF Shapes, StepsShape, StoppedShape, ChainShape
  <1>3. EffectsFit /\ AttemptsFit /\ ApprovalFits
    BY <1>1 DEF EffectsFit, AttemptsFit, ApprovalFits
  <1>4. ASSUME NEW p \in Procs PROVE Placed(p) /\ Unspent(p) /\ Tried(p) /\ AskedFor(p)
    <2>1. pc[p] = "down" /\ work[p] = Idle
      BY DEF Init, Threads
    <2>2. QED
      BY <1>1, <2>1
         DEF Placed, Unspent, Tried, AskedFor, UntriedPc, EarlyPc, LoopPc, TryPc, ListedPc, ChosenPc, Idle
  <1>5. QED
    BY <1>2, <1>3, <1>4 DEF OneInv

LEMMA OneStep ==
    ASSUME NEW p, Procs = {p}, OneInv, [Next]_vars PROVE OneInv'
  <1>0. /\ RefInv /\ RefInv' /\ RunLasts /\ JobsGrow /\ p \in Procs
        /\ Shapes /\ Placed(p)
    BY RefStep, RunStep, JobsStep DEF OneInv
  <1>1. CASE WorkerActs(p)
    <2>1. Exists /\ Shapes'
      BY <1>0, <1>1, WorkerExists, WorkerMove DEF Rows
    <2>2. Placed(p)'
      BY <1>0, <1>1, <2>1, WorkerPlaced
    <2>3. EffectsFit' /\ AttemptsFit' /\ Unspent(p)' /\ Tried(p)'
      BY <1>0, <1>1, <2>2, WorkerCounts
    <2>4. ApprovalFits' /\ AskedFor(p)'
      BY <1>0, <1>1, <2>1, WorkerAsked
    <2>5. QED
      BY <1>0, <2>1, <2>2, <2>3, <2>4 DEF OneInv
  <1>2. CASE Aside(p) /\ Exists
    <2>1. Shapes' /\ Steady
      BY <1>0, <1>2, AsideShape
    <2>2. Placed(p)'
      BY <1>0, <1>2, <2>1, AsidePlaced
    <2>3. EffectsFit' /\ AttemptsFit' /\ Unspent(p)' /\ Tried(p)'
      BY <1>0, <1>2, <2>1, AsideCounts
    <2>4. ApprovalFits' /\ AskedFor(p)'
      BY <1>0, <1>2, <2>1, AsideAsked
    <2>5. QED
      BY <1>0, <2>1, <2>2, <2>3, <2>4 DEF OneInv
  <1>3. CASE Aside(p) /\ ~Exists
    <2>1. Shapes' /\ (UNCHANGED run \/ CreateMove)
      BY <1>0, <1>3, AsideShape
    <2>2. QED
      BY <1>0, <1>3, <2>1, AsideFirst
  <1>4. QED
    BY <1>0, <1>1, <1>2, <1>3, AsideStep

\* One process executes the run: its service is started once at a time.
OneProcess == \E p : Procs = {p}

LEMMA OneAlways ==
    ASSUME OneProcess PROVE Spec => []OneInv
  <1>1. Init => OneInv
    BY RefInit, OneInit
  <1>2. OneInv /\ [Next]_vars => OneInv'
    BY OneStep DEF OneProcess
  <1>3. QED
    BY <1>1, <1>2, PTL DEF Spec

\* ARCHITECTURE.md: an interrupted step is not tried again without approval,
\* and not more often than it has attempts; and the agents of a run that
\* needs approval wait for it.  With one process, whoever crashes, cancels,
\* resumes or repeats its calls, the agent is run for a step once per start of
\* its job, a job is started again only when it was approved, and the worker
\* comes to the first step of a run that needs approval only with one.
THEOREM ApprovalFirst ==
    ASSUME OneProcess PROVE Spec => []ApprovedFirst
  <1>1. OneInv => ApprovedFirst
    <2>1. SUFFICES ASSUME OneInv PROVE ApprovedFirst
      OBVIOUS
    <2>2. /\ RefInv /\ EffectsFit /\ AttemptsFit /\ ApprovalFits
          /\ DOMAIN effects \subseteq Nat \X Nat /\ \A x \in DOMAIN effects : effects[x] \in Nat
      BY <2>1 DEF OneInv, RefInv, TypeOK
    <2>3. HighRunsApproved
      BY <2>2 DEF HighRunsApproved, ApprovalFits, Asked
    <2>4. ASSUME NEW x \in DOMAIN effects
          PROVE  /\ effects[x] <= 1 + jobs[x[1]].grants
                 /\ x[1] = run.rev => effects[x] <= StepAttempts
      <3>1. PICK v \in DOMAIN jobs, i \in DOMAIN steps : x = <<v, i>>
        BY <2>2 DEF EffectsFit
      <3>2. /\ effects[x] \in Nat /\ jobs[v].starts \in Nat /\ jobs[v].grants \in Nat
            /\ steps[i].attempts \in Nat /\ StepAttempts \in Nat
        BY <2>2, CountsTyped, OrchestrationAssumption
      <3>3. effects[x] <= jobs[v].starts /\ jobs[v].starts <= jobs[v].grants + 1
        BY <2>2, <3>1 DEF EffectsFit, RefInv, JobsPaid, Paid
      <3>4. v = run.rev => effects[x] <= steps[i].attempts
        BY <2>2, <3>1 DEF AttemptsFit, Count
      <3>5. steps[i].attempts <= StepAttempts
        BY <2>2 DEF AttemptsFit
      <3>6. effects[x] <= 1 + jobs[v].grants /\ (v = run.rev => effects[x] <= StepAttempts)
        BY <3>2, <3>3, <3>4, <3>5
      <3>7. QED
        BY <3>1, <3>6
    <2>5. QED
      BY <2>3, <2>4 DEF ApprovedFirst, RepeatNeedsApproval
  <1>2. QED
    BY <1>1, OneAlways, PTL

LEMMA EndsKept ==
    ASSUME NEW p, Procs = {p}, OneInv, [Next]_vars
    PROVE  /\ At("completed") \subseteq At("completed")'
           /\ run.status = "completed" => run'.status = "completed"
           /\ Exists /\ run.stopped => run'.stopped /\ run'.status \in {"cancelled", "failed"}
  <1>0. /\ RefInv /\ RefInv' /\ RunLasts /\ p \in Procs /\ Shapes /\ Placed(p)
    BY RefStep, RunStep DEF OneInv
  <1>1. CASE ~Exists
    <2>1. DOMAIN steps = {}
      BY <1>0, <1>1 DEF RefInv, RunFits
    <2>2. QED
      BY <1>1, <2>1 DEF At, Exists
  <1>2. CASE Exists
    <2>1. /\ Shapes'
          /\ run.stopped => run'.stopped
          /\ run.status = "completed" => run'.status = "completed"
          /\ run'.done = run.done \/ (run.done \in Nat /\ run'.done = run.done + 1)
      <3>1. CASE WorkerActs(p)
        <4>1. run.done \in Nat
          BY <1>0, <1>2, RowsAre, RowsTyped
        <4>2. QED
          BY <1>0, <3>1, <4>1, WorkerMove DEF Onwards
      <3>2. CASE Aside(p)
        BY <1>0, <1>2, <3>2, AsideShape DEF Steady
      <3>3. QED
        BY <1>0, <3>1, <3>2, AsideStep
    <2>2. Exists' /\ DOMAIN steps' = DOMAIN steps
      BY <1>0, <1>2 DEF RunLasts
    <2>3. run.done \in Nat /\ DOMAIN steps \subseteq Nat
      BY <1>0, <1>2, RowsAre, RowsTyped
    <2>4. \A i \in DOMAIN steps : i <= run.done => i <= run'.done
      BY <2>1, <2>3
    <2>5. \A i \in DOMAIN steps : steps[i].status = "completed" => steps'[i].status = "completed"
      BY <1>0, <1>2, <2>1, <2>2, <2>4 DEF Shapes, StepsShape
    <2>6. At("completed") \subseteq At("completed")'
      BY <2>2, <2>5 DEF At
    <2>7. run.stopped => run'.stopped /\ run'.status \in {"cancelled", "failed"}
      BY <2>1, <2>2 DEF Shapes, StoppedShape
    <2>8. QED
      BY <2>1, <2>6, <2>7
  <1>3. QED
    BY <1>1, <1>2

\* docs/usage.md: what is COMPLETED stays so, and what was cancelled is not
\* executed again.  With one process, no crash, late answer, repeated call or
\* resume takes a COMPLETED step or run back, because every transaction keeps
\* the COMPLETED steps a prefix that only grows.
THEOREM EndsAreKept ==
    ASSUME OneProcess PROVE Spec => EndedIsKept
  <1>1. OneInv /\ [Next]_vars =>
          [/\ At("completed") \subseteq At("completed")'
           /\ run.status = "completed" => run'.status = "completed"
           /\ Exists /\ run.stopped =>
                 run'.stopped /\ run'.status \in {"cancelled", "failed"}]_vars
    BY EndsKept DEF OneProcess
  <1>2. QED
    BY <1>1, OneAlways, PTL DEF EndedIsKept, Spec


-----------------------------------------------------------------------------
(* Without repeated create_run calls: the callers. *)

LEMMA CalmTyped ==
    ASSUME NEW p, Procs = {p}, RefInv
    PROVE  /\ p \in Procs /\ p \in Threads /\ Callers \subseteq Threads /\ p \notin Callers
           /\ Main[p] \in Callers /\ \A t \in Callers : Home[t] = p /\ HomeOf(t) = p
           /\ pc \in [Threads -> Pc] /\ seen \in [Callers -> Copy \cup {NoCopy}]
           /\ work \in [Procs -> Work] /\ work[p] \in Work
           /\ phase[p] \in {"down", "starting", "serving", "running", "closing"}
           /\ DOMAIN phase = Procs
           /\ \A t \in Callers : pc[t] \in Calling \cup {"look"} => Exists /\ seen[t] \in Copy
           /\ phase[p] \in {"down", "starting"} => pc[p] = "down"
           /\ pc[p] = "down" => work[p].job = NoJob
  <1>1. /\ p \in Procs /\ Procs \cap Callers = {} /\ Home \in [Callers -> Procs]
        /\ Main \in [Procs -> Callers]
    BY OrchestrationAssumption
  <1>2. \A t \in Callers : Home[t] = p /\ HomeOf(t) = p
    BY <1>1 DEF HomeOf
  <1>3. QED
    BY <1>1, <1>2 DEF RefInv, TypeOK, Threads, CopiesFit, ThreadsFit, Busy

\* Nothing but a resume, or fail_step, changes a run that has ended.
LEMMA EndedKept ==
    ASSUME Rows, Ended,
           \/ UNCHANGED <<run, steps>>
           \/ LinkMove \/ Cancel \/ MarkFailed
           \/ \E p \in Procs : \/ Approve(p) \/ Prepare(p) \/ Start(p)
                               \/ (Commit(p) /\ steps[work[p].step].status # "running") \/ Complete(p)
    PROVE  UNCHANGED <<run, steps>>
  <1>1. ASSUME NEW p \in Procs, Approve(p) PROVE UNCHANGED <<run, steps>>
    BY <1>1 DEF Approve, MarkApproved, Owns
  <1>2. ASSUME NEW p \in Procs, Prepare(p) PROVE UNCHANGED <<run, steps>>
    BY <1>2 DEF Prepare, PrepareResume, Owns, Same
  <1>3. ASSUME NEW p \in Procs, Start(p) PROVE UNCHANGED <<run, steps>>
    BY <1>3 DEF Start, StartStep, Starts, Same
  <1>4. ASSUME NEW p \in Procs, Commit(p), steps[work[p].step].status # "running"
        PROVE  UNCHANGED <<run, steps>>
    BY <1>4 DEF Commit, CompleteStep, Same
  <1>5. ASSUME NEW p \in Procs, Complete(p) PROVE UNCHANGED <<run, steps>>
    BY <1>5 DEF Complete, CompleteRun, Same
  <1>6. CASE LinkMove
    BY <1>6 DEF LinkMove, ClaimJob, MarkWaiting, Claims
  <1>7. CASE Cancel \/ MarkFailed
    BY <1>7 DEF Cancel, MarkFailed, Same
  <1>8. QED
    BY <1>1, <1>2, <1>3, <1>4, <1>5, <1>6, <1>7

\* A worker's step does not begin a run again.
LEMMA EndedStays ==
    ASSUME NEW p \in Procs, RefInv, Shapes, Ended, WorkerActs(p)
    PROVE  UNCHANGED <<run, steps>> \/ (StepFails(p) /\ Ended')
  <1>1. Rows
    BY WorkerExists
  <1>2. CASE StepFails(p)
    <2>1. run'.status = "failed"
      BY <1>1, <1>2, Failing DEF StepFails, Rows
    <2>2. QED
      BY <1>2, <2>1 DEF Ended, RunTerminal
  <1>3. CASE Commit(p)
    <2>1. work[p].step \in DOMAIN steps
      BY <1>3, WorkerExists DEF Commit, ChosenPc
    <2>2. steps[work[p].step].status # "running"
      BY <1>1, <2>1 DEF Shapes, StepsShape, Rows
    <2>3. QED
      BY <1>1, <1>3, <2>2, EndedKept
  <1>4. QED
    BY <1>1, <1>2, <1>3, EndedKept, WorkerTables

\* What a caller does to the run when the service has not come up yet, and
\* when it has.
LEMMA CallerWrites ==
    ASSUME NEW p, Procs = {p}, NEW t \in Callers, CallerActs(t), RefInv, CallersFit(p),
           HoldsRunning(p)
    PROVE  /\ phase[p] \in {"starting", "serving", "running", "closing"}
           /\ \/ UNCHANGED <<run, steps>>
              \/ CreateMove /\ phase[p] \in {"running", "closing"}
              \/ LinkMove \/ (Exists /\ Cancel)
              \/ Exists /\ MarkFailed /\ phase[p] \in {"starting", "serving"}
                 /\ (pc[p] \notin WorkPc \/ Ended)
              \/ ResumeMove /\ phase[p] \in {"running", "closing"}
  <1>0. /\ pc[t] \in {"idle", "list", "look"} \cup Calling
        /\ phase[p] \in {"down", "starting", "serving", "running", "closing"}
        /\ pc[t] \in Calling => Exists
        /\ phase[p] \in {"starting", "down"} => pc[p] = "down"
        /\ work[p].job # NoJob <=> Busy(p)
    BY CallerMoves, CalmTyped DEF RefInv, ThreadsFit
  <1>1. /\ phase[p] # "down"
        /\ pc[t] = "idle" => phase[p] \in {"running", "closing"}
        /\ pc[t] = "markFailed" => phase[p] \in {"starting", "serving"}
    BY <1>0 DEF CallersFit, DownFit, BuildFit, ServeFit, Calling
  <1>2. CASE NoteFailed(t)
    <2>1. pc[t] = "markFailed" /\ MarkFailed
      BY <1>2 DEF NoteFailed
    <2>2. ASSUME pc[p] \in WorkPc, ~Ended PROVE FALSE
      <3>1. phase[p] = "serving" /\ Busy(p)
        BY <1>0, <1>1, <2>1, <2>2 DEF WorkPc, EarlyPc, LoopPc, TryPc, Busy
      <3>2. work[p].job = run.rev /\ jobs[run.rev].status \in J!Terminal
        BY <2>1, <2>2, <3>1 DEF CallersFit, BuildFit
      <3>3. jobs[work[p].job].status = "running"
        BY <1>0, <3>1 DEF HoldsRunning
      <3>4. QED
        BY <3>2, <3>3 DEF J!Terminal
    <2>3. QED
      BY <1>0, <1>1, <2>1, <2>2 DEF Calling
  <1>3. CASE ~NoteFailed(t) /\ (Create(t) \/ Resume(t) \/ CancelRun(t))
    <2>1. pc[t] = "idle"
      BY <1>3 DEF Create, Resume, CancelRun, IdleCaller
    <2>2. QED
      BY <1>0, <1>1, <1>3, <2>1 DEF Create, Resume, CancelRun, CreateMove, ResumeMove, Exists
  <1>4. CASE Link(t) \/ NoteWaiting(t)
    <2>1. Exists /\ seen[t].rev \in DOMAIN jobs
      BY <1>0, <1>4 DEF Link, NoteWaiting, RefInv, CopiesFit, LinkedPc, Calling
    <2>2. LinkMove
      BY <1>4, <2>1 DEF Link, NoteWaiting, LinkMove
    <2>3. QED
      BY <1>0, <1>1, <2>2
  <1>5. CASE Withdraw(t)
    BY <1>0, <1>1, <1>5 DEF Withdraw, Calling
  <1>6. QED
    BY <1>0, <1>1, <1>2, <1>3, <1>4, <1>5
       DEF CallerActs, CallerCalls, CreateAgain, Resolve, CancelJob, ResolveJob, ThreadStep,
           CallerStep, Enqueue, CancelItsJob, Answer, List, Look, EnqueueRefused, CallFault,
           CallerRaises, tables

\* What a step of a caller changes of the threads and of the set of jobs.
LEMMA CallerFrame ==
    ASSUME NEW p, Procs = {p}, NEW t \in Callers, CallerActs(t), RefInv
    PROVE  /\ \A u \in Callers \ {t} : pc'[u] = pc[u] /\ seen'[u] = seen[u]
           /\ pc'[p] = pc[p] /\ work' = work /\ phase' = phase /\ effects' = effects
           /\ \/ DOMAIN jobs' = DOMAIN jobs
              \/ pc[t] = "enqueue" /\ DOMAIN jobs' = DOMAIN jobs \cup {seen[t].rev}
  <1>1. /\ \A u \in Callers \ {t} : pc'[u] = pc[u] /\ seen'[u] = seen[u]
        /\ pc'[p] = pc[p] /\ work' = work /\ phase' = phase /\ effects' = effects
    BY CalmTyped, CallerMoves, CallerPcs
  <1>2. /\ pc[t] \in LinkedPc => seen[t].job \in DOMAIN jobs
        /\ DOMAIN jobs \subseteq DOMAIN jobs'
    BY JobsStep DEF RefInv, CopiesFit, CallerActs, Next, JobsGrow
  <1>3. CASE Enqueue(t)
    BY <1>1, <1>3 DEF Enqueue, Put
  <1>4. CASE CancelItsJob(t) \/ Answer(t)
    <2>1. seen[t].job \in DOMAIN jobs
      BY <1>2, <1>4 DEF CancelItsJob, Answer, LinkedPc
    <2>2. DOMAIN jobs' = DOMAIN jobs \cup {seen[t].job}
      BY <1>4, PutFacts, ZenonT(30) DEF CancelItsJob, Answer
    <2>3. DOMAIN jobs' = DOMAIN jobs
      BY <2>1, <2>2
    <2>4. QED
      BY <1>1, <2>3
  <1>5. CASE \E v \in DOMAIN jobs : CancelJob(t, v) \/ ResolveJob(t, v)
    <2>1. PICK v \in DOMAIN jobs : CancelJob(t, v) \/ ResolveJob(t, v)
      BY <1>5
    <2>2. DOMAIN jobs' = DOMAIN jobs \cup {v}
      BY <2>1, PutFacts DEF CancelJob, ResolveJob
    <2>3. DOMAIN jobs' = DOMAIN jobs
      BY <2>2
    <2>4. QED
      BY <1>1, <2>3
  <1>6. CASE UNCHANGED jobs
    BY <1>1, <1>6
  <1>7. QED
    BY <1>1, <1>3, <1>4, <1>5, <1>6
       DEF CallerActs, CallerCalls, Create, CreateAgain, CancelRun, Resolve, Resume, ThreadStep,
           CallerStep, Link, NoteWaiting, NoteFailed, Withdraw, List, Look, EnqueueRefused,
           CallFault, CallerRaises, tables

\* The constructor goes on with the revision there is.
LEMMA BuildTakes ==
    ASSUME NEW p, Procs = {p}, NEW t \in Callers, CallerActs(t), RefInv, CallersFit(p),
           phase[p] \in {"starting", "serving"}
    PROVE  /\ pc'[t] # "idle"
           /\ pc'[t] \in Calling \cup {"look"} => seen'[t].rev = run.rev
           /\ pc'[t] = "markFailed" =>
                 jobs' = jobs /\ run.rev \in DOMAIN jobs /\ jobs[run.rev].status \in J!Terminal
  <1>0. /\ pc[t] # "idle" /\ Home[t] = p /\ t \in Threads
        /\ pc[t] \in Calling \cup {"look"} => seen[t].rev = run.rev /\ seen[t] \in Copy
        /\ pc \in [Threads -> Pc] /\ seen \in [Callers -> Copy \cup {NoCopy}]
        /\ pc[t] \in LinkedPc => seen[t].job = seen[t].rev /\ seen[t].job \in DOMAIN jobs
    BY CalmTyped DEF CallersFit, BuildFit, RefInv, CopiesFit
  <1>1. ASSUME Done(t) PROVE pc'[t] \in {"recover", "ready"}
    BY <1>0, <1>1 DEF Done, Take, Goto, Return
  <1>2. ASSUME NEW label, NEW copy, Take(t, label, copy) PROVE pc'[t] = label /\ seen'[t] = copy
    BY <1>0, <1>2 DEF Take, Goto
  <1>3. CASE Enqueue(t)
    <2>1. seen[t].rev = run.rev /\ [seen[t] EXCEPT !.job = seen[t].rev].rev = run.rev
      BY <1>0, <1>3 DEF Enqueue, Calling, Copy
    <2>2. CASE seen[t].rev \in DOMAIN jobs
      <3>1. /\ jobs' = jobs
            /\ Take(t, IF jobs[run.rev].status \in J!Terminal THEN "markFailed" ELSE "link",
                    [seen[t] EXCEPT !.job = seen[t].rev])
        BY <1>3, <2>1, <2>2 DEF Enqueue
      <3>2. CASE jobs[run.rev].status \in J!Terminal
        <4>1. Take(t, "markFailed", [seen[t] EXCEPT !.job = seen[t].rev])
          BY <3>1, <3>2
        <4>2. pc'[t] = "markFailed" /\ seen'[t].rev = run.rev
          BY <1>2, <2>1, <4>1
        <4>3. QED
          BY <2>1, <2>2, <3>1, <3>2, <4>2
      <3>3. CASE jobs[run.rev].status \notin J!Terminal
        <4>1. Take(t, "link", [seen[t] EXCEPT !.job = seen[t].rev])
          BY <3>1, <3>3
        <4>2. pc'[t] = "link" /\ seen'[t].rev = run.rev
          BY <1>2, <2>1, <4>1
        <4>3. QED
          BY <4>2
      <3>4. QED
        BY <3>2, <3>3
    <2>3. CASE seen[t].rev \notin DOMAIN jobs
      <3>1. Take(t, "link", [seen[t] EXCEPT !.job = seen[t].rev])
        BY <1>3, <2>3 DEF Enqueue
      <3>2. QED
        BY <1>2, <2>1, <3>1, ZenonT(30)
    <2>4. QED
      BY <2>2, <2>3
  <1>4. CASE Link(t) \/ NoteWaiting(t) \/ NoteFailed(t) \/ Withdraw(t) \/ CancelItsJob(t)
    BY <1>1, <1>4 DEF Link, NoteWaiting, NoteFailed, Withdraw, CancelItsJob, Calling
  <1>5. CASE Answer(t)
    <2>1. Done(t) \/ Take(t, "withdraw", seen[t])
      BY <1>5 DEF Answer
    <2>2. seen[t].rev = run.rev
      BY <1>0, <1>5 DEF Answer, Calling
    <2>3. QED
      BY <1>1, <1>2, <2>1, <2>2 DEF Calling
  <1>6. CASE List(t)
    <2>1. Done(t) \/ Take(t, "enqueue", CopyOf(run)) \/ Take(t, "look", CopyOf(run))
      BY <1>6 DEF List
    <2>2. CopyOf(run).rev = run.rev
      BY DEF CopyOf
    <2>3. QED
      BY <1>1, <1>2, <2>1, <2>2 DEF Calling
  <1>7. CASE Look(t)
    <2>1. pc[t] = "look" /\ jobs' = jobs /\ seen[t].job = run.rev /\ run.rev \in DOMAIN jobs
          /\ seen[t].rev = run.rev
      BY <1>0, <1>7 DEF Look, LinkedPc, tables
    <2>2. \/ Done(t) \/ Take(t, "markWaiting", seen[t]) \/ Take(t, "withdraw", seen[t])
          \/ Take(t, "markFailed", seen[t]) /\ jobs[run.rev].status \in {"failed", "succeeded"}
      BY <1>7, <2>1 DEF Look
    <2>3. QED
      BY <1>1, <1>2, <2>1, <2>2 DEF Calling, J!Terminal
  <1>8. QED
    BY <1>0, <1>3, <1>4, <1>5, <1>6, <1>7
       DEF CallerActs, CallerCalls, Create, CreateAgain, CancelRun, Resolve, Resume, CancelJob,
           ResolveJob, IdleCaller, ThreadStep, CallerStep, EnqueueRefused, CallFault, CallerRaises

\* A command finds no job of its revision, as nobody else makes one for it.
LEMMA ServeTakes ==
    ASSUME NEW p, Procs = {p}, NEW t \in Callers, CallerActs(t), RefInv, CallersFit(p), ~Recreates,
           phase[p] \in {"running", "closing"}
    PROVE  /\ pc'[t] \notin {"list", "look", "recover", "ready", "markFailed"}
           /\ pc'[t] = "enqueue" =>
                 /\ DOMAIN jobs' = DOMAIN jobs /\ seen'[t].rev \notin DOMAIN jobs
                 /\ \A u \in Callers \ {t} : pc[u] = "enqueue" => seen[u].rev # seen'[t].rev
  <1>0. /\ pc[t] \notin {"list", "look", "recover", "ready", "markFailed"}
        /\ pc[t] = "enqueue" => seen[t].rev \notin DOMAIN jobs
        /\ Home[t] = p /\ t \in Threads
        /\ pc \in [Threads -> Pc] /\ seen \in [Callers -> Copy \cup {NoCopy}]
    BY CalmTyped DEF CallersFit, ServeFit
  <1>1. ASSUME Done(t) PROVE pc'[t] = "idle"
    BY <1>0, <1>1 DEF Done, Take, Goto, Return
  <1>2. ASSUME NEW label, NEW copy, Take(t, label, copy) PROVE pc'[t] = label /\ seen'[t] = copy
    BY <1>0, <1>2 DEF Take, Goto
  <1>3. \A u \in Callers : pc[u] = "enqueue" => Exists /\ seen[u].rev <= run.rev
    BY DEF RefInv, CopiesFit, Calling
  <1>4. ASSUME NEW copy, Ensure(t, copy), UNCHANGED jobs, copy.rev \notin DOMAIN jobs,
               \A u \in Callers \ {t} : pc[u] = "enqueue" => seen[u].rev # copy.rev
        PROVE  /\ pc'[t] \notin {"list", "look", "recover", "ready", "markFailed"}
               /\ pc'[t] = "enqueue" =>
                     /\ DOMAIN jobs' = DOMAIN jobs /\ seen'[t].rev \notin DOMAIN jobs
                     /\ \A u \in Callers \ {t} : pc[u] = "enqueue" => seen[u].rev # seen'[t].rev
    BY <1>1, <1>2, <1>4 DEF Ensure
  <1>5. CASE Create(t)
    <2>1. PICK q \in Requests : Ensure(t, CopyOf(NewRun(q)))
      BY <1>5 DEF Create
    <2>2. ~Exists /\ UNCHANGED jobs /\ DOMAIN jobs = {}
      BY <1>5 DEF Create, RefInv, RunFits
    <2>3. QED
      BY <1>3, <1>4, <2>1, <2>2
  <1>6. CASE Resume(t)
    <2>1. /\ Ensure(t, CopyOf(run')) /\ UNCHANGED jobs /\ Exists
          /\ ResetFailed
      BY <1>6 DEF Resume, Exists
    <2>2. run \in Run /\ steps \in Seq(Step) /\ DOMAIN jobs \subseteq 1 .. run.rev
      BY <2>1, RunKnown DEF RefInv, TypeOK, RunFits
    <2>3. CopyOf(run').rev = run.rev + 1 /\ run.rev \in Nat
      BY <2>1, <2>2, Resetting DEF CopyOf, Run
    <2>4. \A u \in Callers \ {t} : pc[u] = "enqueue" => seen[u].rev # run.rev + 1
      <3>1. \A u \in Callers : pc[u] = "enqueue" => seen[u].rev \in Nat /\ seen[u].rev <= run.rev
        BY <1>3, CalmTyped DEF Copy, Calling
      <3>2. QED
        BY <2>3, <3>1
    <2>5. run.rev + 1 \notin DOMAIN jobs
      BY <2>2, <2>3
    <2>6. QED
      BY <1>4, <2>1, <2>3, <2>4, <2>5
  <1>7. CASE CancelRun(t)
    <2>1. Done(t) \/ Take(t, "cancelJob", CopyOf(run))
      BY <1>7 DEF CancelRun
    <2>2. QED
      BY <1>1, <1>2, <2>1
  <1>8. CASE Resolve(t)
    <2>1. Take(t, "approveJob", CopyOf(run)) \/ Take(t, "rejectJob", CopyOf(run))
      BY <1>8 DEF Resolve
    <2>2. QED
      BY <1>2, <2>1
  <1>9. CASE \E v \in DOMAIN jobs : CancelJob(t, v) \/ ResolveJob(t, v)
    BY <1>0, <1>9 DEF CancelJob, ResolveJob, IdleCaller
  <1>10. CASE Enqueue(t)
    <2>1. Take(t, "link", [seen[t] EXCEPT !.job = seen[t].rev])
      BY <1>0, <1>10 DEF Enqueue
    <2>2. QED
      BY <1>2, <2>1
  <1>11. CASE Link(t) \/ NoteWaiting(t) \/ NoteFailed(t) \/ Withdraw(t) \/ CancelItsJob(t)
              \/ EnqueueRefused(t) \/ CallFault(t)
    BY <1>1, <1>11
       DEF Link, NoteWaiting, NoteFailed, Withdraw, CancelItsJob, EnqueueRefused, CallFault, CallerRaises
  <1>12. CASE Answer(t)
    <2>1. Done(t) \/ Take(t, "withdraw", seen[t])
      BY <1>12 DEF Answer
    <2>2. QED
      BY <1>1, <1>2, <2>1
  <1>13. QED
    BY <1>0, <1>5, <1>6, <1>7, <1>8, <1>9, <1>10, <1>11, <1>12
       DEF CallerActs, CallerCalls, CreateAgain, ThreadStep, CallerStep, List, Look

LEMMA CallersKept ==
    ASSUME NEW p, Procs = {p}, NEW t \in Callers, CallerActs(t), CalmInv, ~Recreates
    PROVE  CallersFit(p)'
  <1>0. /\ RefInv /\ Shapes /\ CallersFit(p) /\ HoldsRunning(p) /\ Home[t] = p
        /\ phase[p] \in {"starting", "serving", "running", "closing"}
        /\ \A u \in Callers \ {t} : pc'[u] = pc[u] /\ seen'[u] = seen[u]
        /\ pc'[p] = pc[p] /\ work' = work /\ phase' = phase
        /\ JobsGrow
    BY CallerFrame, CallerWrites, CalmTyped, JobsStep DEF CalmInv, OneInv, Next, CallerActs
  <1>1. DownFit(p)'
    BY <1>0 DEF DownFit
  <1>2. BuildFit(p)'
    <2>1. CASE phase[p] \in {"starting", "serving"}
      <3>1. run'.rev = run.rev /\ (Ended => Ended')
        <4>1. \/ UNCHANGED <<run, steps>> \/ LinkMove \/ (Exists /\ (Cancel \/ MarkFailed))
          BY <1>0, <2>1, CallerWrites
        <4>2. CASE UNCHANGED <<run, steps>>
          BY <4>2 DEF Ended
        <4>3. CASE LinkMove \/ (Exists /\ (Cancel \/ MarkFailed))
          <5>1. Rows
            BY <1>0, <4>3, RowsAre DEF LinkMove
          <5>2. Ended => UNCHANGED <<run, steps>>
            BY <4>3, <5>1, EndedKept
          <5>3. run'.rev = run.rev
            <6>1. CASE LinkMove
              <7>1. PICK v \in DOMAIN jobs : ClaimJob(v) \/ MarkWaiting(v)
                BY <6>1 DEF LinkMove
              <7>2. v \in Nat
                BY <1>0 DEF RefInv, TypeOK
              <7>3. QED
                BY <5>1, <7>1, <7>2, Linking DEF Rows, SameRun, Revised
            <6>2. CASE Cancel \/ MarkFailed
              BY <5>1, <6>2, Cancelling, MarkingFailed DEF Rows, SameRun, Revised
            <6>3. QED
              BY <4>3, <6>1, <6>2
          <5>4. QED
            BY <5>2, <5>3 DEF Ended
        <4>4. QED
          BY <4>1, <4>2, <4>3
      <3>2. /\ pc'[t] # "idle"
            /\ pc'[t] \in Calling \cup {"look"} => seen'[t].rev = run.rev
            /\ pc'[t] = "markFailed" =>
                  jobs' = jobs /\ run.rev \in DOMAIN jobs /\ jobs[run.rev].status \in J!Terminal
        BY <1>0, <2>1, BuildTakes
      <3>3. \A u \in Callers : u # Main[p] => pc'[u] = "down"
        <4>1. t = Main[p]
          BY <1>0, <2>1, CallerMoves DEF CallersFit, BuildFit, Calling
        <4>2. QED
          BY <1>0, <2>1, <4>1 DEF CallersFit, BuildFit
      <3>4. pc'[p] \in WorkPc => work'[p].job = run'.rev
        BY <1>0, <2>1, <3>1 DEF CallersFit, BuildFit
      <3>5. ASSUME NEW u \in Callers \ {t}, pc'[u] = "markFailed" PROVE FALSE
        <4>1. t = Main[p]
          BY <1>0, <2>1, CallerMoves DEF CallersFit, BuildFit, Calling
        <4>2. QED
          BY <3>3, <3>5, <4>1
      <3>6. \A u \in Callers \ {t} : pc'[u] = "down"
        <4>1. t = Main[p]
          BY <1>0, <2>1, CallerMoves DEF CallersFit, BuildFit, Calling
        <4>2. QED
          BY <3>3, <4>1
      <3>7. QED
        BY <1>0, <3>1, <3>2, <3>3, <3>4, <3>6 DEF BuildFit, Calling
    <2>2. CASE phase[p] \in {"running", "closing"}
      BY <1>0, <2>2 DEF BuildFit
    <2>3. QED
      BY <1>0, <2>1, <2>2
  <1>3. ServeFit(p)'
    <2>1. CASE phase[p] \in {"starting", "serving"}
      BY <1>0, <2>1 DEF ServeFit
    <2>2. CASE phase[p] \in {"running", "closing"}
      <3>1. /\ pc'[t] \notin {"list", "look", "recover", "ready", "markFailed"}
            /\ pc'[t] = "enqueue" =>
                 /\ DOMAIN jobs' = DOMAIN jobs /\ seen'[t].rev \notin DOMAIN jobs
                 /\ \A u \in Callers \ {t} : pc[u] = "enqueue" => seen[u].rev # seen'[t].rev
        BY <1>0, <2>2, ServeTakes
      <3>2. ASSUME NEW u \in Callers \ {t}, pc[u] = "enqueue" PROVE seen[u].rev \notin DOMAIN jobs'
        <4>1. seen[u].rev \notin DOMAIN jobs /\ (pc[t] = "enqueue" => seen[u].rev # seen[t].rev)
          BY <1>0, <2>2, <3>2 DEF CallersFit, ServeFit
        <4>2. \/ DOMAIN jobs' = DOMAIN jobs
              \/ pc[t] = "enqueue" /\ DOMAIN jobs' = DOMAIN jobs \cup {seen[t].rev}
          BY <1>0, CallerFrame
        <4>3. QED
          BY <4>1, <4>2
      <3>3. ASSUME NEW u \in Callers, pc'[u] = "enqueue"
            PROVE  /\ seen'[u].rev \notin DOMAIN jobs'
                   /\ \A w \in Callers \ {u} : pc'[w] = "enqueue" => seen'[w].rev # seen'[u].rev
        <4>1. CASE u = t
          BY <1>0, <3>1, <3>3, <4>1
        <4>2. CASE u # t
          BY <1>0, <2>2, <3>1, <3>2, <3>3, <4>2 DEF CallersFit, ServeFit
        <4>3. QED
          BY <4>1, <4>2
      <3>4. \A u \in Callers : pc'[u] \notin {"list", "look", "recover", "ready", "markFailed"}
        BY <1>0, <2>2, <3>1 DEF CallersFit, ServeFit
      <3>5. QED
        BY <3>3, <3>4 DEF ServeFit
    <2>3. QED
      BY <1>0, <2>1, <2>2
  <1>4. QED
    BY <1>1, <1>2, <1>3 DEF CallersFit

\* Only _ensure_job adds a row, and its caller goes on with it.
LEMMA NoNewJob ==
    ASSUME NEW p, Procs = {p}, RefInv, [Next]_vars,
           \A t \in Callers : pc[t] = "enqueue" => pc'[t] \notin {"link", "markFailed"}
    PROVE  DOMAIN jobs' = DOMAIN jobs
  <1>1. DOMAIN jobs \subseteq DOMAIN jobs' /\ JobsFrom
    BY JobsStep DEF JobsGrow
  <1>2. ASSUME NEW v \in DOMAIN jobs' \ DOMAIN jobs PROVE FALSE
    <2>1. PICK t \in Callers : Enqueue(t) /\ v = seen[t].rev
      BY <1>1, <1>2 DEF JobsFrom
    <2>2. pc[t] = "enqueue" /\ pc'[t] = "link"
      BY <1>2, <2>1, CalmTyped DEF Enqueue, Take, Goto
    <2>3. QED
      BY <2>2
  <1>3. QED
    BY <1>1, <1>2

\* The worker comes to its run with the job of its revision.
LEMMA WorkEnters ==
    ASSUME NEW p \in Procs, RefInv, WorkerActs(p), pc'[p] \in WorkPc
    PROVE  /\ work'[p].job = work[p].job
           /\ pc[p] \in WorkPc \/ (ClaimRun(p) /\ Claims(work[p].job))
  <1>0. /\ pc \in [Threads -> Pc] /\ p \in Threads /\ work \in [Procs -> Work]
    BY WorkerExists
  <1>1. work'[p].job = work[p].job /\ ~Claim(p)
    <2>1. ~Claim(p) /\ pc'[p] # "poll"
      BY <1>0 DEF Claim, Goto, WorkPc, EarlyPc, LoopPc, TryPc
    <2>2. QED
      BY <1>0, <2>1, WorkerJobs
  <1>2. CASE pc[p] = "claimRun"
    <2>1. ClaimRun(p)
      BY <1>0, <1>2
         DEF WorkerActs, WorkerStep, WorkerFault, Claim, Check, AskWait, Approve, Prepare, Reread,
             ListSteps, Pick, Deadlock, Start, Progress, Execute, StepFails, Commit, Complete, Stop,
             Settle, Goto, WorkPc, EarlyPc, LoopPc, TryPc
    <2>2. Claims(work[p].job)
      BY <1>0, <2>1 DEF ClaimRun, Goto, WorkPc, EarlyPc, LoopPc, TryPc
    <2>3. QED
      BY <1>1, <2>1, <2>2
  <1>3. CASE pc[p] \in {"check0", "stop", "finish", "pause", "cancel", "fail"}
    BY <1>0, <1>3
       DEF WorkerActs, WorkerStep, WorkerFault, Claim, Check, Onward, ClaimRun, AskWait, Approve,
           Prepare, Reread, ListSteps, Pick, Deadlock, Start, Progress, Execute, StepFails, Commit,
           Complete, Stop, Settle, Goto, WorkPc, EarlyPc, LoopPc, TryPc
  <1>4. pc[p] \notin {"down", "poll"}
    BY <1>1, WorkerExists, WorkerMoves DEF RefInv, ThreadsFit
  <1>5. QED
    BY <1>1, <1>2, <1>3, <1>4 DEF RefInv, ThreadsFit, WorkerPc, WorkPc, EarlyPc, LoopPc, TryPc

LEMMA WorkerCallers ==
    ASSUME NEW p, Procs = {p}, WorkerActs(p), CalmInv
    PROVE  CallersFit(p)'
  <1>0. /\ RefInv /\ Shapes /\ Placed(p) /\ CallersFit(p) /\ p \in Procs
        /\ pc \in [Threads -> Pc] /\ Callers \subseteq Threads /\ p \notin Callers
        /\ [Next]_vars
    BY CalmTyped DEF CalmInv, OneInv, Next, WorkerActs
  <1>1. /\ phase' = phase /\ seen' = seen /\ pc[p] # "down" /\ phase[p] \notin {"down", "starting"}
        /\ \A t \in Callers : pc'[t] = pc[t]
    BY <1>0, WorkerMoves DEF RefInv, ThreadsFit
  <1>2. run'.rev = run.rev /\ JobsGrow /\ DOMAIN jobs' = DOMAIN jobs /\ (Ended => Ended')
    <2>1. run'.rev = run.rev
      BY <1>0, WorkerMove DEF Onwards
    <2>2. Ended => Ended'
      BY <1>0, EndedStays DEF Ended
    <2>3. QED
      BY <1>0, <1>1, <2>1, <2>2, JobsStep, NoNewJob
  <1>3. DownFit(p)' /\ ServeFit(p)'
    BY <1>0, <1>1, <1>2 DEF CallersFit, DownFit, ServeFit
  <1>4. BuildFit(p)'
    <2>1. CASE phase[p] = "serving"
      <3>1. pc'[p] \in WorkPc => work'[p].job = run'.rev
        BY <1>0, <1>2, <2>1, WorkEnters DEF CallersFit, BuildFit, Claims
      <3>2. \A t \in Callers :
               pc'[t] = "markFailed" =>
                    \/ Ended'
                    \/ run'.rev \in DOMAIN jobs' /\ jobs'[run'.rev].status \in J!Terminal
        BY <1>0, <1>1, <1>2, <2>1 DEF CallersFit, BuildFit, JobsGrow
      <3>3. QED
        BY <1>0, <1>1, <1>2, <2>1, <3>1, <3>2 DEF CallersFit, BuildFit
    <2>2. CASE phase[p] # "serving"
      BY <1>1, <2>2 DEF BuildFit
    <2>3. QED
      BY <2>1, <2>2
  <1>5. QED
    BY <1>3, <1>4 DEF CallersFit

LEMMA LifeCallers ==
    ASSUME NEW p, Procs = {p}, LifeActs(p) \/ ClaimFault(p) \/ UNCHANGED vars, CalmInv
    PROVE  CallersFit(p)'
  <1>0. /\ RefInv /\ CallersFit(p) /\ p \in Procs /\ p \in Threads /\ Main[p] \in Callers
        /\ pc \in [Threads -> Pc] /\ Callers \subseteq Threads /\ p \notin Callers
        /\ \A t \in Callers : HomeOf(t) = p
        /\ phase \in [Procs -> {"down", "starting", "serving", "running", "closing"}]
    BY CalmTyped DEF CalmInv, OneInv, RefInv, TypeOK
  <1>1. CASE Boot(p)
    <2>1. /\ phase[p] = "down" /\ phase'[p] = "starting" /\ pc' = [pc EXCEPT ![Main[p]] = "list"]
      BY <1>0, <1>1 DEF Boot, Goto
    <2>2. pc'[p] = "down" /\ \A t \in Callers : pc'[t] = IF t = Main[p] THEN "list" ELSE "down"
      BY <1>0, <2>1 DEF CallersFit, DownFit
    <2>3. QED
      BY <2>1, <2>2 DEF CallersFit, DownFit, BuildFit, ServeFit, WorkPc, EarlyPc, LoopPc, TryPc, Calling
  <1>2. CASE Recover(p)
    <2>1. /\ phase[p] = "starting" /\ phase'[p] = "serving"
          /\ pc' = [pc EXCEPT ![Main[p]] = "list", ![p] = "poll"]
      BY <1>0, <1>2 DEF Recover, RefInv, ThreadsFit
    <2>2. pc'[p] = "poll" /\ \A t \in Callers : pc'[t] = IF t = Main[p] THEN "list" ELSE "down"
      BY <1>0, <2>1 DEF CallersFit, BuildFit
    <2>3. BuildFit(p)'
      BY <2>2 DEF BuildFit, WorkPc, EarlyPc, LoopPc, TryPc, Calling
    <2>4. DownFit(p)' /\ ServeFit(p)'
      BY <2>1 DEF DownFit, ServeFit
    <2>5. QED
      BY <2>3, <2>4 DEF CallersFit
  <1>3. CASE Serve(p)
    <2>1. phase'[p] = "running" /\ \A t \in Callers : pc'[t] = "idle"
      BY <1>0, <1>3 DEF Serve
    <2>2. QED
      BY <2>1 DEF CallersFit, DownFit, BuildFit, ServeFit
  <1>4. CASE Close(p)
    <2>1. /\ phase[p] = "running" /\ phase'[p] = "closing" /\ seen' = seen /\ jobs' = jobs
          /\ \A t \in Callers : pc'[t] \in {"down", pc[t]}
      BY <1>0, <1>4 DEF Close, Goto, tables
    <2>2. ServeFit(p)'
      BY <1>0, <2>1 DEF CallersFit, ServeFit
    <2>3. QED
      BY <2>1, <2>2 DEF CallersFit, DownFit, BuildFit
  <1>5. CASE End(p)
    <2>1. phase'[p] = "down" /\ pc'[p] = "down" /\ \A t \in Callers : pc'[t] = "down"
      BY <1>0, <1>5 DEF End, HomeOf
    <2>2. QED
      BY <2>1 DEF CallersFit, DownFit, BuildFit, ServeFit
  <1>6. CASE ClaimFault(p) \/ UNCHANGED vars
    <2>1. /\ UNCHANGED <<run, phase, pc, seen, work>> /\ JobsGrow /\ DOMAIN jobs' = DOMAIN jobs
      <3>1. UNCHANGED <<run, phase, pc, seen, work>>
        BY <1>6 DEF ClaimFault, vars, tables
      <3>2. [Next]_vars
        BY <1>6 DEF Next
      <3>3. QED
        BY <1>0, <3>1, <3>2, JobsStep, NoNewJob
    <2>2. (Ended <=> Ended')
      BY <2>1 DEF Ended
    <2>3. BuildFit(p)'
      BY <1>0, <2>1, <2>2 DEF CallersFit, BuildFit, JobsGrow
    <2>4. DownFit(p)' /\ ServeFit(p)'
      BY <1>0, <2>1 DEF CallersFit, DownFit, ServeFit
    <2>5. QED
      BY <2>3, <2>4 DEF CallersFit
  <1>7. QED
    BY <1>1, <1>2, <1>3, <1>4, <1>5, <1>6, LifeMoves

-----------------------------------------------------------------------------
(* Without repeated create_run calls: the worker's job is its own. *)

LEMMA RunningStays ==
    ASSUME NEW p, Procs = {p}, NEW t \in Callers, CallerActs(t), RefInv,
           NEW v \in DOMAIN jobs, jobs[v].status = "running"
    PROVE  jobs'[v].status = "running"
  <1>1. jobs[v] \in J!Row
    BY DEF RefInv, TypeOK
  <1>2. ASSUME NEW row, NEW b \in BOOLEAN, Put(v, row),
               row \in {J!RequestCancel(jobs[v]), J!ResolveApproval(jobs[v], b)}
        PROVE  jobs'[v].status = "running"
    <2>1. row.status = "running"
      BY <1>1, <1>2 DEF J!RequestCancel, J!ResolveApproval, J!Exists, J!Terminal, J!Row
    <2>2. QED
      BY <1>2, <2>1, PutFacts
  <1>3. ASSUME NEW u, NEW row, NEW b \in BOOLEAN, Put(u, row),
               row \in {J!RequestCancel(jobs[u]), J!ResolveApproval(jobs[u], b)}
        PROVE  jobs'[v].status = "running"
    <2>1. CASE u = v
      BY <1>2, <1>3, <2>1
    <2>2. CASE u # v
      BY <1>3, <2>2 DEF Put
    <2>3. QED
      BY <2>1, <2>2
  <1>4. CASE Enqueue(t)
    BY <1>4 DEF Enqueue, Put
  <1>5. CASE CancelItsJob(t)
    BY <1>3, <1>5 DEF CancelItsJob
  <1>6. CASE Answer(t)
    <2>1. (pc[t] = "approveJob") \in BOOLEAN
      OBVIOUS
    <2>2. Put(seen[t].job, J!ResolveApproval(jobs[seen[t].job], pc[t] = "approveJob"))
      BY <1>6 DEF Answer
    <2>3. QED
      BY <1>3, <2>1, <2>2
  <1>7. CASE \E u \in DOMAIN jobs : CancelJob(t, u) \/ ResolveJob(t, u)
    BY <1>3, <1>7 DEF CancelJob, ResolveJob
  <1>8. CASE UNCHANGED jobs
    BY <1>8
  <1>9. QED
    BY <1>4, <1>5, <1>6, <1>7, <1>8
       DEF CallerActs, CallerCalls, Create, CreateAgain, CancelRun, Resolve, Resume, ThreadStep,
           CallerStep, Link, NoteWaiting, NoteFailed, Withdraw, List, Look, EnqueueRefused,
           CallFault, CallerRaises, tables

LEMMA HoldsStep ==
    ASSUME NEW p, Procs = {p}, RefInv, HoldsRunning(p), [Next]_vars
    PROVE  HoldsRunning(p)'
  <1>0. /\ p \in Procs /\ p \in Threads /\ work \in [Procs -> Work]
        /\ work[p].job # NoJob => work[p].job \in DOMAIN jobs
        /\ Busy(p) <=> work[p].job # NoJob
        /\ phase[p] \in {"down", "starting"} => pc[p] = "down"
        /\ pc[Main[p]] = "recover" => phase[p] = "starting"
    BY CalmTyped DEF RefInv, WorkFits, ThreadsFit
  <1>1. ASSUME NEW t \in Callers, CallerActs(t) PROVE HoldsRunning(p)'
    <2>1. work' = work
      BY <1>1, CallerFrame
    <2>2. QED
      BY <1>0, <1>1, <2>1, RunningStays DEF HoldsRunning
  <1>2. ASSUME jobs' = jobs, work'[p].job \in {work[p].job, NoJob} PROVE HoldsRunning(p)'
    BY <1>2 DEF HoldsRunning
  <1>3. CASE WorkerActs(p)
    <2>1. CASE Claim(p)
      <3>1. PICK v \in DOMAIN jobs :
               /\ Put(v, J!Claim(jobs[v])) /\ J!Claimable(jobs[v])
               /\ Remember(p, [Idle EXCEPT !.job = v, !.granted = jobs[v].approval = "granted"])
        BY <2>1 DEF Claim
      <3>2. work'[p].job = v
        BY <1>0, <3>1 DEF Remember, Idle
      <3>3. jobs'[v].status = "running"
        <4>1. Paid(jobs[v])
          BY DEF RefInv, JobsPaid
        <4>2. J!Claim(jobs[v]).status = "running"
          BY <3>1, <4>1, RowClaimed
        <4>3. QED
          BY <3>1, <4>2 DEF Put
      <3>4. QED
        BY <3>2, <3>3 DEF HoldsRunning
    <2>2. CASE Settle(p)
      <3>1. work'[p].job = NoJob
        BY <1>0, <2>2 DEF Settle, Remember, Idle
      <3>2. QED
        BY <3>1 DEF HoldsRunning
    <2>3. CASE ~Claim(p) /\ ~Settle(p)
      <3>1. jobs' = jobs
        BY <1>3, <2>3
           DEF WorkerActs, WorkerStep, WorkerFault, Check, ClaimRun, AskWait, Approve, Prepare,
               Reread, ListSteps, Pick, Deadlock, Start, Progress, Execute, StepFails, Commit,
               Complete, Stop, tables
      <3>2. work'[p].job \in {work[p].job, NoJob}
        BY <1>0, <1>3, <2>3, WorkerJobs DEF Idle
      <3>3. QED
        BY <1>2, <3>1, <3>2
    <2>4. QED
      BY <2>1, <2>2, <2>3
  <1>4. CASE ClaimFault(p)
    BY <1>0, <1>4 DEF ClaimFault, Busy, HoldsRunning
  <1>5. CASE Recover(p)
    BY <1>0, <1>5 DEF Recover, Busy, HoldsRunning
  <1>6. CASE LifeActs(p) /\ ~Recover(p)
    <2>1. jobs' = jobs /\ work'[p].job \in {work[p].job, NoJob}
      BY <1>0, <1>6, LifeMoves DEF End, Remember, Idle
    <2>2. QED
      BY <1>2, <2>1
  <1>7. CASE UNCHANGED vars
    BY <1>2, <1>7 DEF vars, tables
  <1>8. QED
    BY <1>1, <1>3, <1>4, <1>5, <1>6, <1>7, Actors

-----------------------------------------------------------------------------
(* Without repeated create_run calls: what the worker relies on. *)

LEMMA CallerDisturbs ==
    ASSUME NEW p, Procs = {p}, NEW t \in Callers, CallerActs(t), CalmInv
    PROVE  Undisturbed(p)'
  <1>0. /\ RefInv /\ Shapes /\ CallersFit(p) /\ HoldsRunning(p) /\ Undisturbed(p) /\ p \in Procs
        /\ pc'[p] = pc[p] /\ work' = work
        /\ pc[p] \in WorkPc => Exists
    <2>1. pc[p] \in WorkPc => Busy(p)
      BY DEF Busy, WorkPc, EarlyPc, LoopPc, TryPc
    <2>2. QED
      BY <2>1, CallerFrame DEF CalmInv, OneInv, RefInv, ThreadsFit, WorkFits, RunFits
  <1>1. ASSUME UNCHANGED <<run, steps>> PROVE Undisturbed(p)'
    <2>1. /\ Owns(work[p].job)' = Owns(work[p].job)
          /\ At("completed")' = At("completed")
      BY <1>0, <1>1 DEF Owns, Ended, At
    <2>2. QED
      BY <1>0, <1>1, <2>1 DEF Undisturbed
  <1>2. CASE pc[p] \notin WorkPc
    <2>1. pc'[p] \notin WorkPc
      BY <1>0, <1>2
    <2>2. QED
      BY <2>1 DEF Undisturbed, WorkPc, EarlyPc, LoopPc, TryPc
  <1>3. CASE pc[p] \in WorkPc /\ LinkMove
    <2>1. Rows /\ DOMAIN jobs \subseteq Nat
      BY <1>0, <1>3, RowsAre DEF RefInv, TypeOK
    <2>2. PICK v \in DOMAIN jobs : ClaimJob(v) \/ MarkWaiting(v)
      BY <1>3 DEF LinkMove
    <2>3. /\ steps' = steps /\ SameRun /\ run'.stopped = run.stopped
          /\ \/ run' = run
             \/ /\ Claims(v) /\ run'.job = v
                /\ run'.status \in {run.status, "waiting_approval"}
      BY <1>3, <2>1, <2>2, Linking DEF LinkMove, Rows
    <2>4. CASE run' = run
      BY <1>1, <2>3, <2>4
    <2>5. CASE Claims(v) /\ run'.job = v /\ run'.status \in {run.status, "waiting_approval"}
      <3>1. ~Ended /\ ~Ended'
        BY <2>5, StatusNames DEF Claims, Ended
      <3>2. Owns(work[p].job) => Owns(work[p].job)'
        BY <1>0, <2>3, <2>5, <3>1 DEF Owns, Claims, SameRun, Revised
      <3>3. At("completed")' = At("completed") /\ run'.status # "failed"
        BY <2>3, <3>1 DEF At, Ended, RunTerminal
      <3>4. QED
        BY <1>0, <2>3, <3>2, <3>3 DEF Undisturbed, SameRun, Revised
    <2>6. QED
      BY <2>3, <2>4, <2>5
  <1>4. CASE pc[p] \in WorkPc /\ Cancel
    <2>1. /\ SameRun
          /\ \/ Ended /\ UNCHANGED <<run, steps>>
             \/ run'.status = "cancelled" /\ run'.stopped
      BY <1>0, <1>4, RowsAre, Cancelling DEF Rows
    <2>2. CASE run'.status = "cancelled" /\ run'.stopped
      BY <1>0, <2>1, <2>2 DEF Undisturbed, SameRun, Revised
    <2>3. QED
      BY <1>1, <2>1, <2>2
  <1>5. CASE MarkFailed /\ Ended
    BY <1>1, <1>5 DEF MarkFailed, Same
  <1>6. CASE pc[p] \in WorkPc /\ ResumeMove
    <2>1. run.status = "failed" /\ ~run.stopped /\ Ended
      <3>1. Exists /\ run.status = "failed" /\ At("failed") # {}
        BY <1>0, <1>6 DEF ResumeMove
      <3>2. QED
        BY <1>0, <3>1 DEF Shapes, StoppedShape, At, Ended, RunTerminal
    <2>2. pc[p] = "reread"
      BY <1>0, <1>6, <2>1 DEF Undisturbed, WorkPc, Owns
    <2>3. run'.high = run.high /\ run'.approved = run.approved
      BY <1>0, <1>6, RowsAre, Resetting DEF ResumeMove, Rows
    <2>4. QED
      BY <1>0, <2>1, <2>2, <2>3 DEF Undisturbed, EarlyPc, LoopPc, TryPc
  <1>7. ~(pc[p] \in WorkPc /\ CreateMove)
    BY <1>0 DEF CreateMove
  <1>8. QED
    BY <1>0, <1>1, <1>2, <1>3, <1>4, <1>5, <1>6, <1>7, CallerWrites

LEMMA LifeDisturbs ==
    ASSUME NEW p, Procs = {p}, LifeActs(p) \/ ClaimFault(p) \/ UNCHANGED vars, CalmInv
    PROVE  Undisturbed(p)'
  <1>1. UNCHANGED <<run, steps>> /\ p \in Procs
    BY LifeMoves DEF ClaimFault, vars, tables
  <1>2. \/ pc'[p] = pc[p] /\ work'[p] = work[p]
        \/ pc'[p] \in {"down", "poll"}
    <2>1. CASE LifeActs(p)
      <3>1. /\ pc \in [Threads -> Pc] /\ p \in Threads /\ p # Main[p] /\ Main[p] \in Threads
            /\ p \notin Callers
        BY CalmTyped DEF CalmInv, OneInv
      <3>2. CASE Recover(p)
        <4>1. pc' = [pc EXCEPT ![Main[p]] = "list", ![p] = "poll"]
          BY <3>2 DEF Recover
        <4>2. QED
          BY <3>1, <4>1
      <3>3. CASE (Boot(p) \/ Close(p) \/ Serve(p)) /\ work' = work
        BY <3>1, <3>3 DEF Boot, Close, Serve, Goto
      <3>4. CASE End(p)
        BY <1>1, <3>1, <3>4 DEF End, HomeOf
      <3>5. QED
        BY <1>1, <2>1, <3>2, <3>3, <3>4, LifeMoves
    <2>2. CASE ClaimFault(p) \/ UNCHANGED vars
      BY <2>2 DEF ClaimFault, vars
    <2>3. QED
      BY <2>1, <2>2
  <1>3. CASE pc'[p] \in {"down", "poll"}
    BY <1>3 DEF Undisturbed, EarlyPc, LoopPc, TryPc
  <1>4. CASE pc'[p] = pc[p] /\ work'[p] = work[p]
    <2>1. /\ Owns(work[p].job)' = Owns(work[p].job)
          /\ At("completed")' = At("completed")
      BY <1>1, <1>4 DEF Owns, Ended, At
    <2>2. Undisturbed(p)
      BY <1>1 DEF CalmInv
    <2>3. QED
      BY <1>1, <1>4, <2>1, <2>2 DEF Undisturbed
  <1>5. QED
    BY <1>2, <1>3, <1>4

LEMMA WorkerDisturbs ==
    ASSUME NEW p, Procs = {p}, WorkerActs(p), CalmInv
    PROVE  Undisturbed(p)'
  <1>0. /\ Rows /\ DOMAIN jobs \subseteq Nat \ {0} /\ p \in Procs
        /\ pc \in [Threads -> Pc] /\ p \in Threads /\ work \in [Procs -> Work] /\ work[p] \in Work
        /\ pc[p] # "poll" => work[p].job \in DOMAIN jobs
        /\ pc[p] \in ChosenPc => work[p].step \in DOMAIN steps
        /\ RefInv /\ Shapes /\ Placed(p) /\ Undisturbed(p)
    BY WorkerExists DEF CalmInv, OneInv
  <1>1. ASSUME pc'[p] \notin WorkPc PROVE Undisturbed(p)'
    BY <1>1 DEF Undisturbed, WorkPc, EarlyPc, LoopPc, TryPc
  <1>2. ASSUME UNCHANGED <<run, steps>>
        PROVE  /\ \A v : Owns(v)' = Owns(v)
               /\ At("completed")' = At("completed") /\ (Ended' <=> Ended)
    BY <1>2 DEF Owns, Ended, At
  <1>3. CASE Claim(p) \/ AskWait(p) \/ Deadlock(p) \/ StepFails(p) \/ Complete(p) \/ Stop(p) \/ Settle(p)
    <2>1. pc'[p] \in {"check0", "pause", "fail", "finish", "cancel", "poll"}
      BY <1>0, <1>3 DEF Claim, AskWait, Deadlock, StepFails, Complete, Stop, Settle, Goto
    <2>2. QED
      BY <1>1, <2>1 DEF WorkPc, EarlyPc, LoopPc, TryPc
  <1>4. CASE Check(p)
    <2>1. /\ UNCHANGED <<run, steps, work>>
          /\ \/ pc'[p] \in {"claimRun", "cancel", "stop"}
             \/ pc[p] = "check1" /\ pc'[p] \in {"approve", "askWait"}
             \/ pc[p] = "check1" /\ pc'[p] = "prepare" /\ ~work[p].ask
             \/ pc[p] = "check2" /\ pc'[p] = "steps"
             \/ pc[p] = "check3" /\ pc'[p] = "commit"
      BY <1>0, <1>4 DEF Check, Goto, Onward, tables
    <2>2. CASE pc'[p] \in {"claimRun", "cancel", "stop"}
      BY <1>1, <2>2 DEF WorkPc, EarlyPc, LoopPc, TryPc
    <2>3. Owns(work[p].job)' = Owns(work[p].job)
      BY <2>1 DEF Owns, Ended
    <2>4. CASE pc[p] = "check1" /\ pc'[p] \in {"approve", "askWait"}
      BY <1>0, <2>1, <2>3, <2>4 DEF Undisturbed, EarlyPc, LoopPc, TryPc
    <2>5. CASE pc[p] = "check1" /\ pc'[p] = "prepare" /\ ~work[p].ask
      BY <1>0, <2>1, <2>3, <2>5 DEF Undisturbed, EarlyPc, LoopPc, TryPc
    <2>6. CASE pc[p] = "check2" /\ pc'[p] = "steps"
      BY <1>0, <2>1, <2>6 DEF Undisturbed, EarlyPc, LoopPc, TryPc
    <2>7. CASE pc[p] = "check3" /\ pc'[p] = "commit"
      BY <1>0, <2>1, <2>7 DEF Undisturbed, EarlyPc, LoopPc, TryPc
    <2>8. QED
      BY <2>1, <2>2, <2>4, <2>5, <2>6, <2>7
  <1>5. CASE ClaimRun(p)
    <2>1. CASE Claims(work[p].job)
      <3>1. run' = [run EXCEPT !.job = work[p].job] /\ pc'[p] = "check1"
        BY <1>0, <1>5, <2>1 DEF ClaimRun, ClaimJob, Goto
      <3>2. work'[p].job = work[p].job /\ work'[p].ask = (run.high /\ ~run.approved)
        BY <1>0, <1>5 DEF ClaimRun, Remember, Work
      <3>3. Owns(work[p].job)' /\ run'.high = run.high /\ run'.approved = run.approved
        BY <1>0, <2>1, <3>1, <3>2 DEF Owns, Claims, Ended, Rows, Run
      <3>4. QED
        BY <3>1, <3>2, <3>3 DEF Undisturbed, EarlyPc, LoopPc, TryPc
    <2>2. CASE ~Claims(work[p].job)
      <3>1. pc'[p] = "finish"
        BY <1>0, <1>5, <2>2 DEF ClaimRun, Goto
      <3>2. QED
        BY <1>1, <3>1 DEF WorkPc, EarlyPc, LoopPc, TryPc
    <2>3. QED
      BY <2>1, <2>2
  <1>6. CASE Approve(p)
    <2>1. /\ work[p].job \in Nat /\ MarkApproved(work[p].job) /\ UNCHANGED <<steps, work>>
          /\ pc'[p] = "prepare" /\ pc[p] = "approve"
      BY <1>0, <1>6 DEF Approve, Goto
    <2>2. Owns(work[p].job) \/ run.stopped
      BY <1>0, <2>1 DEF Undisturbed, EarlyPc
    <2>3. CASE Owns(work[p].job)
      <3>1. run' = [run EXCEPT !.approved = TRUE, !.status = "running"]
        BY <2>1, <2>3 DEF MarkApproved
      <3>2. run'.approved /\ Owns(work[p].job)'
        BY <1>0, <2>1, <2>3, <3>1 DEF Owns, Ended, RunTerminal, Rows, Run
      <3>3. QED
        BY <2>1, <3>2 DEF Undisturbed, EarlyPc, LoopPc, TryPc
    <2>4. CASE ~Owns(work[p].job)
      <3>1. run' = run /\ run.stopped
        BY <2>1, <2>2, <2>4 DEF MarkApproved
      <3>2. QED
        BY <2>1, <3>1 DEF Undisturbed, EarlyPc, LoopPc, TryPc
    <2>5. QED
      BY <2>3, <2>4
  <1>7. CASE Prepare(p)
    <2>1. /\ PrepareResume(work[p].job) /\ pc[p] = "prepare" /\ UNCHANGED work
          /\ pc'[p] = IF Prepares(work[p].job) THEN "check2" ELSE "reread"
      BY <1>0, <1>7 DEF Prepare, Goto
    <2>2. /\ SameRun /\ run'.stopped = run.stopped
          /\ Prepares(work[p].job) => run'.status = "running"
      BY <1>0, <2>1, Preparing DEF Rows, Prepares
    <2>3. run.high => run.approved \/ run.stopped
      BY <1>0, <2>1 DEF Undisturbed
    <2>4. QED
      BY <2>1, <2>2, <2>3 DEF Undisturbed, EarlyPc, LoopPc, TryPc, SameRun, Revised
  <1>8. CASE Reread(p)
    <2>1. /\ UNCHANGED <<run, steps, work>> /\ pc[p] = "reread"
          /\ pc'[p] = IF run.status \in {"failed", "cancelled"} THEN "fail" ELSE "check2"
      BY <1>0, <1>8 DEF Reread, Goto, tables
    <2>2. QED
      BY <1>0, <2>1 DEF Undisturbed, EarlyPc, LoopPc, TryPc
  <1>9. CASE ListSteps(p)
    <2>1. /\ UNCHANGED <<run, steps>> /\ pc[p] \in {"steps", "team"}
          /\ pc'[p] = IF pc[p] = "steps" THEN "pick" ELSE "completeTeam"
          /\ work' = [work EXCEPT ![p] = [work[p] EXCEPT !.open = Unfinished # {},
                                                         !.done = At("completed")]]
      BY <1>0, <1>9 DEF ListSteps, Goto, tables, Remember
    <2>2. work'[p].open = (Unfinished # {})
      BY <1>0, <2>1 DEF Work
    <2>3. /\ run.status # "failed" /\ run.status # "completed"
          /\ run.high => run.approved \/ run.stopped
      BY <1>0, <2>1 DEF Undisturbed, Placed, LoopPc
    <2>4. Unfinished = {} => At("completed") = DOMAIN steps \/ run.stopped
      <3>1. CASE Ended
        BY <1>0, <2>3, <3>1 DEF Ended, RunTerminal, Shapes, StoppedShape, Rows
      <3>2. CASE ~Ended
        BY <1>0, <3>2 DEF Shapes, StepsShape, Rows, Unfinished, At
      <3>3. QED
        BY <3>1, <3>2
    <2>5. At("completed")' = At("completed")
      BY <2>1 DEF At
    <2>6. QED
      BY <2>1, <2>2, <2>3, <2>4, <2>5 DEF Undisturbed, EarlyPc, LoopPc, TryPc
  <1>10. CASE Pick(p)
    <2>1. /\ UNCHANGED <<run, steps>> /\ pc[p] = "pick"
          /\ pc'[p] \in {"deadlock", "completeRun", "start", "fail"}
          /\ pc'[p] = "completeRun" => ~work[p].open
      BY <1>0, <1>10 DEF Pick, Goto, tables
    <2>2. CASE pc'[p] = "fail"
      BY <1>1, <2>2 DEF WorkPc, EarlyPc, LoopPc, TryPc
    <2>3. At("completed")' = At("completed")
      BY <2>1 DEF At
    <2>4. CASE pc'[p] \in {"deadlock", "completeRun", "start"}
      BY <1>0, <2>1, <2>3, <2>4 DEF Undisturbed, EarlyPc, LoopPc, TryPc
    <2>5. QED
      BY <2>1, <2>2, <2>4
  <1>11. CASE Start(p)
    <2>1. /\ UNCHANGED work /\ pc[p] = "start" /\ StartStep(work[p].step, Input(p, work[p].step))
          /\ pc'[p] = IF Starts(work[p].step) THEN "progress" ELSE "fail"
      BY <1>0, <1>11 DEF Start, Goto
    <2>2. work[p].step \in DOMAIN steps /\ Input(p, work[p].step) \in SUBSET Nat
      BY <1>0, <2>1, InputTyped DEF ChosenPc
    <2>3. CASE Starts(work[p].step)
      <3>1. SameRun /\ run'.status = "running" /\ steps'[work[p].step].status = "running"
        BY <1>0, <2>1, <2>2, <2>3, Starting DEF Rows
      <3>2. ~run.stopped /\ (run.high => run.approved \/ run.stopped)
        BY <1>0, <2>1, <2>3 DEF Starts, Shapes, StoppedShape, Rows, Ended, RunTerminal, Undisturbed, LoopPc
      <3>3. QED
        BY <2>1, <2>3, <3>1, <3>2 DEF Undisturbed, EarlyPc, LoopPc, TryPc, SameRun, Revised
    <2>4. CASE ~Starts(work[p].step)
      BY <1>1, <2>1, <2>4 DEF WorkPc, EarlyPc, LoopPc, TryPc
    <2>5. QED
      BY <2>3, <2>4
  <1>12. CASE Progress(p) \/ Execute(p)
    <2>1. /\ UNCHANGED <<run, steps, work>> /\ pc[p] \in {"progress", "execute"}
          /\ pc'[p] \in {"execute", "stop", "fail", "check3", "failStep"}
      BY <1>0, <1>12 DEF Progress, Execute, Goto, tables
    <2>2. QED
      BY <1>0, <2>1 DEF Undisturbed, EarlyPc, LoopPc, TryPc
  <1>13. CASE Commit(p)
    <2>1. /\ UNCHANGED work /\ pc[p] = "commit" /\ work[p].step \in DOMAIN steps
      BY <1>0, <1>13 DEF Commit, ChosenPc
    <2>2. PICK marker \in BOOLEAN :
             /\ CompleteStep(work[p].step, marker)
             /\ pc'[p] = IF steps[work[p].step].status # "running" THEN "fail"
                         ELSE IF run.kind = "team" /\ marker THEN "team" ELSE "check2"
      BY <1>0, <1>13 DEF Commit, Goto
    <2>3. CASE steps[work[p].step].status # "running"
      BY <1>1, <2>2, <2>3 DEF WorkPc, EarlyPc, LoopPc, TryPc
    <2>4. CASE steps[work[p].step].status = "running"
      <3>1. run'.status = run.status /\ run'.approved = run.approved /\ run'.high = run.high
        BY <1>0, <2>1, <2>2, <2>4, Completing DEF Rows, Revised
      <3>2. run.status # "failed" /\ (run.high => run.approved)
        BY <1>0, <2>1 DEF Undisturbed, TryPc
      <3>3. pc'[p] \in {"team", "check2"}
        BY <2>2, <2>4
      <3>4. QED
        BY <3>1, <3>2, <3>3 DEF Undisturbed, EarlyPc, LoopPc, TryPc
    <2>5. QED
      BY <2>3, <2>4
  <1>14. CASE WorkerFault(p)
    <2>1. /\ UNCHANGED <<run, steps>>
          /\ \/ pc'[p] \in {"fail", "poll"}
             \/ pc[p] = "check3" /\ pc'[p] = "failStep" /\ UNCHANGED work
      BY <1>0, <1>14 DEF WorkerFault, Goto, tables
    <2>2. QED
      BY <1>0, <2>1 DEF Undisturbed, EarlyPc, LoopPc, TryPc
  <1>15. QED
    BY <1>3, <1>4, <1>5, <1>6, <1>7, <1>8, <1>9, <1>10, <1>11, <1>12, <1>13, <1>14
       DEF WorkerActs, WorkerStep

-----------------------------------------------------------------------------
(* Without repeated create_run calls: a run that has ended. *)

\* A transaction that ends no run, and does not take back an approval.
LEMMA OpenShape ==
    ASSUME EndedShape, DOMAIN effects' = DOMAIN effects, Exists, ~Ended',
           run'.high = run.high, run.approved => run'.approved
    PROVE  EndedShape'
  BY DEF EndedShape, Ended, RunTerminal

LEMMA UntouchedEnd ==
    ASSUME EndedShape, DOMAIN effects' = DOMAIN effects, UNCHANGED <<run, steps>>
    PROVE  EndedShape'
  <1>1. \A s : At(s)' = At(s)
    BY DEF At
  <1>2. QED
    BY <1>1 DEF EndedShape, Exists

LEMMA LinkEnd ==
    ASSUME Rows, EndedShape, DOMAIN jobs \subseteq Nat, LinkMove, UNCHANGED effects
    PROVE  EndedShape'
  <1>1. PICK v \in DOMAIN jobs : ClaimJob(v) \/ MarkWaiting(v)
    BY DEF LinkMove
  <1>2. /\ steps' = steps /\ SameRun
        /\ \/ run' = run
           \/ Claims(v) /\ run'.status \in {run.status, "waiting_approval"}
    BY <1>1, Linking DEF LinkMove, Rows
  <1>3. CASE run' = run
    BY <1>2, <1>3, UntouchedEnd
  <1>4. CASE Claims(v) /\ run'.status \in {run.status, "waiting_approval"}
    <2>1. ~Ended'
      BY <1>4, StatusNames DEF Claims, Ended
    <2>2. QED
      BY <1>2, <2>1, OpenShape DEF SameRun, Revised, Rows
  <1>5. QED
    BY <1>2, <1>3, <1>4

LEMMA CancelEnd ==
    ASSUME Rows, EndedShape, Cancel, UNCHANGED effects
    PROVE  EndedShape'
  <1>1. /\ SameRun
        /\ \/ UNCHANGED <<run, steps>>
           \/ run'.status = "cancelled"
    BY Cancelling DEF Rows
  <1>2. CASE run'.status = "cancelled"
    BY <1>1, <1>2 DEF EndedShape, SameRun, Revised, Rows
  <1>3. QED
    BY <1>1, <1>2, UntouchedEnd

LEMMA FailedEnd ==
    ASSUME Rows, Shapes, EndedShape, MarkFailed, UNCHANGED effects
    PROVE  EndedShape'
  <1>1. /\ SameRun /\ SameSteps
        /\ \/ UNCHANGED <<run, steps>>
           \/ /\ ~Ended /\ run'.status = "failed"
              /\ \A i \in DOMAIN steps :
                    steps'[i].status = IF i \notin Unfinished THEN steps[i].status
                                       ELSE IF i = MinOf(Unfinished) THEN "failed" ELSE "skipped"
    BY MarkingFailed DEF Rows
  <1>2. CASE /\ ~Ended /\ run'.status = "failed"
             /\ \A i \in DOMAIN steps :
                   steps'[i].status = IF i \notin Unfinished THEN steps[i].status
                                      ELSE IF i = MinOf(Unfinished) THEN "failed" ELSE "skipped"
    <2>1. DOMAIN steps' = DOMAIN steps
      BY <1>1 DEF SameSteps
    <2>2. CASE Unfinished = {}
      <3>1. \A i \in DOMAIN steps : steps[i].status = "completed" /\ steps'[i].status = "completed"
        BY <1>2, <2>2 DEF Shapes, StepsShape, Rows, Unfinished, At
      <3>2. At("completed")' = DOMAIN steps'
        BY <2>1, <3>1 DEF At
      <3>3. QED
        BY <1>1, <1>2, <3>2 DEF EndedShape, SameRun, Revised, Rows
    <2>3. CASE Unfinished # {}
      <3>1. MinOf(Unfinished) \in Unfinished /\ Unfinished \subseteq DOMAIN steps
        <4>1. Unfinished \subseteq Nat /\ Unfinished \subseteq DOMAIN steps
          BY RowsTyped DEF Unfinished, At
        <4>2. QED
          BY <2>3, <4>1, Least
      <3>2. At("failed")' # {}
        BY <1>2, <2>1, <3>1 DEF At
      <3>3. QED
        BY <1>1, <1>2, <3>2 DEF EndedShape, SameRun, Revised, Rows
    <2>4. QED
      BY <2>2, <2>3
  <1>3. QED
    BY <1>1, <1>2, UntouchedEnd

LEMMA AsideEnd ==
    ASSUME NEW p, Procs = {p}, OneInv, EndedShape, Aside(p)
    PROVE  EndedShape'
  <1>0. /\ RefInv /\ Shapes /\ DOMAIN jobs \subseteq Nat /\ effects' = effects
        /\ Exists => Rows
    BY RowsAre DEF OneInv, RefInv, TypeOK, Aside
  <1>1. CASE CreateMove
    <2>1. DOMAIN effects = {}
      BY <1>0, <1>1 DEF CreateMove, OneInv, RefInv, RunFits, EffectsFit
    <2>2. run'.status = "queued"
      BY <1>1 DEF CreateMove, NewRun
    <2>3. QED
      BY <1>0, <2>1, <2>2 DEF EndedShape
  <1>2. CASE ResumeMove
    <2>1. Rows
      BY <1>0, <1>2 DEF ResumeMove, Exists
    <2>2. run'.high = run.high /\ run'.approved = run.approved /\ run'.status = "queued"
      BY <1>2, <2>1, Resetting DEF ResumeMove, Rows
    <2>3. ~Ended'
      BY <2>2 DEF Ended, RunTerminal
    <2>4. QED
      BY <1>0, <2>1, <2>2, <2>3, OpenShape DEF Rows
  <1>3. CASE LinkMove
    <2>1. Rows
      BY <1>0, <1>3 DEF LinkMove
    <2>2. QED
      BY <1>0, <1>3, <2>1, LinkEnd
  <1>4. CASE Exists /\ (Cancel \/ MarkFailed)
    BY <1>0, <1>4, CancelEnd, FailedEnd
  <1>5. CASE UNCHANGED <<run, steps>>
    BY <1>0, <1>5, UntouchedEnd
  <1>6. QED
    BY <1>1, <1>2, <1>3, <1>4, <1>5 DEF Aside

\* A run is completed with the results of the steps it has.
LEMMA CompleteEnd ==
    ASSUME NEW p, Procs = {p}, WorkerActs(p), CalmInv, Complete(p)
    PROVE  EndedShape'
  <1>0. /\ Rows /\ p \in Procs /\ work[p] \in Work /\ RefInv /\ Shapes /\ Placed(p)
        /\ Undisturbed(p) /\ EndedShape
        /\ DOMAIN steps = 1 .. Len(steps) /\ Len(steps) \in Nat /\ run.done \in Nat
    BY WorkerExists, RowsTyped DEF CalmInv, OneInv
  <1>1. /\ pc[p] \in {"completeRun", "completeTeam"} /\ UNCHANGED effects
        /\ CompleteRun(Result(p), pc[p] = "completeTeam")
    BY DEF Complete
  <1>2. Result(p) \in SUBSET Nat /\ (pc[p] = "completeTeam") \in BOOLEAN
    BY <1>0, InputTyped
  <1>3. /\ SameRun /\ SameSteps
        /\ \/ UNCHANGED <<run, steps>>
           \/ /\ ~Ended /\ run'.status = "completed" /\ run'.result = Result(p)
              /\ \A i \in DOMAIN steps :
                    steps'[i].status = IF pc[p] = "completeTeam" /\ i \in At("pending")
                                       THEN "skipped" ELSE steps[i].status
    BY <1>0, <1>1, <1>2, Finishing DEF Rows
  <1>4. CASE UNCHANGED <<run, steps>>
    BY <1>0, <1>1, <1>4, UntouchedEnd
  <1>5. CASE /\ ~Ended /\ run'.status = "completed" /\ run'.result = Result(p)
             /\ \A i \in DOMAIN steps :
                   steps'[i].status = IF pc[p] = "completeTeam" /\ i \in At("pending")
                                      THEN "skipped" ELSE steps[i].status
    <2>1. ~run.stopped /\ NoneRuns /\ work[p].done = 1 .. run.done
      BY <1>0, <1>1, <1>5 DEF Shapes, StoppedShape, Ended, RunTerminal, Rows, Placed, LoopPc, ListedPc
    <2>2. /\ DOMAIN steps' = DOMAIN steps /\ run'.kind = run.kind /\ run'.high = run.high
          /\ run'.approved = run.approved
          /\ \A i \in DOMAIN steps : steps'[i].marker = steps[i].marker
      BY <1>3 DEF SameRun, SameSteps, Revised
    <2>3. \A i \in DOMAIN steps :
             \/ steps[i].status = "completed" /\ steps'[i].status = "completed"
             \/ /\ steps[i].status = "pending" /\ i \in At("pending")
                /\ steps'[i].status = IF pc[p] = "completeTeam" THEN "skipped" ELSE "pending"
      BY <1>0, <1>5, <2>1 DEF Shapes, StepsShape, Rows, NoneRuns, At
    <2>4. At("completed")' = At("completed") /\ At("completed") = 1 .. run.done
      <3>1. At("completed") = 1 .. run.done
        BY <1>0, CompletedAre DEF Shapes
      <3>2. At("completed")' = At("completed")
        BY <2>2, <2>3 DEF At
      <3>3. QED
        BY <3>1, <3>2
    <2>5. CASE pc[p] = "completeTeam"
      <3>1. run.kind = "team" /\ \E i \in At("completed") : steps[i].marker
        BY <1>0, <2>5 DEF Placed, At
      <3>2. At("completed")' \cup At("skipped")' = DOMAIN steps'
        BY <2>2, <2>3, <2>5 DEF At
      <3>3. \E i \in At("completed") : steps'[i].marker
        BY <2>2, <3>1 DEF At
      <3>4. Result(p) = At("completed")
        BY <2>1, <2>4, <3>1 DEF Result
      <3>5. (\E i \in At("completed") : steps[i].marker)'
        BY <2>4, <3>3
      <3>6. QED
        BY <1>0, <1>1, <1>5, <2>2, <2>4, <3>1, <3>2, <3>4, <3>5 DEF EndedShape, Rows
    <2>6. CASE pc[p] = "completeRun"
      <3>1. At("completed") = DOMAIN steps
        BY <1>0, <2>1, <2>6 DEF Undisturbed
      <3>2. run.done = Len(steps) /\ Len(steps) \in Nat \ {0}
        <4>1. 1 \in 1 .. run.done /\ 1 .. run.done = 1 .. Len(steps)
          BY <1>0, <2>4, <3>1 DEF Rows
        <4>2. run.done \in 1 .. Len(steps) /\ Len(steps) \in 1 .. run.done
          BY <1>0, <4>1
        <4>3. QED
          BY <1>0, <4>2
      <3>3. Result(p) = IF run.kind \in {"parallel", "team"} THEN At("completed") ELSE {Len(steps)}
        BY <2>1, <2>4, <3>2, LatestOne DEF Result
      <3>4. At("skipped")' = {} /\ At("completed")' = DOMAIN steps' /\ Len(steps') = Len(steps)
        <4>1. \A i \in DOMAIN steps : steps'[i].status = "completed"
          BY <2>3, <3>1 DEF At
        <4>2. steps' \in Seq(Step)
          BY <1>3 DEF SameSteps
        <4>3. Len(steps') \in Nat /\ 1 .. Len(steps') = 1 .. Len(steps)
          BY <1>0, <2>2, <4>2, StepsSeq
        <4>4. Len(steps') = Len(steps)
          <5>1. 1 \in 1 .. Len(steps')
            BY <3>2, <4>3
          <5>2. Len(steps) \in 1 .. Len(steps') /\ Len(steps') \in 1 .. Len(steps)
            BY <3>2, <4>3, <5>1
          <5>3. QED
            BY <3>2, <4>3, <5>2
        <4>5. QED
          BY <2>2, <4>1, <4>4 DEF At
      <3>5. QED
        BY <1>0, <1>1, <1>5, <2>2, <2>4, <3>1, <3>3, <3>4 DEF EndedShape, Rows
    <2>7. QED
      BY <1>1, <2>5, <2>6
  <1>6. QED
    BY <1>3, <1>4, <1>5

LEMMA WorkerEnd ==
    ASSUME NEW p, Procs = {p}, WorkerActs(p), CalmInv
    PROVE  EndedShape'
  <1>0. /\ Rows /\ DOMAIN jobs \subseteq Nat /\ p \in Procs /\ work[p] \in Work
        /\ RefInv /\ Shapes /\ Placed(p) /\ Undisturbed(p) /\ EndedShape
        /\ pc[p] \in ChosenPc => work[p].step \in DOMAIN steps
    BY WorkerExists DEF CalmInv, OneInv
  <1>1. CASE Execute(p)
    <2>1. pc[p] = "execute" /\ UNCHANGED <<run, steps>>
      BY <1>1 DEF Execute, tables
    <2>2. run.high => run.approved
      BY <1>0, <2>1 DEF Undisturbed, TryPc
    <2>3. \A s : At(s)' = At(s)
      BY <2>1 DEF At
    <2>4. QED
      BY <1>0, <2>1, <2>2, <2>3 DEF EndedShape, Exists
  <1>2. ~Execute(p) => UNCHANGED effects
    BY DEF WorkerActs, WorkerStep, WorkerFault, Claim, Check, ClaimRun, AskWait, Approve, Prepare,
       Reread, ListSteps, Pick, Deadlock, Start, Progress, StepFails, Commit, Complete, Stop,
       Settle, tables
  <1>3. CASE Approve(p)
    <2>1. /\ UNCHANGED <<steps, effects>> /\ work[p].job \in Nat /\ MarkApproved(work[p].job)
      BY <1>0, <1>3 DEF Approve, Work
    <2>2. CASE run' = run
      BY <1>0, <2>1, <2>2, UntouchedEnd
    <2>3. CASE run' # run
      <3>1. run' = [run EXCEPT !.approved = TRUE, !.status = "running"]
        BY <2>1, <2>3 DEF MarkApproved
      <3>2. ~Ended' /\ run'.approved /\ run'.high = run.high
        BY <1>0, <3>1 DEF Rows, Run, Ended, RunTerminal
      <3>3. QED
        BY <1>0, <2>1, <3>2, OpenShape DEF Rows
    <2>4. QED
      BY <2>2, <2>3
  <1>4. CASE Prepare(p)
    <2>1. PrepareResume(work[p].job) /\ UNCHANGED effects
      BY <1>4 DEF Prepare
    <2>2. /\ SameRun /\ SameSteps
          /\ \/ UNCHANGED <<run, steps>>
             \/ run'.status = "running"
             \/ /\ Owns(work[p].job) /\ ~Prepares(work[p].job) /\ run'.status = "failed"
                /\ \A i \in DOMAIN steps :
                      steps'[i].status = IF i \in At("running") /\ Spent(i) THEN "failed"
                                         ELSE steps[i].status
      BY <1>0, <2>1, Preparing DEF Rows
    <2>3. CASE run'.status = "running"
      BY <1>0, <2>1, <2>2, <2>3, OpenShape DEF SameRun, Revised, Rows, Ended, RunTerminal
    <2>4. CASE /\ Owns(work[p].job) /\ ~Prepares(work[p].job) /\ run'.status = "failed"
               /\ \A i \in DOMAIN steps :
                     steps'[i].status = IF i \in At("running") /\ Spent(i) THEN "failed"
                                        ELSE steps[i].status
      <3>1. PICK i \in At("running") : Spent(i)
        BY <2>4 DEF Prepares
      <3>2. At("failed")' # {}
        BY <2>2, <2>4, <3>1 DEF At, SameSteps
      <3>3. QED
        BY <1>0, <2>1, <2>2, <2>4, <3>2 DEF EndedShape, SameRun, Revised, Rows
    <2>5. QED
      BY <1>0, <2>1, <2>2, <2>3, <2>4, UntouchedEnd
  <1>5. CASE Start(p)
    <2> DEFINE i == work[p].step
    <2>1. /\ UNCHANGED effects /\ StartStep(i, Input(p, i)) /\ i \in DOMAIN steps
          /\ Input(p, i) \in SUBSET Nat
      BY <1>0, <1>5, InputTyped DEF Start, ChosenPc
    <2>2. /\ SameRun /\ DOMAIN steps' = DOMAIN steps
          /\ \/ UNCHANGED <<run, steps>>
             \/ run'.status = "running"
             \/ run'.status = "failed" /\ steps'[i].status = "failed"
      BY <1>0, <2>1, Starting DEF Rows
    <2>3. CASE run'.status = "running"
      BY <1>0, <2>1, <2>2, <2>3, OpenShape DEF SameRun, Revised, Rows, Ended, RunTerminal
    <2>4. CASE run'.status = "failed" /\ steps'[i].status = "failed"
      <3>1. At("failed")' # {}
        BY <2>1, <2>2, <2>4 DEF At
      <3>2. QED
        BY <1>0, <2>1, <2>2, <2>4, <3>1 DEF EndedShape, SameRun, Revised, Rows
    <2>5. QED
      BY <1>0, <2>1, <2>2, <2>3, <2>4, UntouchedEnd
  <1>6. CASE StepFails(p)
    <2> DEFINE i == work[p].step
    <2>1. /\ UNCHANGED effects /\ FailStep(i) /\ i \in DOMAIN steps
          /\ steps[i].status = "running" \/ run.stopped
      BY <1>0, <1>6 DEF StepFails, ChosenPc, Undisturbed, TryPc
    <2>2. /\ SameRun /\ SameSteps /\ run'.status = "failed" /\ run'.stopped = run.stopped
          /\ steps[i].status = "running" => steps'[i].status = "failed"
      BY <1>0, <2>1, Failing DEF Rows
    <2>3. At("failed")' # {} \/ run'.stopped
      BY <2>1, <2>2 DEF At, SameSteps
    <2>4. QED
      BY <1>0, <2>1, <2>2, <2>3 DEF EndedShape, SameRun, Revised, Rows
  <1>7. CASE Commit(p)
    <2> DEFINE i == work[p].step
    <2>1. PICK marker \in BOOLEAN : CompleteStep(i, marker)
      BY <1>7 DEF Commit
    <2>2. UNCHANGED effects /\ i \in DOMAIN steps
      BY <1>0, <1>7 DEF Commit, ChosenPc
    <2>3. CASE steps[i].status = "running"
      <3>1. run'.approved = run.approved /\ ~Ended'
        BY <1>0, <2>1, <2>2, <2>3, CommitShape
      <3>2. run'.high = run.high
        BY <1>0, <2>1, <2>2, <2>3, Completing DEF Rows, Revised
      <3>3. QED
        BY <1>0, <2>2, <3>1, <3>2, OpenShape DEF Rows
    <2>4. CASE steps[i].status # "running"
      BY <1>0, <2>1, <2>2, <2>4, UntouchedEnd DEF CompleteStep, Same
    <2>5. QED
      BY <2>3, <2>4
  <1>8. CASE Complete(p)
    BY <1>8, CompleteEnd
  <1>9. CASE UNCHANGED <<run, steps>> /\ ~Execute(p)
    BY <1>0, <1>2, <1>9, UntouchedEnd
  <1>10. CASE ~Execute(p) /\ (LinkMove \/ Cancel \/ MarkFailed)
    BY <1>0, <1>2, <1>10, LinkEnd, CancelEnd, FailedEnd
  <1>11. QED
    BY <1>0, <1>1, <1>3, <1>4, <1>5, <1>6, <1>7, <1>8, <1>9, <1>10, WorkerTables

-----------------------------------------------------------------------------
(* Without repeated create_run calls: the invariant, and what follows. *)

LEMMA CalmInit ==
    ASSUME Init, OneInv PROVE CalmInv
  <1>1. ~Exists /\ \A p \in Procs : pc[p] = "down" /\ phase[p] = "down" /\ work[p] = Idle
    BY DEF Init, Exists, NoRun, Threads
  <1>2. \A t \in Callers : pc[t] = "down"
    BY DEF Init, Threads
  <1>3. EndedShape
    BY <1>1 DEF EndedShape
  <1>4. \A p \in Procs : CallersFit(p)
    BY <1>1, <1>2 DEF CallersFit, DownFit, BuildFit, ServeFit
  <1>5. \A p \in Procs : HoldsRunning(p) /\ Undisturbed(p)
    BY <1>1 DEF HoldsRunning, Undisturbed, Idle, EarlyPc, LoopPc, TryPc
  <1>6. QED
    BY <1>3, <1>4, <1>5 DEF CalmInv

LEMMA CalmStep ==
    ASSUME NEW p, Procs = {p}, ~Recreates, CalmInv, [Next]_vars PROVE CalmInv'
  <1>0. OneInv /\ OneInv' /\ RefInv /\ p \in Procs /\ CallersFit(p) /\ HoldsRunning(p) /\ EndedShape
    BY OneStep DEF CalmInv, OneInv
  <1>1. HoldsRunning(p)'
    BY <1>0, HoldsStep
  <1>2. CallersFit(p)' /\ Undisturbed(p)'
    <2>1. ASSUME NEW t \in Callers, CallerActs(t) PROVE CallersFit(p)' /\ Undisturbed(p)'
      BY <2>1, CallersKept, CallerDisturbs
    <2>2. CASE WorkerActs(p)
      BY <2>2, WorkerCallers, WorkerDisturbs
    <2>3. CASE LifeActs(p) \/ ClaimFault(p) \/ UNCHANGED vars
      BY <2>3, LifeCallers, LifeDisturbs
    <2>4. QED
      BY <2>1, <2>2, <2>3, Actors
  <1>3. EndedShape'
    BY <1>0, AsideStep, AsideEnd, WorkerEnd
  <1>4. QED
    BY <1>0, <1>1, <1>2, <1>3 DEF CalmInv

\* The properties of a run and of its steps are what the invariants say.
LEMMA StepsFitEnd ==
    ASSUME OneInv, ~Recreates => EndedShape PROVE RunReflectsSteps
  <1>0. RefInv /\ Shapes
    BY DEF OneInv
  <1>1. CASE ~Exists
    BY <1>1 DEF RunReflectsSteps, StepsFitRun, ResultsFollow
  <1>2. CASE Exists
    <2>1. Rows
      BY <1>0, <1>2, RowsAre
    <2>2. run.done = Cardinality(At("completed"))
      BY <1>0, <2>1, CompletedAre DEF Shapes
    <2>3. Cardinality(At("running")) <= 1
      <3>1. \A i \in At("running") : i = run.done + 1
        BY <1>0, <1>2 DEF Shapes, StepsShape, At
      <3>2. CASE At("running") = {}
        BY <3>2, FS_EmptySet
      <3>3. CASE At("running") # {}
        <4>1. PICK k : At("running") = {k}
          BY <3>1, <3>3
        <4>2. QED
          BY <4>1, FS_Singleton
      <3>4. QED
        BY <3>2, <3>3
    <2>4. Ended => At("running") = {}
      BY <1>0, <1>2 DEF Shapes, StepsShape, At
    <2>5. run.stopped => Unfinished = {}
      BY <1>0, <1>2 DEF Shapes, StoppedShape, Unfinished, At
    <2>6. StepsFitRun
      BY <1>2, <2>2, <2>3, <2>4, <2>5 DEF StepsFitRun, EndedShape
    <2>7. run.kind = "chain" => \A i \in At("completed") \ {1} : steps[i].input = {i - 1}
      BY <1>0, <1>2 DEF Shapes, ChainShape, At
    <2>8. ResultsFollow
      BY <1>2, <2>7 DEF ResultsFollow, EndedShape
    <2>9. QED
      BY <2>6, <2>8 DEF RunReflectsSteps
  <1>3. QED
    BY <1>1, <1>2

LEMMA CalmAlways ==
    ASSUME OneProcess, ~Recreates PROVE Spec => []CalmInv
  <1>1. Init => CalmInv
    BY RefInit, OneInit, CalmInit
  <1>2. CalmInv /\ [Next]_vars => CalmInv'
    BY CalmStep DEF OneProcess
  <1>3. QED
    BY <1>1, <1>2, PTL DEF Spec

\* The run and its steps tell one story, and a chain and a completed run use
\* the results their steps have: whatever the number of steps, callers,
\* crashes, faults and cancellations, with one process.  (What RunReflectsSteps
\* says of runs for which create_run is repeated is its chain part alone.)
THEOREM RunIsItsSteps ==
    ASSUME OneProcess PROVE Spec => []RunReflectsSteps
  <1>1. CASE Recreates
    <2>1. OneInv => RunReflectsSteps
      BY <1>1, StepsFitEnd
    <2>2. Spec => []OneInv
      BY OneAlways
    <2>3. QED
      BY <2>1, <2>2, PTL
  <1>2. CASE ~Recreates
    <2>1. CalmInv => RunReflectsSteps
      BY StepsFitEnd DEF CalmInv
    <2>2. Spec => []CalmInv
      BY <1>2, CalmAlways
    <2>3. QED
      BY <2>1, <2>2, PTL
  <1>3. QED
    BY <1>1, <1>2

-----------------------------------------------------------------------------
(* Run and job agree, when nothing raises and callers use neither the job  *)
(* commands nor create_run again.                                          *)

\* The constructor has recovered the jobs, or the service takes calls.
Up(p) == phase[p] \in {"serving", "running"}

Linked == run.job = run.rev /\ run.rev \in DOMAIN jobs

JobIs(states) == run.rev \in DOMAIN jobs /\ jobs[run.rev].status \in states

\* Some caller is about to take this step for the present revision.
SeenTo(label) == \E t \in Callers : pc[t] = label /\ seen[t].rev = run.rev

\* Who sees to the job of a run that has not ended.
Seen(p) ==
    \/ /\ phase[p] = "running" /\ run.rev \notin DOMAIN jobs
       /\ SeenTo("enqueue")
    \/ /\ phase[p] = "running" /\ run.job = NoJob
       /\ JobIs({"queued", "running"}) /\ SeenTo("link")
    \/ Linked /\ JobIs({"queued", "running"})
    \/ Linked /\ JobIs({"waiting_approval"}) /\ run.status = "waiting_approval"
    \/ Linked /\ \E t \in Callers : pc[t] = "withdraw"
    \/ Linked /\ phase[p] = "serving" /\ pc[Main[p]] \in {"list", "look"}
    \/ /\ Linked /\ phase[p] = "serving" /\ JobIs({"waiting_approval"})
       /\ pc[Main[p]] = "markWaiting"
    \/ Linked /\ phase[p] = "serving" /\ pc[Main[p]] = "markFailed"

\* reconcile has linked the run to its job before recover_interrupted.
Built(p) ==
    /\ phase[p] = "starting" /\ pc[Main[p]] \notin {"list", "enqueue", "link", "markFailed"}
    /\ Exists /\ ~Ended
    => Linked

\* A job that runs is held by the worker.
AllHeld(p) ==
    Up(p) => \A v \in DOMAIN jobs : jobs[v].status = "running" => work[p].job = v

\* What the worker leaves of its job, it leaves of the run.
Left(p) ==
    /\ pc[p] \in {"finish", "cancel", "fail"} /\ work[p].job = run.rev => Ended
    /\ pc[p] = "pause" =>
          run.stopped \/ (Owns(work[p].job) /\ run.status = "waiting_approval")

\* Nobody answers for the job of a run that the worker is at work on.
AtWork(p) ==
    pc[p] \in WorkPc \cup {"stop"} =>
        run.stopped \/ run.rev \notin DOMAIN jobs \/ JobIs({"queued", "running"})

\* A request to cancel a job comes after the run was cancelled.
CancelFits ==
    /\ \A t \in Callers : pc[t] = "cancelJob" => run.stopped
    /\ JobIs({"running"}) /\ jobs[run.rev].cancel => run.stopped

\* An answer is given to the job that waits, or comes too late.
AnswersFit(p) ==
    phase[p] = "running" =>
        \A t \in Callers :
            /\ pc[t] \in {"approveJob", "rejectJob"}
                  /\ jobs[seen[t].job].status = "waiting_approval" =>
                  run.stopped \/ (Owns(seen[t].job))
            /\ pc[t] = "withdraw" =>
                  run.stopped \/ (~Ended /\ JobIs({"cancelled"}))

\* Before the first crash or close.
FirstLife(p) ==
    lives = 0 =>
        /\ \A v \in DOMAIN jobs : jobs[v].status = "waiting_approval" =>
              \/ Owns(v)
              \/ run.stopped /\ \E t \in Callers : pc[t] = "cancelJob" /\ seen[t].job = v
        /\ pc[p] \in EarlyPc \cup {"pause"} /\ run.stopped =>
              \/ jobs[work[p].job].cancel
              \/ \E t \in Callers : pc[t] = "cancelJob" /\ seen[t].job = work[p].job

\* Nothing has been closed or has crashed, and a run is made by a service that
\* is up.
Fresh(p) == lives = 0 => phase[p] # "closing" /\ (phase[p] # "running" => ~Exists)

\* The service is about to take calls once it has recovered the jobs.
ReadyFit(p) == pc[Main[p]] = "ready" => phase[p] = "serving"

\* A job that waits can be answered: it may be run again, or cancelled.
GoesOn(r) ==
    /\ r.attempts <= r.max
    /\ r.status = "waiting_approval" => r.attempts < r.max /\ ~r.cancel

RowsGoOn == \A v \in DOMAIN jobs : GoesOn(jobs[v])

Owned(p) ==
    /\ Fresh(p) /\ ReadyFit(p) /\ RowsGoOn
    /\ Exists =>
          /\ CancelFits /\ Built(p) /\ AllHeld(p) /\ AnswersFit(p) /\ FirstLife(p)
          /\ Up(p) => Left(p) /\ AtWork(p)
          /\ Up(p) /\ ~Ended => Seen(p)

LEMMA RowGoesOn ==
    ASSUME NEW r \in J!Row, GoesOn(r), NEW b \in BOOLEAN, NEW s,
           s \in {J!RequestCancel(r), J!ResolveApproval(r, b), J!Recover(r, FALSE),
                  J!Complete(r), J!WaitForApproval(r), J!MarkCancelled(r), J!Fail(r, FALSE)}
    PROVE  GoesOn(s)
  <1>0. /\ r.attempts \in Nat /\ r.max \in Nat \ {0} /\ r.cancel \in BOOLEAN
        /\ r.status \in J!Status /\ r = [r EXCEPT !.status = r.status]
    BY RowNats DEF J!Row
  <1>1. CASE s = J!RequestCancel(r)
    BY <1>0, <1>1 DEF GoesOn, J!RequestCancel, J!Cancelled, J!Row
  <1>2. CASE s = J!ResolveApproval(r, b)
    BY <1>0, <1>2 DEF GoesOn, J!ResolveApproval, J!Cancelled, J!Failed, J!Row
  <1>3. CASE s = J!Recover(r, FALSE)
    BY <1>0, <1>3 DEF GoesOn, J!Recover, J!Cancelled, J!Failed, J!Row
  <1>4. CASE s = J!Complete(r)
    BY <1>0, <1>4 DEF GoesOn, J!Complete, J!Cancelled, J!Row
  <1>5. CASE s = J!WaitForApproval(r)
    <2> DEFINE n == IF r.attempts > 0 THEN r.attempts - 1 ELSE 0
    <2>1. n <= r.max /\ n < r.max
      BY <1>0 DEF GoesOn
    <2>2. \/ s = r
          \/ s = [r EXCEPT !.status = "cancelled", !.cancel = TRUE]
          \/ ~r.cancel /\ s = [r EXCEPT !.status = "waiting_approval", !.attempts = n,
                                        !.approval = "none", !.pauses = @ + 1]
      BY <1>5 DEF J!WaitForApproval, J!Cancelled
    <2>3. QED
      BY <2>1, <2>2 DEF GoesOn, J!Row
  <1>6. CASE s = J!MarkCancelled(r)
    BY <1>0, <1>6 DEF GoesOn, J!MarkCancelled, J!Cancelled, J!Row
  <1>7. CASE s = J!Fail(r, FALSE)
    BY <1>0, <1>7 DEF GoesOn, J!Fail, J!Cancelled, J!Failed, J!Row
  <1>8. QED
    BY <1>1, <1>2, <1>3, <1>4, <1>5, <1>6, <1>7

LEMMA RowClaimGoesOn ==
    ASSUME NEW r \in J!Row, J!Claimable(r) PROVE GoesOn(J!Claim(r))
  <1>1. r.attempts \in Nat /\ r.max \in Nat /\ r.attempts < r.max
    BY RowNats DEF J!Claimable, J!Row
  <1>2. J!Claim(r).attempts = r.attempts + 1 /\ J!Claim(r).max = r.max /\ J!Claim(r).status = "running"
    BY DEF J!Claim, J!Row
  <1>3. QED
    BY <1>1, <1>2 DEF GoesOn

LEMMA RowNewGoesOn ==
    ASSUME NEW v PROVE GoesOn(J!NewRow("run", v, Attempts, TRUE))
  BY OrchestrationAssumption DEF GoesOn, J!NewRow

-----------------------------------------------------------------------------
(* Run and job agree: what a caller's step leaves of it. *)

\* The steps that no fault, job command or repeated create_run is part of.
Calm(t) == CallerActs(t) /\ ~Recreates /\ ~JobCalls /\ faults' = faults

\* What a caller at a label does next.
LEMMA CallerAt ==
    ASSUME NEW t \in Callers, Calm(t), RefInv
    PROVE  /\ pc[t] = "enqueue" => Enqueue(t) \/ EnqueueRefused(t)
           /\ pc[t] = "link" => Link(t)
           /\ pc[t] = "markWaiting" => NoteWaiting(t)
           /\ pc[t] = "markFailed" => NoteFailed(t)
           /\ pc[t] = "withdraw" => Withdraw(t)
           /\ pc[t] = "cancelJob" => CancelItsJob(t)
           /\ pc[t] \in {"approveJob", "rejectJob"} => Answer(t)
           /\ pc[t] = "list" => List(t)
           /\ pc[t] = "look" => Look(t)
           /\ pc[t] = "idle" => Create(t) \/ CancelRun(t) \/ Resolve(t) \/ Resume(t)
           /\ pc[t] \in {"idle", "list", "look"} \cup Calling
  <1>1. ~CallFault(t)
    BY DEF Calm, CallFault, Fault, RefInv, TypeOK
  <1>3. \A v \in DOMAIN jobs : ~CancelJob(t, v) /\ ~ResolveJob(t, v)
    BY DEF Calm, CancelJob, ResolveJob
  <1>4. ~CreateAgain(t)
    BY DEF Calm, CreateAgain
  <1>5. \/ Create(t) \/ CancelRun(t) \/ Resolve(t) \/ Resume(t)
        \/ CallerStep(t) \/ List(t) \/ Look(t) \/ EnqueueRefused(t)
    BY <1>1, <1>3, <1>4 DEF Calm, CallerActs, CallerCalls, ThreadStep
  <1>6. QED
    BY <1>5 DEF CallerStep, Enqueue, Link, NoteWaiting, NoteFailed, Withdraw, CancelItsJob, Answer,
         List, Look, Create, CancelRun, Resolve, Resume, IdleCaller, Calling, EnqueueRefused

\* Where a caller goes.
LEMMA CallerTakes ==
    ASSUME NEW t \in Callers, RefInv, NEW label, NEW copy, Take(t, label, copy)
    PROVE  pc'[t] = label /\ seen'[t] = copy
  BY DEF Take, Goto, RefInv, TypeOK, Threads

LEMMA CallerDone ==
    ASSUME NEW t \in Callers, RefInv, Done(t)
    PROVE  pc'[t] \in {"recover", "ready", "idle"} /\ seen'[t] = NoCopy
  <1>1. pc'[t] = Return(t) /\ seen'[t] = NoCopy
    BY DEF Done, Take, Goto, RefInv, TypeOK, Threads
  <1>2. QED
    BY <1>1 DEF Return

\* What a caller's step makes of the rows of jobs.
CallerRow(t, v) ==
    \/ /\ jobs'[v] = jobs[v]
       /\ pc[t] = "cancelJob" /\ v = seen[t].job =>
             jobs[v].status # "waiting_approval" /\ (jobs[v].status = "running" => jobs[v].cancel)
       /\ pc[t] \in {"approveJob", "rejectJob"} /\ v = seen[t].job =>
             jobs[v].status # "waiting_approval"
    \/ /\ pc[t] = "cancelJob" /\ v = seen[t].job
       /\ \/ jobs[v].status # "running" /\ jobs'[v].status = "cancelled"
          \/ jobs[v].status = "running" /\ jobs'[v].status = "running" /\ jobs'[v].cancel
    \/ /\ pc[t] = "approveJob" /\ v = seen[t].job
       /\ jobs[v].status = "waiting_approval" /\ jobs'[v].status = "queued"
    \/ /\ pc[t] = "rejectJob" /\ v = seen[t].job
       /\ jobs[v].status = "waiting_approval" /\ jobs'[v].status = "cancelled"
       /\ pc'[t] = "withdraw"

LEMMA CallerRows ==
    ASSUME NEW t \in Callers, Calm(t), RefInv, RowsGoOn
    PROVE  /\ \A v \in DOMAIN jobs : CallerRow(t, v)
           /\ \A v \in DOMAIN jobs' \ DOMAIN jobs : jobs'[v].status = "queued"
           /\ RowsGoOn'
  <1>0. /\ \A v \in DOMAIN jobs : jobs[v] \in J!Row /\ GoesOn(jobs[v])
        /\ pc[t] \in LinkedPc => seen[t].job \in DOMAIN jobs
    BY DEF RefInv, TypeOK, RowsGoOn, CopiesFit
  <1>1. CASE pc[t] = "enqueue"
    <2>1. \/ UNCHANGED jobs
          \/ /\ seen[t].rev \notin DOMAIN jobs
             /\ Put(seen[t].rev, J!NewRow("run", seen[t].rev, Attempts, TRUE))
      BY <1>1, CallerAt DEF Enqueue, EnqueueRefused, CallerRaises, tables
    <2>2. CASE UNCHANGED jobs
      BY <1>0, <1>1, <2>2 DEF CallerRow, RowsGoOn
    <2>3. CASE /\ seen[t].rev \notin DOMAIN jobs
               /\ Put(seen[t].rev, J!NewRow("run", seen[t].rev, Attempts, TRUE))
      <3>1. /\ DOMAIN jobs' = DOMAIN jobs \cup {seen[t].rev}
            /\ \A i \in DOMAIN jobs : jobs'[i] = jobs[i]
            /\ jobs'[seen[t].rev].status = "queued" /\ GoesOn(jobs'[seen[t].rev])
        <4>1. /\ DOMAIN jobs' = DOMAIN jobs \cup {seen[t].rev}
              /\ jobs'[seen[t].rev] = J!NewRow("run", seen[t].rev, Attempts, TRUE)
              /\ \A i \in DOMAIN jobs \ {seen[t].rev} : jobs'[i] = jobs[i]
          BY <2>3, PutFacts
        <4>2. GoesOn(jobs'[seen[t].rev]) /\ jobs'[seen[t].rev].status = "queued"
          BY <4>1, RowNewGoesOn DEF J!NewRow
        <4>3. QED
          BY <2>3, <4>1, <4>2
      <3>2. QED
        BY <1>0, <1>1, <3>1 DEF CallerRow, RowsGoOn
    <2>4. QED
      BY <2>1, <2>2, <2>3
  <1>2. CASE pc[t] = "cancelJob"
    <2> DEFINE w == seen[t].job
    <2>1. w \in DOMAIN jobs /\ Put(w, J!RequestCancel(jobs[w]))
      BY <1>0, <1>2, CallerAt DEF CancelItsJob, LinkedPc
    <2>2. /\ DOMAIN jobs' = DOMAIN jobs /\ jobs'[w] = J!RequestCancel(jobs[w])
          /\ \A i \in DOMAIN jobs \ {w} : jobs'[i] = jobs[i]
      <3> HIDE DEF w
      <3>1. /\ DOMAIN jobs' = DOMAIN jobs \cup {w} /\ jobs'[w] = J!RequestCancel(jobs[w])
            /\ \A i \in DOMAIN jobs \ {w} : jobs'[i] = jobs[i]
        BY <2>1, PutFacts
      <3>2. QED
        BY <2>1, <3>1
    <2>3. jobs[w] \in J!Row /\ GoesOn(jobs[w])
      BY <1>0, <2>1
    <2>4. GoesOn(jobs'[w])
      BY <2>2, <2>3, RowGoesOn
    <2>5. CallerRow(t, w)
      BY <1>2, <2>2, <2>3
         DEF CallerRow, J!RequestCancel, J!Cancelled, J!Exists, J!Row, J!Status, J!Terminal, GoesOn
    <2>6. QED
      BY <1>0, <1>2, <2>2, <2>4, <2>5 DEF CallerRow, RowsGoOn
  <1>3. CASE pc[t] \in {"approveJob", "rejectJob"}
    <2> DEFINE w == seen[t].job
    <2> DEFINE b == pc[t] = "approveJob"
    <2>1. w \in DOMAIN jobs /\ Put(w, J!ResolveApproval(jobs[w], b))
      BY <1>0, <1>3, CallerAt DEF Answer, LinkedPc
    <2>2. /\ DOMAIN jobs' = DOMAIN jobs /\ jobs'[w] = J!ResolveApproval(jobs[w], b)
          /\ \A i \in DOMAIN jobs \ {w} : jobs'[i] = jobs[i]
      <3> HIDE DEF w
      <3>1. /\ DOMAIN jobs' = DOMAIN jobs \cup {w} /\ jobs'[w] = J!ResolveApproval(jobs[w], b)
            /\ \A i \in DOMAIN jobs \ {w} : jobs'[i] = jobs[i]
        BY <2>1, PutFacts
      <3>2. QED
        BY <2>1, <3>1
    <2>3. jobs[w] \in J!Row /\ GoesOn(jobs[w]) /\ b \in BOOLEAN
      BY <1>0, <2>1
    <2>4. GoesOn(jobs'[w])
      BY <2>2, <2>3, RowGoesOn
    <2>5. CASE jobs[w].status # "waiting_approval"
      <3>1. jobs'[w] = jobs[w]
        BY <2>2, <2>5 DEF J!ResolveApproval
      <3>2. QED
        BY <1>0, <1>3, <2>2, <2>5, <3>1 DEF CallerRow, RowsGoOn
    <2>6. CASE jobs[w].status = "waiting_approval" /\ b
      <3>1. jobs'[w].status = "queued"
        BY <2>2, <2>3, <2>6 DEF J!ResolveApproval, J!Row, GoesOn
      <3>2. QED
        BY <1>0, <1>3, <2>2, <2>4, <2>6, <3>1 DEF CallerRow, RowsGoOn
    <2>7. CASE jobs[w].status = "waiting_approval" /\ ~b
      <3>1. jobs'[w].status = "cancelled"
        BY <2>2, <2>3, <2>7 DEF J!ResolveApproval, J!Cancelled, J!Row
      <3>2. pc[t] = "rejectJob" /\ Take(t, "withdraw", seen[t])
        BY <1>3, <2>7, CallerAt DEF Answer
      <3>3. pc'[t] = "withdraw"
        BY <3>2, CallerTakes
      <3>4. QED
        BY <1>0, <2>2, <2>4, <2>7, <3>1, <3>2, <3>3 DEF CallerRow, RowsGoOn
    <2>8. QED
      BY <2>5, <2>6, <2>7
  <1>4. CASE pc[t] \notin {"enqueue", "cancelJob", "approveJob", "rejectJob"}
    <2>1. UNCHANGED jobs
      BY <1>4, CallerAt
         DEF Calling, Link, NoteWaiting, NoteFailed, Withdraw, List, Look, Create, CancelRun, Resolve,
             Resume, tables
    <2>2. QED
      BY <1>0, <1>4, <2>1 DEF CallerRow, RowsGoOn
  <1>5. QED
    BY <1>1, <1>2, <1>3, <1>4

\* What a caller's step makes of the run.
CallerRun(t) ==
    \/ UNCHANGED run
    \/ /\ ~Ended /\ pc[t] \in {"link", "markWaiting"} /\ UNCHANGED jobs
       /\ run'.rev = run.rev /\ run'.job = run.rev /\ run'.stopped = run.stopped
       /\ run'.status \in {run.status, "waiting_approval"} /\ ~Ended'
    \/ /\ ~Ended /\ pc[t] \in {"idle", "withdraw"} /\ UNCHANGED jobs
       /\ run'.rev = run.rev /\ run'.job = run.job /\ run'.stopped /\ Ended'
       /\ pc[t] = "idle" /\ run.job # NoJob => pc'[t] = "cancelJob" /\ seen'[t].job = run.job
    \/ /\ ~Ended /\ pc[t] = "markFailed" /\ UNCHANGED jobs
       /\ run'.rev = run.rev /\ run'.job = run.job /\ run'.stopped = run.stopped /\ Ended'
    \/ /\ Ended /\ pc[t] = "idle" /\ UNCHANGED jobs
       /\ run'.rev = run.rev + 1 /\ ~run'.stopped /\ ~Ended'
       /\ pc'[t] = "enqueue" /\ seen'[t].rev = run'.rev

LEMMA CallerRuns ==
    ASSUME NEW t \in Callers, Calm(t), RefInv, Shapes, Exists
    PROVE  CallerRun(t)
  <1>0. run \in Run /\ run.rev \in Nat \ {0} /\ Rows
    BY RowsAre DEF RefInv, Rows, Run
  <1>1. CASE pc[t] \in {"link", "markWaiting"}
    <2>1. UNCHANGED jobs /\ (ClaimJob(seen[t].rev) \/ MarkWaiting(seen[t].rev))
      BY <1>1, CallerAt DEF Link, NoteWaiting
    <2>2. CASE Claims(seen[t].rev)
      <3>1. /\ seen[t].rev = run.rev /\ ~Ended
            /\ \/ run' = [run EXCEPT !.job = run.rev]
               \/ run' = [run EXCEPT !.job = run.rev, !.status = "waiting_approval"]
        BY <2>1, <2>2 DEF ClaimJob, MarkWaiting, Claims
      <3>2. /\ run'.rev = run.rev /\ run'.job = run.rev /\ run'.stopped = run.stopped
            /\ run'.status \in {run.status, "waiting_approval"}
        BY <1>0, <3>1 DEF Run
      <3>3. ~Ended'
        BY <3>1, <3>2 DEF Ended, RunTerminal
      <3>4. QED
        BY <1>1, <2>1, <3>1, <3>2, <3>3 DEF CallerRun
    <2>3. QED
      BY <2>1, <2>2 DEF ClaimJob, MarkWaiting, CallerRun
  <1>2. CASE pc[t] \in {"idle", "withdraw"} /\ Cancel
    <2>1. UNCHANGED jobs
      BY <1>2, CallerAt DEF Withdraw, Create, CancelRun, Resolve, Resume, tables
    <2>2. CASE Ended
      BY <1>2, <2>2 DEF Cancel, Same, CallerRun
    <2>3. CASE ~Ended
      <3>1. run' = [run EXCEPT !.status = "cancelled", !.stopped = TRUE]
        BY <1>2, <2>3 DEF Cancel
      <3>2. run'.rev = run.rev /\ run'.job = run.job /\ run'.stopped /\ run'.status = "cancelled"
        BY <1>0, <3>1 DEF Run
      <3>3. Ended' /\ Exists'
        BY <3>2 DEF Ended, RunTerminal, Exists
      <3>4. ASSUME pc[t] = "idle", run.job # NoJob PROVE pc'[t] = "cancelJob" /\ seen'[t].job = run.job
        <4>1. CancelRun(t)
          BY <1>0, <3>2, <3>4, <2>3, CallerAt
             DEF Create, Resolve, Resume, tables, Ended, RunTerminal, Rows
        <4>2. Take(t, "cancelJob", CopyOf(run))
          BY <3>4, <4>1 DEF CancelRun
        <4>3. pc'[t] = "cancelJob" /\ seen'[t] = CopyOf(run)
          BY <4>2, CallerTakes
        <4>4. QED
          BY <4>3 DEF CopyOf
      <3>5. QED
        BY <1>2, <2>1, <2>3, <3>2, <3>3, <3>4 DEF CallerRun
    <2>4. QED
      BY <2>2, <2>3
  <1>3. CASE pc[t] = "markFailed"
    <2>1. UNCHANGED jobs /\ MarkFailed
      BY <1>3, CallerAt DEF NoteFailed
    <2>2. CASE Ended
      BY <2>1, <2>2 DEF MarkFailed, Same, CallerRun
    <2>3. CASE ~Ended
      <3>1. run' = [run EXCEPT !.status = "failed"]
        BY <2>1, <2>3 DEF MarkFailed, SetRun
      <3>2. /\ run'.rev = run.rev /\ run'.job = run.job /\ run'.stopped = run.stopped
            /\ run'.status = "failed"
        BY <1>0, <3>1 DEF Run
      <3>3. Ended'
        BY <3>2 DEF Ended, RunTerminal
      <3>4. QED
        BY <1>3, <2>1, <2>3, <3>2, <3>3 DEF CallerRun
    <2>4. QED
      BY <2>2, <2>3
  <1>4. CASE pc[t] = "idle" /\ Resume(t)
    <2>1. UNCHANGED jobs /\ run.status = "failed" /\ ResetFailed /\ Ensure(t, CopyOf(run'))
      BY <1>4 DEF Resume
    <2>2. PICK d : run' = [run EXCEPT !.status = "queued", !.rev = @ + 1, !.job = NoJob,
                                      !.stopped = FALSE, !.done = d, !.result = {}]
      BY <2>1 DEF ResetFailed
    <2>3. run'.status = "queued" /\ run'.rev = run.rev + 1 /\ ~run'.stopped
      BY <1>0, <2>2 DEF Run
    <2>4. Ended /\ ~Ended'
      BY <2>1, <2>3 DEF Ended, RunTerminal
    <2>5. Take(t, "enqueue", CopyOf(run'))
      BY <2>1, <2>3 DEF Ensure, CopyOf, RunTerminal
    <2>6. pc'[t] = "enqueue" /\ seen'[t] = CopyOf(run')
      BY <2>5, CallerTakes
    <2>7. seen'[t].rev = run'.rev
      BY <2>6 DEF CopyOf
    <2>8. QED
      BY <1>4, <2>1, <2>3, <2>4, <2>6, <2>7 DEF CallerRun
  <1>5. CASE UNCHANGED run
    BY <1>5 DEF CallerRun
  <1>6. QED
    BY <1>1, <1>2, <1>3, <1>4, <1>5, CallerAt
       DEF Enqueue, CancelItsJob, Answer, List, Look, Create, CancelRun, Resolve, Withdraw, Calling,
           Exists, tables, EnqueueRefused, CallerRaises

SettlePc == {"finish", "pause", "cancel", "fail"}

\* What the worker makes of the rows of jobs.
WorkerRow(p, v) ==
    \/ /\ jobs'[v] = jobs[v]
       /\ pc[p] = "poll" => v # work'[p].job
       /\ pc[p] \in SettlePc => v # work[p].job
    \/ /\ pc[p] = "poll" /\ v = work'[p].job /\ jobs[v].status = "queued"
       /\ jobs'[v].status = "running" /\ ~jobs'[v].cancel
    \/ /\ pc[p] \in SettlePc /\ v = work[p].job /\ jobs[v].status = "running"
       /\ jobs'[v].status \in J!Terminal \cup {"waiting_approval"}
       /\ jobs'[v].status = "waiting_approval" => pc[p] = "pause" /\ ~jobs[v].cancel

LEMMA WorkerRows ==
    ASSUME NEW p \in Procs, WorkerStep(p), RefInv, HoldsRunning(p), RowsGoOn
    PROVE  /\ DOMAIN jobs' = DOMAIN jobs /\ \A v \in DOMAIN jobs : WorkerRow(p, v)
           /\ RowsGoOn'
           /\ pc[p] \notin SettlePc \cup {"poll"} => UNCHANGED jobs /\ work'[p].job = work[p].job
           /\ pc[p] \in SettlePc \cup {"poll"} => UNCHANGED run
           /\ pc[p] = "poll" => work[p].job = NoJob /\ pc'[p] = "check0"
           /\ pc[p] \in SettlePc => pc'[p] = "poll" /\ work'[p].job = NoJob
  <1>0. /\ pc \in [Threads -> Pc] /\ p \in Threads /\ work \in [Procs -> Work]
        /\ DOMAIN jobs \subseteq Nat \ {0}
        /\ pc[p] # "poll" => work[p].job \in DOMAIN jobs /\ work[p].job # NoJob
        /\ \A v \in DOMAIN jobs : jobs[v] \in J!Row /\ Paid(jobs[v]) /\ GoesOn(jobs[v])
        /\ Busy(p) <=> work[p].job # NoJob
    BY WorkerExists DEF WorkerActs, RefInv, JobsPaid, RowsGoOn, Paid, ThreadsFit
  <1>1. CASE pc[p] = "poll"
    <2>1. Claim(p)
      BY <1>1, WorkerExists DEF WorkerActs
    <2>2. PICK v \in DOMAIN jobs :
             /\ J!Claimable(jobs[v]) /\ Put(v, J!Claim(jobs[v]))
             /\ Remember(p, [Idle EXCEPT !.job = v, !.granted = jobs[v].approval = "granted"])
      BY <2>1 DEF Claim
    <2>3. work'[p].job = v
      BY <1>0, <2>2 DEF Remember, Idle
    <2>4. /\ DOMAIN jobs' = DOMAIN jobs \cup {v} /\ jobs'[v] = J!Claim(jobs[v])
          /\ \A i \in DOMAIN jobs \ {v} : jobs'[i] = jobs[i]
      BY <2>2, PutFacts
    <2>5. DOMAIN jobs' = DOMAIN jobs
      BY <2>4
    <2>6. GoesOn(jobs'[v])
      BY <1>0, <2>2, <2>4, RowClaimGoesOn
    <2>7. /\ jobs[v].status = "queued" /\ jobs'[v].status = "running" /\ ~jobs'[v].cancel
      <3>1. jobs[v] \in J!Row
        BY <1>0
      <3>2. QED
        BY <2>2, <2>4, <3>1 DEF J!Claimable, J!Claim, J!Row
    <2>8. \A i \in DOMAIN jobs : WorkerRow(p, i)
      BY <1>1, <2>3, <2>4, <2>7 DEF WorkerRow, SettlePc
    <2>9. UNCHANGED run /\ pc'[p] = "check0" /\ work[p].job = NoJob
      BY <1>0, <1>1, <2>1 DEF Claim, Goto, Busy
    <2>10. QED
      BY <1>0, <1>1, <2>4, <2>5, <2>6, <2>8, <2>9 DEF RowsGoOn, SettlePc
  <1>2. CASE pc[p] \in SettlePc
    <2> DEFINE v == work[p].job
    <2>1. Settle(p)
      BY <1>2
         DEF WorkerStep, SettlePc, Claim, Check, ClaimRun, AskWait, Approve, Prepare, Reread, ListSteps,
             Pick, Deadlock, Start, Progress, Execute, StepFails, Commit, Complete, Stop
    <2>2. v \in DOMAIN jobs /\ jobs[v].status = "running"
      BY <1>0, <1>2 DEF SettlePc, HoldsRunning
    <2>3. Put(v, Settlement(p)) /\ UNCHANGED run /\ pc'[p] = "poll" /\ work'[p].job = NoJob
      BY <1>0, <2>1 DEF Settle, Goto, Remember, Idle
    <2>4. /\ Settlement(p) \in {J!Complete(jobs[v]), J!WaitForApproval(jobs[v]),
                                J!MarkCancelled(jobs[v]), J!Fail(jobs[v], FALSE)}
          /\ Settlement(p).status \in J!Terminal \cup {"waiting_approval"}
          /\ Settlement(p).status = "waiting_approval" => pc[p] = "pause" /\ ~jobs[v].cancel
      <3>1. jobs[v] \in J!Row
        BY <1>0, <2>2
      <3>2. CASE pc[p] = "finish"
        <4>1. Settlement(p) = J!Complete(jobs[v])
          BY <3>2 DEF Settlement, Held
        <4>2. QED
          BY <2>2, <3>1, <4>1 DEF J!Complete, J!Cancelled, J!Row, J!Terminal
      <3>3. CASE pc[p] = "pause"
        <4>1. Settlement(p) = J!WaitForApproval(jobs[v])
          BY <3>3 DEF Settlement, Held
        <4>2. QED
          BY <2>2, <3>1, <3>3, <4>1 DEF J!WaitForApproval, J!Cancelled, J!Row, J!Terminal
      <3>4. CASE pc[p] = "cancel"
        <4>1. Settlement(p) = J!MarkCancelled(jobs[v])
          BY <3>4 DEF Settlement, Held
        <4>2. QED
          BY <2>2, <3>1, <4>1 DEF J!MarkCancelled, J!Cancelled, J!Row, J!Terminal, J!Exists
      <3>5. CASE pc[p] = "fail"
        <4>1. Settlement(p) = J!Fail(jobs[v], FALSE)
          BY <3>5 DEF Settlement, Held
        <4>2. QED
          BY <2>2, <3>1, <4>1 DEF J!Fail, J!Cancelled, J!Failed, J!Row, J!Terminal
      <3>6. QED
        BY <1>2, <3>2, <3>3, <3>4, <3>5 DEF SettlePc
    <2>5. /\ DOMAIN jobs' = DOMAIN jobs /\ jobs'[v] = Settlement(p)
          /\ \A i \in DOMAIN jobs \ {v} : jobs'[i] = jobs[i]
      <3> HIDE DEF v
      <3>1. /\ DOMAIN jobs' = DOMAIN jobs \cup {v} /\ jobs'[v] = Settlement(p)
            /\ \A i \in DOMAIN jobs \ {v} : jobs'[i] = jobs[i]
        BY <2>3, PutFacts
      <3>2. QED
        BY <2>2, <3>1
    <2>6. GoesOn(jobs'[v])
      <3>1. jobs[v] \in J!Row /\ GoesOn(jobs[v]) /\ TRUE \in BOOLEAN
        BY <1>0, <2>2
      <3>2. QED
        BY <2>4, <2>5, <3>1, RowGoesOn
    <2>7. \A i \in DOMAIN jobs : WorkerRow(p, i)
      BY <1>2, <2>2, <2>4, <2>5 DEF WorkerRow, SettlePc
    <2>8. QED
      BY <1>0, <1>2, <2>3, <2>5, <2>6, <2>7 DEF RowsGoOn, SettlePc
  <1>3. CASE pc[p] \notin SettlePc \cup {"poll"}
    <2>1. UNCHANGED jobs
      BY <1>3
         DEF WorkerStep, SettlePc, Claim, Check, ClaimRun, AskWait, Approve, Prepare, Reread, ListSteps,
             Pick, Deadlock, Start, Progress, Execute, StepFails, Commit, Complete, Stop, Settle, tables
    <2>2. work'[p].job = work[p].job
      <3>1. work[p] \in Work
        BY <1>0
      <3>2. CASE ~ClaimRun(p) /\ ~ListSteps(p) /\ ~Pick(p)
        BY <1>3, <3>2
           DEF WorkerStep, SettlePc, Claim, Check, AskWait, Approve, Prepare, Reread,
               Deadlock, Start, Progress, Execute, StepFails, Commit, Complete, Stop, Settle, tables
      <3>3. CASE ClaimRun(p)
        BY <1>0, <3>1, <3>3 DEF ClaimRun, Remember, Work
      <3>4. CASE ListSteps(p)
        BY <1>0, <3>1, <3>4 DEF ListSteps, Remember, Work
      <3>5. CASE Pick(p)
        BY <1>0, <3>1, <3>5 DEF Pick, Remember, Work
      <3>6. QED
        BY <3>2, <3>3, <3>4, <3>5
    <2>3. QED
      BY <1>0, <1>3, <2>1, <2>2 DEF WorkerRow, RowsGoOn
  <1>4. QED
    BY <1>1, <1>2, <1>3

\* What the worker's step makes of the run.
LEMMA WorkerRuns ==
    ASSUME NEW p \in Procs, WorkerStep(p), CalmInv
    PROVE  /\ Rows /\ run'.rev = run.rev /\ run'.job \in {run.job, run.rev}
           /\ run.stopped => run'.stopped
           /\ Ended => Ended'
           /\ pc[p] # "stop" => run'.stopped = run.stopped
           /\ pc[p] \notin WorkPc \cup {"stop"} => run'.status = run.status
  <1>0. /\ RefInv /\ Shapes /\ Placed(p) /\ WorkerActs(p) /\ Rows
        /\ DOMAIN jobs \subseteq Nat \ {0} /\ RunFits
        /\ pc[p] # "poll" => work[p].job \in DOMAIN jobs
        /\ pc[p] \in ChosenPc => work[p].step \in DOMAIN steps
    BY WorkerExists DEF CalmInv, OneInv, WorkerActs, RefInv
  <1>1. /\ run'.rev = run.rev /\ (run.stopped => run'.stopped)
    BY <1>0, WorkerMove DEF Onwards
  <1>2. Ended => Ended'
    <2>1. UNCHANGED <<run, steps>> => (Ended => Ended')
      BY DEF Ended
    <2>2. QED
      BY <1>0, <2>1, EndedStays
  <1>3. run'.job \in {run.job, run.rev}
    <2>1. CreateMove => FALSE
      BY <1>0 DEF CreateMove, Rows
    <2>2. run.rev \in Nat
      BY <1>0 DEF Rows, Run
    <2>3. [Next]_vars
      BY <1>0 DEF WorkerActs, Next
    <2>4. QED
      BY <1>0, <1>1, <2>1, <2>2, <2>3, TablesMove DEF Lasts
  <1>4. CASE pc[p] = "claimRun"
    <2>1. ClaimJob(work[p].job) /\ work[p].job \in Nat
      BY <1>0, <1>4
         DEF WorkerStep, Claim, Check, ClaimRun, AskWait, Approve, Prepare, Reread, ListSteps,
             Pick, Deadlock, Start, Progress, Execute, StepFails, Commit, Complete, Stop, Settle
    <2>2. run'.status = run.status /\ run'.stopped = run.stopped
      BY <1>0, <2>1 DEF ClaimJob, Rows, Run
    <2>3. QED
      BY <1>0, <1>1, <1>2, <1>3, <2>2
  <1>5. CASE pc[p] \notin WorkPc \cup {"stop", "claimRun"}
    <2>1. UNCHANGED run
      BY <1>5
         DEF WorkerStep, WorkPc, EarlyPc, LoopPc, TryPc, Claim, Check, ClaimRun, AskWait, Approve,
             Prepare, Reread, ListSteps, Pick, Deadlock, Start, Progress, Execute, StepFails, Commit,
             Complete, Stop, Settle, tables
    <2>2. QED
      BY <1>0, <1>1, <1>2, <1>3, <2>1
  <1>6. CASE pc[p] \in WorkPc
    <2> SUFFICES run'.stopped = run.stopped
      BY <1>0, <1>1, <1>2, <1>3, <1>6
    <2>0. run \in Run /\ steps \in Seq(Step) /\ ~Stop(p) /\ work[p].job \in Nat
      BY <1>0, <1>6 DEF Rows, Stop, WorkPc, EarlyPc, LoopPc, TryPc
    <2>1. CASE AskWait(p)
      BY <2>0, <2>1, Linking DEF AskWait
    <2>2. CASE Approve(p)
      BY <2>0, <2>2, Approving DEF Approve
    <2>3. CASE Prepare(p)
      BY <2>0, <2>3, Preparing DEF Prepare
    <2>4. CASE Deadlock(p)
      BY <2>0, <2>4, MarkingFailed DEF Deadlock
    <2>5. CASE Start(p)
      <3>1. work[p].step \in DOMAIN steps /\ Input(p, work[p].step) \in SUBSET Nat
        BY <1>0, <2>5, InputTyped DEF Start, ChosenPc, RefInv, TypeOK, Rows
      <3>2. QED
        BY <2>0, <2>5, <3>1, Starting DEF Start
    <2>6. CASE StepFails(p)
      BY <2>0, <2>6, Failing DEF StepFails
    <2>7. CASE Commit(p)
      <3>1. PICK marker \in BOOLEAN : CompleteStep(work[p].step, marker)
        BY <2>7 DEF Commit
      <3>2. work[p].step \in DOMAIN steps
        BY <1>0, <2>7 DEF Commit, ChosenPc
      <3>3. CASE steps[work[p].step].status = "running"
        BY <2>0, <3>1, <3>2, <3>3, Completing
      <3>4. CASE steps[work[p].step].status # "running"
        BY <3>1, <3>4 DEF CompleteStep, Same
      <3>5. QED
        BY <3>3, <3>4
    <2>8. CASE Complete(p)
      BY <2>0, <2>8 DEF Complete, CompleteRun, Same, Run
    <2>9. CASE UNCHANGED run
      BY <2>9
    <2>10. QED
      BY <1>6, <2>0, <2>1, <2>2, <2>3, <2>4, <2>5, <2>6, <2>7, <2>8, <2>9
         DEF WorkPc, EarlyPc, LoopPc, TryPc, WorkerStep, Claim, Check, ClaimRun, Reread, ListSteps,
             Pick, Progress, Execute, Settle, tables
  <1>7. CASE pc[p] = "stop"
    BY <1>0, <1>1, <1>2, <1>3, <1>7
  <1>8. QED
    BY <1>4, <1>5, <1>6, <1>7

\* Where a caller goes.
LEMMA CallerGoes ==
    ASSUME NEW t \in Callers, Calm(t), RefInv
    PROVE  /\ pc'[t] = "cancelJob" => CancelRun(t)
           /\ pc'[t] \in {"approveJob", "rejectJob"} => Resolve(t) /\ seen'[t] = CopyOf(run)
           /\ pc'[t] = "withdraw" =>
                 \/ pc[t] = "rejectJob" /\ seen'[t] = seen[t]
                    /\ jobs[seen[t].job].status = "waiting_approval"
                 \/ Look(t) /\ jobs[seen[t].job].status = "cancelled"
  <1>1. ASSUME Done(t) PROVE pc'[t] \in {"recover", "ready", "idle"}
    BY <1>1, CallerDone
  <1>2. ASSUME NEW copy, Ensure(t, copy) PROVE pc'[t] \in {"recover", "ready", "idle", "enqueue"}
    BY <1>2, <1>1, CallerTakes DEF Ensure
  <1>3. CASE Enqueue(t)
    <2>1. \E label \in {"link", "markFailed"} : \E copy : Take(t, label, copy)
      BY <1>3 DEF Enqueue
    <2>2. pc'[t] \in {"link", "markFailed"}
      BY <2>1, CallerTakes
    <2>3. QED
      BY <2>2
  <1>4. CASE Answer(t)
    <2>1. \/ Done(t)
          \/ /\ Take(t, "withdraw", seen[t]) /\ pc[t] = "rejectJob"
             /\ jobs[seen[t].job].status = "waiting_approval"
      BY <1>4 DEF Answer
    <2>2. QED
      BY <1>1, <2>1, CallerTakes
  <1>5. CASE Create(t)
    <2>1. \E copy : Ensure(t, copy)
      BY <1>5 DEF Create
    <2>2. QED
      BY <1>2, <2>1
  <1>6. CASE Resume(t)
    BY <1>2, <1>6 DEF Resume
  <1>7. CASE CancelRun(t)
    <2>1. Done(t) \/ Take(t, "cancelJob", CopyOf(run))
      BY <1>7 DEF CancelRun
    <2>2. QED
      BY <1>1, <1>7, <2>1, CallerTakes
  <1>8. CASE Resolve(t)
    <2>1. \E label \in {"approveJob", "rejectJob"} : Take(t, label, CopyOf(run))
      BY <1>8 DEF Resolve
    <2>2. pc'[t] \in {"approveJob", "rejectJob"} /\ seen'[t] = CopyOf(run)
      BY <2>1, CallerTakes
    <2>3. QED
      BY <1>8, <2>2
  <1>9. CASE List(t)
    <2>1. Done(t) \/ \E label \in {"enqueue", "look"} : \E copy : Take(t, label, copy)
      BY <1>9 DEF List
    <2>2. pc'[t] \in {"recover", "ready", "idle", "enqueue", "look"}
      BY <1>1, <2>1, CallerTakes
    <2>3. QED
      BY <2>2
  <1>10. CASE Look(t)
    <2>1. \/ Done(t)
          \/ \E label \in {"markWaiting", "markFailed"} : Take(t, label, seen[t])
          \/ Take(t, "withdraw", seen[t]) /\ jobs[seen[t].job].status = "cancelled"
      BY <1>10 DEF Look
    <2>2. pc'[t] \in {"recover", "ready", "idle", "markWaiting", "markFailed"}
          \/ (pc'[t] = "withdraw" /\ jobs[seen[t].job].status = "cancelled")
      BY <1>1, <2>1, CallerTakes
    <2>3. QED
      BY <1>10, <2>2
  <1>11. CASE Link(t) \/ NoteWaiting(t) \/ NoteFailed(t) \/ Withdraw(t) \/ CancelItsJob(t)
              \/ EnqueueRefused(t)
    <2>1. Done(t)
      BY <1>11 DEF Link, NoteWaiting, NoteFailed, Withdraw, CancelItsJob, EnqueueRefused, CallerRaises
    <2>2. QED
      BY <1>1, <2>1
  <1>12. QED
    BY <1>3, <1>4, <1>5, <1>6, <1>7, <1>8, <1>9, <1>10, <1>11, CallerAt DEF Calling

\* All that a caller's step leaves, for a run there is.
LEMMA CallerFacts ==
    ASSUME NEW p, Procs = {p}, NEW t \in Callers, Calm(t), CalmInv, Owned(p), Exists
    PROVE  /\ RefInv /\ RefInv' /\ Shapes /\ Exists' /\ run.rev \in Nat \ {0} /\ run'.rev \in Nat \ {0}
           /\ CallerRun(t) /\ RowsGoOn'
           /\ \A v \in DOMAIN jobs : CallerRow(t, v)
           /\ \A v \in DOMAIN jobs' \ DOMAIN jobs : jobs'[v].status = "queued"
           /\ DOMAIN jobs \subseteq DOMAIN jobs' /\ DOMAIN jobs' \subseteq 1 .. run'.rev
           /\ DOMAIN jobs \subseteq 1 .. run.rev
           /\ run'.job \in {NoJob, run'.rev} /\ run.job \in {NoJob, run.rev}
           /\ run.stopped => run'.stopped
           /\ run.stopped => Ended
           /\ run'.stopped => Ended'
           /\ \A u \in Callers \ {t} : pc'[u] = pc[u] /\ seen'[u] = seen[u]
           /\ pc'[p] = pc[p] /\ work' = work /\ phase' = phase /\ lives' = lives
           /\ phase[p] \in {"starting", "serving", "running", "closing"}
           /\ work[p].job # NoJob => work[p].job \in DOMAIN jobs
           /\ work[p].job # NoJob => jobs[work[p].job].status = "running"
           /\ Busy(p) <=> work[p].job # NoJob
           /\ \A u \in Callers : pc[u] \in LinkedPc => seen[u].job \in DOMAIN jobs
                                                       /\ seen[u].job = seen[u].rev
  <1>0. /\ OneInv /\ RefInv /\ Shapes /\ HoldsRunning(p) /\ CallersFit(p) /\ p \in Procs /\ RowsGoOn
        /\ CallerActs(t) /\ [Next]_vars
    BY DEF CalmInv, OneInv, Owned, Calm, CallerActs, Next
  <1>1. OneInv'
    BY <1>0, OneStep
  <1>2. /\ RefInv' /\ Exists' /\ Shapes'
    BY <1>0, <1>1, RunStep DEF RunLasts, OneInv
  <1>3. /\ run \in Run /\ run' \in Run
    BY <1>0, <1>2 DEF RefInv, TypeOK, Exists, NoRun
  <1>4. /\ DOMAIN jobs \subseteq DOMAIN jobs'
        /\ DOMAIN jobs' \subseteq 1 .. run'.rev /\ DOMAIN jobs \subseteq 1 .. run.rev
        /\ run'.job \in {NoJob, run'.rev} /\ run.job \in {NoJob, run.rev}
    BY <1>0, <1>2, JobsStep DEF RefInv, RunFits, JobsGrow
  <1>5. /\ run.stopped => run'.stopped
        /\ run.stopped => Ended
        /\ run'.stopped => Ended'
    BY <1>0, <1>2, EndsKept DEF Shapes, StoppedShape, Ended, RunTerminal
  <1>6. lives' = lives
    BY <1>0
       DEF CallerActs, CallerCalls, Create, CreateAgain, CancelRun, Resolve, Resume, CancelJob,
           ResolveJob, ThreadStep, CallerStep, Enqueue, Link, NoteWaiting, NoteFailed, Withdraw,
           CancelItsJob, Answer, List, Look, EnqueueRefused, CallFault, Fault, bounds
  <1>7. phase[p] \in {"starting", "serving", "running", "closing"}
    BY <1>0, CallerWrites
  <1>8. /\ work[p].job # NoJob => work[p].job \in DOMAIN jobs
        /\ work[p].job # NoJob => jobs[work[p].job].status = "running"
        /\ Busy(p) <=> work[p].job # NoJob
        /\ \A u \in Callers : pc[u] \in LinkedPc => seen[u].job \in DOMAIN jobs
                                                    /\ seen[u].job = seen[u].rev
    BY <1>0 DEF RefInv, WorkFits, HoldsRunning, ThreadsFit, CopiesFit
  <1>9. /\ \A u \in Callers \ {t} : pc'[u] = pc[u] /\ seen'[u] = seen[u]
        /\ pc'[p] = pc[p] /\ work' = work /\ phase' = phase
    BY <1>0, CallerFrame
  <1>10. CallerRun(t)
    BY <1>0, CallerRuns
  <1>11. /\ \A v \in DOMAIN jobs : CallerRow(t, v)
         /\ \A v \in DOMAIN jobs' \ DOMAIN jobs : jobs'[v].status = "queued"
         /\ RowsGoOn'
    BY <1>0, CallerRows
  <1>12. run.rev \in Nat \ {0} /\ run'.rev \in Nat \ {0}
    BY <1>3 DEF Run
  <1>13. QED
    BY <1>0, <1>2, <1>4, <1>5, <1>6, <1>7, <1>8, <1>9, <1>10, <1>11, <1>12

\* The revision stays, unless the run is resumed; then it has no job yet.
LEMMA CallerRevises ==
    ASSUME NEW p, Procs = {p}, NEW t \in Callers, Calm(t), CalmInv, Owned(p), Exists
    PROVE  \/ run'.rev = run.rev /\ (Ended => Ended' /\ UNCHANGED run)
           \/ /\ Ended /\ ~Ended' /\ ~run'.stopped /\ UNCHANGED jobs /\ run'.rev \notin DOMAIN jobs
              /\ run'.rev = run.rev + 1 /\ pc[t] = "idle"
              /\ pc'[t] = "enqueue" /\ seen'[t].rev = run'.rev
  <1>1. /\ CallerRun(t) /\ DOMAIN jobs \subseteq 1 .. run.rev /\ run.rev \in Nat
    BY CallerFacts
  <1>2. run'.rev = run.rev + 1 => run'.rev \notin DOMAIN jobs
    BY <1>1
  <1>3. UNCHANGED run => (Ended => Ended')
    BY DEF Ended
  <1>4. QED
    BY <1>1, <1>2, <1>3 DEF CallerRun

LEMMA CallerCancels ==
    ASSUME NEW p, Procs = {p}, NEW t \in Callers, Calm(t), CalmInv, Owned(p), Exists
    PROVE  CancelFits'
  <1>0. /\ RefInv /\ Shapes /\ CancelFits
        /\ run.stopped => run'.stopped
        /\ \A u \in Callers \ {t} : pc'[u] = pc[u]
        /\ \A v \in DOMAIN jobs : CallerRow(t, v)
        /\ \A v \in DOMAIN jobs' \ DOMAIN jobs : jobs'[v].status = "queued"
        /\ DOMAIN jobs \subseteq DOMAIN jobs'
    BY CallerFacts DEF Owned
  <1>1. ASSUME NEW u \in Callers, pc'[u] = "cancelJob" PROVE run'.stopped
    <2>1. CASE u # t
      BY <1>0, <1>1, <2>1 DEF CancelFits
    <2>2. CASE u = t
      <3>1. CancelRun(t)
        BY <1>0, <1>1, <2>2, CallerGoes
      <3>2. Cancel /\ Rows /\ run.status \notin {"completed", "failed"}
        BY <1>0, <3>1, RowsAre DEF CancelRun
      <3>3. CASE Ended
        <4>1. run.status = "cancelled" /\ run' = run
          BY <3>2, <3>3 DEF Ended, RunTerminal, Cancel, Same
        <4>2. QED
          BY <1>0, <4>1 DEF Shapes, StoppedShape
      <3>4. CASE ~Ended
        BY <3>2, <3>4, Cancelling DEF Rows
      <3>5. QED
        BY <3>3, <3>4
    <2>3. QED
      BY <2>1, <2>2
  <1>2. ASSUME run'.rev \in DOMAIN jobs', jobs'[run'.rev].status = "running", jobs'[run'.rev].cancel
        PROVE  run'.stopped
    <2>1. run'.rev = run.rev /\ run.rev \in DOMAIN jobs
      <3>1. run'.rev \in DOMAIN jobs
        BY <1>0, <1>2
      <3>2. QED
        BY <3>1, CallerRevises
    <2>2. CallerRow(t, run.rev)
      BY <1>0, <2>1
    <2>3. CASE jobs'[run.rev] = jobs[run.rev]
      <3>1. JobIs({"running"}) /\ jobs[run.rev].cancel
        BY <1>2, <2>1, <2>3 DEF JobIs
      <3>2. QED
        BY <1>0, <3>1 DEF CancelFits
    <2>4. CASE pc[t] = "cancelJob"
      BY <1>0, <2>4 DEF CancelFits
    <2>5. QED
      BY <1>2, <2>1, <2>2, <2>3, <2>4 DEF CallerRow
  <1>3. QED
    BY <1>1, <1>2 DEF CancelFits, JobIs

LEMMA CallerHeld ==
    ASSUME NEW p, Procs = {p}, NEW t \in Callers, Calm(t), CalmInv, Owned(p), Exists
    PROVE  AllHeld(p)'
  <1>0. /\ AllHeld(p) /\ phase' = phase /\ work' = work
        /\ \A v \in DOMAIN jobs : CallerRow(t, v)
        /\ \A v \in DOMAIN jobs' \ DOMAIN jobs : jobs'[v].status = "queued"
    BY CallerFacts DEF Owned
  <1>1. \A v \in DOMAIN jobs : jobs'[v].status = "running" => jobs[v].status = "running"
    BY <1>0 DEF CallerRow
  <1>2. QED
    BY <1>0, <1>1 DEF AllHeld, Up

\* While the service is constructed only one caller acts, and no worker.
LEMMA CallerBuilds ==
    ASSUME NEW p, Procs = {p}, NEW t \in Callers, Calm(t), CalmInv, Owned(p), Exists
    PROVE  Built(p)'
  <1> SUFFICES ASSUME phase[p] = "starting", ~Ended',
                      pc'[Main[p]] \notin {"list", "enqueue", "link", "markFailed"}
               PROVE  Linked'
    BY CallerFacts DEF Built
  <1>0. /\ RefInv /\ Built(p) /\ CallerRun(t) /\ DOMAIN jobs \subseteq DOMAIN jobs'
        /\ run'.job \in {NoJob, run'.rev}
        /\ run.job \in {NoJob, run.rev}
        /\ run.job # NoJob => run.job \in DOMAIN jobs
        /\ CallersFit(p) /\ HoldsRunning(p)
    BY CallerFacts DEF Owned, CalmInv, RefInv, RunFits
  <1>1. t = Main[p] /\ pc[t] # "idle"
    BY <1>0, CallerAt DEF CallersFit, BuildFit, Calling
  <1>2. run'.rev = run.rev /\ ~Ended
    BY <1>1, CallerRevises
  <1>3. pc[t] \in Calling \cup {"look"} => seen[t].rev = run.rev
    BY <1>0, <1>1 DEF CallersFit, BuildFit
  <1>4. Linked => Linked'
    BY <1>0, <1>2 DEF Linked, CallerRun
  <1>5. CASE pc[t] \notin {"list", "enqueue", "link", "markFailed"}
    <2>1. Linked
      BY <1>1, <1>2, <1>0, <1>5 DEF Built
    <2>2. QED
      BY <1>4, <2>1
  <1>6. CASE pc[t] = "list"
    <2>1. run.job # NoJob
      <3>1. ASSUME run.job = NoJob PROVE FALSE
        <4>1. Take(t, "enqueue", CopyOf(run))
          BY <1>2, <1>6, <3>1, <1>0, CallerAt DEF List
        <4>2. pc'[t] = "enqueue"
          BY <1>0, <4>1, CallerTakes
        <4>3. QED
          BY <1>1, <4>2
      <3>2. QED
        BY <3>1
    <2>2. Linked
      BY <1>0, <2>1 DEF Linked
    <2>3. QED
      BY <1>4, <2>2
  <1>7. CASE pc[t] = "enqueue"
    <2>1. Enqueue(t)
      BY <1>0, <1>7, CallerAt, CalmTyped DEF EnqueueRefused
    <2>2. \E label \in {"link", "markFailed"} : \E copy : Take(t, label, copy)
      BY <2>1 DEF Enqueue
    <2>3. pc'[t] \in {"link", "markFailed"}
      BY <1>0, <2>2, CallerTakes
    <2>4. QED
      BY <1>1, <2>3
  <1>8. CASE pc[t] = "link"
    <2>1. ClaimJob(seen[t].rev) /\ seen[t].rev = run.rev
      BY <1>0, <1>3, <1>8, CallerAt DEF Link, Calling
    <2>2. Claims(run.rev)
      BY <1>0, <1>2 DEF Claims
    <2>3. run' = [run EXCEPT !.job = run.rev] /\ run \in Run
      BY <1>0, <2>1, <2>2 DEF ClaimJob, RefInv, TypeOK, Exists, NoRun
    <2>4. run'.job = run.rev
      BY <2>3 DEF Run
    <2>5. run.rev \in DOMAIN jobs
      BY <1>0, <1>3, <1>8 DEF RefInv, CopiesFit, LinkedPc, Calling
    <2>6. QED
      BY <1>0, <1>2, <2>4, <2>5 DEF Linked
  <1>9. CASE pc[t] = "markFailed"
    <2>1. MarkFailed
      BY <1>0, <1>9, CallerAt DEF NoteFailed
    <2>2. run' = [run EXCEPT !.status = "failed"] /\ run \in Run
      BY <1>0, <1>2, <2>1 DEF MarkFailed, SetRun, RefInv, TypeOK, Exists, NoRun
    <2>3. Ended'
      BY <2>2 DEF Ended, RunTerminal, Run
    <2>4. QED
      BY <2>3
  <1>10. QED
    BY <1>5, <1>6, <1>7, <1>8, <1>9

LEMMA CallerAnswers ==
    ASSUME NEW p, Procs = {p}, NEW t \in Callers, Calm(t), CalmInv, Owned(p), Exists
    PROVE  AnswersFit(p)'
  <1> SUFFICES ASSUME phase[p] = "running" PROVE AnswersFit(p)'
    BY CallerFacts DEF AnswersFit
  <1>0. /\ RefInv /\ CallerRun(t) /\ DOMAIN jobs \subseteq DOMAIN jobs'
        /\ run.job \in {NoJob, run.rev} /\ run.rev \in Nat \ {0}
        /\ run.stopped => run'.stopped /\ Ended
        /\ \A v \in DOMAIN jobs : CallerRow(t, v)
        /\ \A u \in Callers \ {t} : pc'[u] = pc[u] /\ seen'[u] = seen[u]
        /\ \A u \in Callers : pc[u] \in LinkedPc => seen[u].job \in DOMAIN jobs
                                                    /\ seen[u].job = seen[u].rev
    BY CallerFacts
  <1>1. /\ \A u \in Callers :
              /\ /\ pc[u] \in {"approveJob", "rejectJob"}
                 /\ jobs[seen[u].job].status = "waiting_approval"
                 => run.stopped \/ Owns(seen[u].job)
              /\ pc[u] = "withdraw" => run.stopped \/ (~Ended /\ JobIs({"cancelled"}))
        /\ pc[t] \notin {"markFailed", "look", "list"}
    BY CalmTyped, CallerFacts DEF Owned, AnswersFit, CalmInv, CallersFit, ServeFit
  <1>2. ASSUME NEW v, Owns(v) PROVE run'.stopped \/ Owns(v)'
    BY <1>0, <1>1, <1>2 DEF CallerRun, Owns, Ended
  <1>3. ASSUME NEW u \in Callers, pc'[u] \in {"approveJob", "rejectJob"},
               jobs'[seen'[u].job].status = "waiting_approval"
        PROVE  run'.stopped \/ Owns(seen[u].job)'
    <2>1. CASE u = t
      <3>1. Resolve(t) /\ seen'[t] = CopyOf(run)
        BY <1>0, <1>3, <2>1, CallerGoes
      <3>2. /\ seen'[t].job = run.job /\ run' = run /\ run.status = "waiting_approval"
            /\ run.job # NoJob
        BY <3>1 DEF CopyOf, Resolve, tables
      <3>3. Owns(seen[t].job)'
        BY <1>0, <3>2 DEF Owns, Ended, RunTerminal
      <3>4. QED
        BY <2>1, <3>3
    <2>2. CASE u # t
      <3>1. /\ pc[u] \in {"approveJob", "rejectJob"} /\ seen'[u] = seen[u]
            /\ seen[u].job \in DOMAIN jobs
        BY <1>0, <1>3, <2>2 DEF LinkedPc
      <3>2. jobs[seen[u].job].status = "waiting_approval"
        BY <1>0, <1>3, <3>1 DEF CallerRow
      <3>3. PICK v : v = seen[u].job
        OBVIOUS
      <3>4. run'.stopped \/ Owns(v)'
        BY <1>0, <1>1, <1>2, <3>1, <3>2, <3>3
      <3>5. QED
        BY <3>1, <3>3, <3>4 DEF Owns
    <2>3. QED
      BY <2>1, <2>2
  <1>4. ASSUME NEW u \in Callers, pc'[u] = "withdraw"
        PROVE  run'.stopped \/ (~Ended' /\ JobIs({"cancelled"})')
    <2>1. CASE u = t
      <3>1. /\ pc[t] = "rejectJob" /\ jobs[seen[t].job].status = "waiting_approval"
        BY <1>0, <1>1, <1>4, <2>1, CallerGoes DEF Look
      <3>2. CASE run.stopped
        BY <1>0, <3>2
      <3>3. CASE Owns(seen[t].job)
        <4>1. UNCHANGED run
          BY <1>0, <3>1 DEF CallerRun
        <4>2. CallerRow(t, seen[t].job) /\ seen[t].job \in DOMAIN jobs' /\ seen[t].job = run.rev
          BY <1>0, <3>1, <3>3 DEF LinkedPc, Owns
        <4>3. jobs'[run'.rev].status = "cancelled" /\ run'.rev \in DOMAIN jobs'
          BY <3>1, <4>1, <4>2 DEF CallerRow
        <4>4. ~Ended'
          BY <3>3, <4>1 DEF Owns, Ended
        <4>5. QED
          BY <4>3, <4>4 DEF JobIs
      <3>4. QED
        BY <1>1, <3>1, <3>2, <3>3
    <2>2. CASE u # t
      <3>1. pc[u] = "withdraw"
        BY <1>0, <1>4, <2>2
      <3>2. CASE run.stopped
        BY <1>0, <3>2
      <3>3. CASE ~Ended /\ JobIs({"cancelled"})
        <4>1. \/ run'.stopped
              \/ run'.rev = run.rev /\ ~Ended'
          BY <1>0, <1>1, <3>3 DEF CallerRun, Ended
        <4>2. run.rev \in DOMAIN jobs' /\ jobs'[run.rev].status = "cancelled"
          BY <1>0, <3>3 DEF JobIs, CallerRow
        <4>3. QED
          BY <4>1, <4>2 DEF JobIs
      <3>4. QED
        BY <1>1, <3>1, <3>2, <3>3
    <2>3. QED
      BY <2>1, <2>2
  <1>5. QED
    BY <1>3, <1>4 DEF AnswersFit

LEMMA CallerFirst ==
    ASSUME NEW p, Procs = {p}, NEW t \in Callers, Calm(t), CalmInv, Owned(p), Exists
    PROVE  FirstLife(p)'
  <1> SUFFICES ASSUME lives = 0 PROVE FirstLife(p)'
    BY CallerFacts DEF FirstLife
  <1>0. /\ RefInv /\ CallerRun(t) /\ DOMAIN jobs \subseteq 1 .. run.rev
        /\ run.stopped => run'.stopped /\ Ended
        /\ \A v \in DOMAIN jobs : CallerRow(t, v)
        /\ \A v \in DOMAIN jobs' \ DOMAIN jobs : jobs'[v].status = "queued"
        /\ \A u \in Callers \ {t} : pc'[u] = pc[u] /\ seen'[u] = seen[u]
        /\ pc'[p] = pc[p] /\ work' = work
        /\ work[p].job # NoJob => work[p].job \in DOMAIN jobs /\ jobs[work[p].job].status = "running"
        /\ Busy(p) <=> work[p].job # NoJob
    BY CallerFacts
  <1>1. /\ phase[p] = "running" /\ FirstLife(p) /\ Left(p) /\ Undisturbed(p)
        /\ pc[t] = "withdraw" => run.stopped \/ (~Ended /\ JobIs({"cancelled"}))
        /\ pc[t] # "markFailed"
    BY CalmTyped, CallerFacts
       DEF Owned, Fresh, AnswersFit, CalmInv, CallersFit, ServeFit, Up
  <1>2. ASSUME NEW v \in DOMAIN jobs, Owns(v), jobs[v].status # "cancelled", v # NoJob
        PROVE  Owns(v)' \/ (run'.stopped /\ pc'[t] = "cancelJob" /\ seen'[t].job = v)
    <2>1. pc[t] # "withdraw"
      BY <1>0, <1>1, <1>2 DEF JobIs, Owns
    <2>2. ~Ended /\ run.rev = v /\ run.job = v
      BY <1>2 DEF Owns
    <2>3. CASE UNCHANGED run
      BY <2>2, <2>3 DEF Owns, Ended
    <2>4. CASE ~UNCHANGED run
      BY <1>0, <1>1, <1>2, <2>1, <2>2, <2>4 DEF CallerRun, Owns
    <2>5. QED
      BY <2>3, <2>4
  <1>3. ASSUME NEW v \in DOMAIN jobs', jobs'[v].status = "waiting_approval"
        PROVE  \/ Owns(v)'
               \/ run'.stopped /\ \E u \in Callers : pc'[u] = "cancelJob" /\ seen'[u].job = v
    <2>1. v \in DOMAIN jobs
      BY <1>0, <1>3
    <2>2. /\ jobs[v].status = "waiting_approval" /\ v # NoJob
          /\ ~(pc[t] = "cancelJob" /\ v = seen[t].job)
      BY <1>0, <1>3, <2>1 DEF CallerRow, NoJob
    <2>3. CASE Owns(v)
      BY <1>2, <2>1, <2>2, <2>3
    <2>4. CASE run.stopped /\ \E u \in Callers : pc[u] = "cancelJob" /\ seen[u].job = v
      BY <1>0, <2>2, <2>4
    <2>5. QED
      BY <1>1, <2>1, <2>2, <2>3, <2>4 DEF FirstLife
  <1>4. ASSUME pc[p] \in EarlyPc \cup {"pause"}, run'.stopped
        PROVE  \/ jobs'[work[p].job].cancel
               \/ \E u \in Callers : pc'[u] = "cancelJob" /\ seen'[u].job = work[p].job
    <2>1. /\ work[p].job \in DOMAIN jobs /\ jobs[work[p].job].status = "running"
          /\ work[p].job # NoJob
      BY <1>0, <1>4 DEF EarlyPc, Busy
    <2>2. CASE ~run.stopped
      <3>1. PICK v : v = work[p].job
        OBVIOUS
      <3>2. Owns(v)
        BY <1>1, <1>4, <2>2, <3>1 DEF Undisturbed, Left
      <3>3. ~Owns(v)'
        BY <1>4, CallerFacts DEF Owns
      <3>4. QED
        BY <1>2, <2>1, <3>1, <3>2, <3>3
    <2>3. CASE jobs[work[p].job].cancel
      <3>1. CallerRow(t, work[p].job)
        BY <1>0, <2>1
      <3>2. QED
        BY <2>1, <2>3, <3>1 DEF CallerRow
    <2>4. CASE \E u \in Callers : pc[u] = "cancelJob" /\ seen[u].job = work[p].job
      <3>1. PICK u \in Callers : pc[u] = "cancelJob" /\ seen[u].job = work[p].job
        BY <2>4
      <3>2. CallerRow(t, work[p].job)
        BY <1>0, <2>1
      <3>3. CASE u = t
        BY <2>1, <3>1, <3>2, <3>3 DEF CallerRow
      <3>4. CASE u # t
        BY <1>0, <3>1, <3>4
      <3>5. QED
        BY <3>3, <3>4
    <2>5. QED
      BY <1>1, <1>4, <2>2, <2>3, <2>4 DEF FirstLife
  <1>5. QED
    BY <1>0, <1>3, <1>4 DEF FirstLife

LEMMA CallerLeaves ==
    ASSUME NEW p, Procs = {p}, NEW t \in Callers, Calm(t), CalmInv, Owned(p), Exists, Up(p)
    PROVE  Left(p)' /\ AtWork(p)'
  <1>0. /\ CallerRun(t) /\ CancelFits /\ Left(p) /\ AtWork(p)
        /\ run.stopped => run'.stopped
        /\ \A v \in DOMAIN jobs : CallerRow(t, v)
        /\ \A v \in DOMAIN jobs' \ DOMAIN jobs : jobs'[v].status = "queued"
        /\ DOMAIN jobs \subseteq DOMAIN jobs'
        /\ pc'[p] = pc[p] /\ work' = work
        /\ work[p].job # NoJob => work[p].job \in DOMAIN jobs /\ jobs[work[p].job].status = "running"
        /\ Busy(p) <=> work[p].job # NoJob
        /\ run.job \in {NoJob, run.rev} /\ run.rev \in Nat \ {0}
    BY CallerFacts DEF Owned
  <1>1. pc[t] = "markFailed" => Ended \/ (run.rev \in DOMAIN jobs /\ jobs[run.rev].status # "running")
    <2>1. /\ phase[p] = "running" => pc[t] # "markFailed"
          /\ phase[p] = "serving" /\ pc[t] = "markFailed" =>
                Ended \/ (run.rev \in DOMAIN jobs /\ jobs[run.rev].status \in J!Terminal)
      BY DEF CalmInv, CallersFit, BuildFit, ServeFit
    <2>2. QED
      BY <2>1 DEF Up, J!Terminal
  <1>2. ASSUME pc[p] \in {"finish", "cancel", "fail"}, work[p].job = run'.rev PROVE Ended'
    <2>1. work[p].job \in DOMAIN jobs
      BY <1>0, <1>2 DEF Busy
    <2>2. QED
      BY <1>0, <1>2, <2>1, CallerRevises DEF Left
  <1>3. ASSUME pc[p] = "pause"
        PROVE  run'.stopped \/ (Owns(work[p].job)' /\ run'.status = "waiting_approval")
    <2>1. CASE run.stopped
      BY <1>0, <2>1
    <2>2. CASE Owns(work[p].job) /\ run.status = "waiting_approval"
      <3>1. PICK v : v = work[p].job /\ work'[p].job = v
        BY <1>0
      <3>2. /\ ~Ended /\ run.rev = v /\ run.job = v /\ jobs[v].status = "running"
            /\ pc[t] # "markFailed"
        BY <1>0, <1>1, <1>3, <2>2, <3>1 DEF Owns, Busy
      <3>3. CASE UNCHANGED run
        BY <2>2, <3>1, <3>2, <3>3 DEF Owns, Ended
      <3>4. CASE ~UNCHANGED run
        <4>1. run'.stopped \/ (run'.rev = v /\ run'.job = v /\ ~Ended' /\ run'.status = "waiting_approval")
          BY <1>0, <2>2, <3>2, <3>4 DEF CallerRun
        <4>2. QED
          BY <3>1, <4>1 DEF Owns
      <3>5. QED
        BY <3>3, <3>4
    <2>3. QED
      BY <1>0, <1>3, <2>1, <2>2 DEF Left
  <1>4. ASSUME pc[p] \in WorkPc \cup {"stop"}
        PROVE  run'.stopped \/ run'.rev \notin DOMAIN jobs' \/ JobIs({"queued", "running"})'
    <2>1. CASE run.stopped
      BY <1>0, <2>1
    <2>2. CASE run'.rev # run.rev
      <3>1. UNCHANGED jobs /\ run'.rev \notin DOMAIN jobs
        BY <2>2, CallerRevises
      <3>2. QED
        BY <3>1
    <2>3. CASE run'.rev = run.rev /\ run.rev \notin DOMAIN jobs
      BY <1>0, <2>3 DEF JobIs
    <2>4. CASE run'.rev = run.rev /\ JobIs({"queued", "running"})
      <3>1. run.rev \in DOMAIN jobs' /\ CallerRow(t, run.rev)
        BY <1>0, <2>4 DEF JobIs
      <3>2. CASE pc[t] = "cancelJob"
        BY <1>0, <3>2 DEF CancelFits
      <3>3. CASE pc[t] # "cancelJob"
        <4>1. jobs'[run.rev].status \in {"queued", "running"}
          BY <2>4, <3>1, <3>3 DEF CallerRow, JobIs
        <4>2. QED
          BY <2>4, <3>1, <4>1 DEF JobIs
      <3>4. QED
        BY <3>2, <3>3
    <2>5. QED
      BY <1>0, <1>4, <2>1, <2>2, <2>3, <2>4 DEF AtWork
  <1>5. QED
    BY <1>0, <1>2, <1>3, <1>4 DEF Left, AtWork

LEMMA CallerSees ==
    ASSUME NEW p, Procs = {p}, NEW t \in Callers, Calm(t), CalmInv, Owned(p), Exists, Up(p), ~Ended'
    PROVE  Seen(p)'
  <1>0. /\ RefInv /\ CallerRun(t) /\ CancelFits
        /\ run.stopped => Ended
        /\ \A v \in DOMAIN jobs : CallerRow(t, v)
        /\ \A v \in DOMAIN jobs' \ DOMAIN jobs : jobs'[v].status = "queued"
        /\ DOMAIN jobs \subseteq DOMAIN jobs'
        /\ \A u \in Callers \ {t} : pc'[u] = pc[u] /\ seen'[u] = seen[u]
        /\ phase' = phase
        /\ run.job \in {NoJob, run.rev} /\ run'.job \in {NoJob, run'.rev} /\ run.rev \in Nat \ {0}
        /\ \A u \in Callers : pc[u] \in LinkedPc => seen[u].job \in DOMAIN jobs
                                                    /\ seen[u].job = seen[u].rev
    BY CallerFacts DEF Owned
  <1>1. /\ CallersFit(p) /\ Main[p] \in Callers /\ Home[t] = p /\ seen[t] \in Copy \cup {NoCopy}
    BY CalmTyped, CallerFacts DEF CalmInv
  <1>2. CASE run'.rev # run.rev
    <2>1. /\ UNCHANGED jobs /\ run'.rev \notin DOMAIN jobs /\ pc'[t] = "enqueue"
          /\ seen'[t].rev = run'.rev /\ pc[t] = "idle"
      BY <1>2, CallerRevises
    <2>2. phase[p] = "running"
      BY <1>1, <2>1 DEF CallersFit, BuildFit, Up
    <2>3. QED
      BY <1>0, <2>1, <2>2 DEF Seen, SeenTo
  <1>3. CASE run'.rev = run.rev
    <2>0. ~Ended /\ pc[t] # "markFailed"
      <3>1. ~Ended
        BY <1>3, <1>0, CallerRevises
      <3>2. pc[t] = "markFailed" => Ended'
        <4>1. ASSUME pc[t] = "markFailed" PROVE Ended'
          <5>1. MarkFailed
            BY <1>0, <4>1, CallerAt DEF NoteFailed
          <5>2. run' = [run EXCEPT !.status = "failed"] /\ run \in Run
            BY <1>0, <3>1, <5>1 DEF MarkFailed, SetRun, RefInv, TypeOK, Exists, NoRun
          <5>3. QED
            BY <5>2 DEF Ended, RunTerminal, Run
        <4>2. QED
          BY <4>1
      <3>3. QED
        BY <3>1, <3>2
    <2>1. /\ run'.job = run.rev \/ run'.job = run.job
          /\ run'.status \in {run.status, "waiting_approval"}
          /\ Linked => Linked'
      BY <1>0, <1>3, <2>0 DEF CallerRun, Linked
    <2>2. ASSUME JobIs({"queued", "running"}) PROVE JobIs({"queued", "running"})'
      <3>1. pc[t] # "cancelJob"
        BY <1>0, <2>0 DEF CancelFits
      <3>2. run.rev \in DOMAIN jobs' /\ CallerRow(t, run.rev)
        BY <1>0, <2>2 DEF JobIs
      <3>3. jobs'[run.rev].status \in {"queued", "running"}
        BY <2>2, <3>1, <3>2 DEF CallerRow, JobIs
      <3>4. QED
        BY <1>3, <3>2, <3>3 DEF JobIs
    <2>3. CASE Linked /\ JobIs({"queued", "running"})
      BY <2>1, <2>2, <2>3 DEF Seen
    <2>4. CASE phase[p] = "running" /\ run.rev \notin DOMAIN jobs /\ SeenTo("enqueue")
      <3>1. PICK u \in Callers : pc[u] = "enqueue" /\ seen[u].rev = run.rev
        BY <2>4 DEF SeenTo
      <3>2. CASE u = t
        <4>1. Enqueue(t)
          BY <1>0, <1>1, <2>4, <3>1, <3>2, CallerAt DEF EnqueueRefused
        <4>2. /\ Put(run.rev, J!NewRow("run", run.rev, Attempts, TRUE))
              /\ Take(t, "link", [seen[t] EXCEPT !.job = run.rev])
              /\ run' = run
          BY <2>4, <3>1, <3>2, <4>1 DEF Enqueue
        <4>3. pc'[t] = "link" /\ seen'[t] = [seen[t] EXCEPT !.job = run.rev]
          BY <1>0, <4>2, CallerTakes
        <4>4. run.rev \in DOMAIN jobs' /\ jobs'[run.rev].status = "queued"
          <5>1. /\ DOMAIN jobs' = DOMAIN jobs \cup {run.rev}
                /\ jobs'[run.rev] = J!NewRow("run", run.rev, Attempts, TRUE)
            BY <4>2, PutFacts
          <5>2. QED
            BY <5>1 DEF J!NewRow
        <4>5. run.job = NoJob
          BY <1>0, <2>4 DEF RefInv, RunFits
        <4>6. seen'[t].rev = run.rev
          BY <1>1, <3>1, <3>2, <4>3 DEF Copy, NoCopy
        <4>7. QED
          BY <1>0, <1>3, <2>4, <4>2, <4>3, <4>4, <4>5, <4>6 DEF Seen, SeenTo, JobIs
      <3>3. CASE u # t
        <4>1. run.rev \notin DOMAIN jobs'
          <5>1. ASSUME run.rev \in DOMAIN jobs' PROVE FALSE
            <6>1. pc[t] = "enqueue" /\ seen[t].rev = run.rev
              <7>1. \/ DOMAIN jobs' = DOMAIN jobs
                    \/ pc[t] = "enqueue" /\ DOMAIN jobs' = DOMAIN jobs \cup {seen[t].rev}
                BY <1>0, CallerFrame DEF Calm
              <7>2. QED
                BY <2>4, <5>1, <7>1
            <6>2. QED
              BY <1>1, <2>4, <3>1, <3>3, <6>1 DEF CallersFit, ServeFit
          <5>2. QED
            BY <5>1
        <4>2. QED
          BY <1>0, <1>3, <2>4, <3>1, <3>3, <4>1 DEF Seen, SeenTo
      <3>4. QED
        BY <3>2, <3>3
    <2>5. CASE /\ phase[p] = "running" /\ run.job = NoJob
               /\ JobIs({"queued", "running"}) /\ SeenTo("link")
      <3>1. PICK u \in Callers : pc[u] = "link" /\ seen[u].rev = run.rev
        BY <2>5 DEF SeenTo
      <3>2. CASE u = t
        <4>1. ClaimJob(run.rev) /\ Claims(run.rev)
          BY <1>0, <2>0, <2>5, <3>1, <3>2, CallerAt DEF Link, Claims
        <4>2. run' = [run EXCEPT !.job = run.rev] /\ run \in Run
          BY <1>0, <4>1 DEF ClaimJob, RefInv, TypeOK, Exists, NoRun
        <4>3. run'.job = run.rev
          BY <4>2 DEF Run
        <4>4. Linked'
          BY <1>0, <1>3, <2>5, <4>3 DEF Linked, JobIs
        <4>5. QED
          BY <2>2, <2>5, <4>4 DEF Seen
      <3>3. CASE u # t /\ run'.job = NoJob
        BY <1>0, <1>3, <2>2, <2>5, <3>1, <3>3 DEF Seen, SeenTo
      <3>4. CASE run'.job # NoJob
        <4>1. Linked'
          BY <1>0, <1>3, <2>5, <3>4 DEF Linked, JobIs
        <4>2. QED
          BY <2>2, <2>5, <4>1 DEF Seen
      <3>5. QED
        BY <3>2, <3>3, <3>4
    <2>6. CASE Linked /\ JobIs({"waiting_approval"}) /\ run.status = "waiting_approval"
      <3>1. run.rev \in DOMAIN jobs' /\ CallerRow(t, run.rev) /\ jobs[run.rev].status = "waiting_approval"
        BY <1>0, <2>6 DEF JobIs
      <3>2. pc[t] # "cancelJob"
        BY <1>0, <2>0 DEF CancelFits
      <3>3. CASE jobs'[run.rev].status = "waiting_approval"
        BY <1>3, <2>1, <2>6, <3>1, <3>3 DEF Seen, JobIs
      <3>4. CASE jobs'[run.rev].status = "queued"
        BY <1>3, <2>1, <2>6, <3>1, <3>4 DEF Seen, JobIs
      <3>5. CASE pc'[t] = "withdraw"
        BY <2>1, <2>6, <3>5 DEF Seen
      <3>6. QED
        BY <3>1, <3>2, <3>3, <3>4, <3>5 DEF CallerRow
    <2>7. CASE Linked /\ \E u \in Callers : pc[u] = "withdraw"
      <3>1. PICK u \in Callers : pc[u] = "withdraw"
        BY <2>7
      <3>2. u # t
        <4>1. ASSUME u = t PROVE FALSE
          <5>1. Cancel
            BY <1>0, <3>1, <4>1, CallerAt DEF Withdraw
          <5>2. run' = [run EXCEPT !.status = "cancelled", !.stopped = TRUE] /\ run \in Run
            BY <1>0, <2>0, <5>1 DEF Cancel, RefInv, TypeOK, Exists, NoRun
          <5>3. Ended'
            BY <5>2 DEF Ended, RunTerminal, Run
          <5>4. QED
            BY <5>3
        <4>2. QED
          BY <4>1
      <3>3. QED
        BY <1>0, <2>1, <2>7, <3>1, <3>2 DEF Seen
    <2>8. CASE /\ Linked /\ phase[p] = "serving"
               /\ pc[Main[p]] \in {"list", "look"} \/ (pc[Main[p]] = "markWaiting" /\ JobIs({"waiting_approval"}))
      <3>1. t = Main[p]
        BY <1>0, <1>1, <2>8, CallerAt DEF CallersFit, BuildFit, Calling
      <3>2. CASE pc[t] = "list"
        <4>1. Take(t, "look", CopyOf(run))
          BY <1>0, <2>0, <2>8, <3>2, CallerAt DEF List, Linked, NoJob
        <4>2. pc'[t] = "look"
          BY <1>0, <4>1, CallerTakes
        <4>3. QED
          BY <1>0, <2>1, <2>8, <3>1, <4>2 DEF Seen
      <3>3. CASE pc[t] = "look"
        <4>1. Look(t) /\ seen[t].job = run.rev /\ run' = run /\ jobs' = jobs
          BY <1>0, <1>1, <2>8, <3>3, CallerAt DEF CallersFit, BuildFit, LinkedPc, Look, tables
        <4>2. jobs[run.rev].status \in J!Status
          BY <1>0, <2>8 DEF Linked, RefInv, TypeOK, J!Row
        <4>3. CASE jobs[run.rev].status \in {"queued", "running"}
          BY <2>1, <2>2, <2>8, <4>3 DEF Seen, JobIs, Linked
        <4>4. CASE jobs[run.rev].status = "waiting_approval"
          <5>1. Take(t, "markWaiting", seen[t])
            BY <4>1, <4>4 DEF Look
          <5>2. pc'[t] = "markWaiting"
            BY <1>0, <5>1, CallerTakes
          <5>3. QED
            BY <1>0, <2>1, <2>8, <3>1, <4>1, <4>4, <5>2 DEF Seen, JobIs, Linked
        <4>5. CASE jobs[run.rev].status \in {"failed", "succeeded"}
          <5>1. Take(t, "markFailed", seen[t])
            BY <4>1, <4>5 DEF Look
          <5>2. pc'[t] = "markFailed"
            BY <1>0, <5>1, CallerTakes
          <5>3. QED
            BY <1>0, <2>1, <2>8, <3>1, <5>2 DEF Seen
        <4>6. CASE jobs[run.rev].status = "cancelled"
          <5>1. Take(t, "withdraw", seen[t])
            BY <4>1, <4>6 DEF Look
          <5>2. pc'[t] = "withdraw"
            BY <1>0, <5>1, CallerTakes
          <5>3. QED
            BY <2>1, <2>8, <5>2 DEF Seen
        <4>7. QED
          BY <4>2, <4>3, <4>4, <4>5, <4>6 DEF J!Status, J!Terminal
      <3>4. CASE pc[t] = "markWaiting" /\ JobIs({"waiting_approval"})
        <4>1. MarkWaiting(run.rev) /\ Claims(run.rev) /\ jobs' = jobs
          BY <1>0, <1>1, <2>0, <2>8, <3>4, CallerAt
             DEF CallersFit, BuildFit, Calling, NoteWaiting, Claims
        <4>2. run' = [run EXCEPT !.job = run.rev, !.status = "waiting_approval"] /\ run \in Run
          BY <1>0, <4>1 DEF MarkWaiting, RefInv, TypeOK, Exists, NoRun
        <4>3. run'.status = "waiting_approval"
          BY <4>2 DEF Run
        <4>4. QED
          BY <1>3, <2>1, <2>8, <3>4, <4>1, <4>3 DEF Seen, JobIs
      <3>5. QED
        BY <2>8, <3>1, <3>2, <3>3, <3>4
    <2>9. CASE Linked /\ phase[p] = "serving" /\ pc[Main[p]] = "markFailed"
      BY <1>0, <1>1, <2>0, <2>9, CallerAt DEF CallersFit, BuildFit, Calling
    <2>10. QED
      BY <2>0, <2>3, <2>4, <2>5, <2>6, <2>7, <2>8, <2>9 DEF Owned, Seen
  <1>4. QED
    BY <1>2, <1>3

-----------------------------------------------------------------------------
(* Run and job agree: what a worker's step leaves of it. *)

\* All that a worker's step leaves.
LEMMA WorkerFacts ==
    ASSUME NEW p, Procs = {p}, WorkerStep(p), CalmInv, Owned(p)
    PROVE  /\ Rows /\ RefInv /\ RefInv' /\ Shapes /\ p \in Procs /\ run.rev \in Nat \ {0}
           /\ run'.rev = run.rev /\ run'.job \in {run.job, run.rev}
           /\ run.job \in {NoJob, run.rev} /\ run'.job \in {NoJob, run.rev}
           /\ run.stopped => run'.stopped
           /\ run.stopped => Ended
           /\ run'.stopped => Ended'
           /\ Ended => Ended'
           /\ pc[p] # "stop" => run'.stopped = run.stopped
           /\ pc[p] \notin WorkPc \cup {"stop"} => run'.status = run.status
           /\ DOMAIN jobs' = DOMAIN jobs /\ \A v \in DOMAIN jobs : WorkerRow(p, v)
           /\ DOMAIN jobs \subseteq 1 .. run.rev
           /\ RowsGoOn'
           /\ pc[p] \notin SettlePc \cup {"poll"} => UNCHANGED jobs /\ work'[p].job = work[p].job
           /\ pc[p] \in SettlePc \cup {"poll"} => UNCHANGED run
           /\ pc[p] = "poll" => work[p].job = NoJob /\ pc'[p] = "check0"
           /\ pc[p] \in SettlePc => pc'[p] = "poll" /\ work'[p].job = NoJob
           /\ UNCHANGED <<phase, seen, lives>> /\ \A t \in Callers : pc'[t] = pc[t]
           /\ phase[p] \in {"serving", "running", "closing"}
           /\ pc[p] # "poll" => work[p].job \in DOMAIN jobs /\ jobs[work[p].job].status = "running"
  <1>0. /\ OneInv /\ RefInv /\ Shapes /\ HoldsRunning(p) /\ p \in Procs /\ RowsGoOn
        /\ WorkerActs(p) /\ [Next]_vars
    BY DEF CalmInv, OneInv, Owned, WorkerActs, Next
  <1>1. /\ Rows /\ run'.rev = run.rev /\ run'.job \in {run.job, run.rev}
        /\ run.stopped => run'.stopped
        /\ Ended => Ended'
        /\ pc[p] # "stop" => run'.stopped = run.stopped
        /\ pc[p] \notin WorkPc \cup {"stop"} => run'.status = run.status
    BY <1>0, WorkerRuns
  <1>2. OneInv'
    BY <1>0, OneStep
  <1>3. RefInv' /\ Shapes' /\ Exists'
    BY <1>0, <1>1, <1>2, RunStep DEF RunLasts, OneInv, Rows
  <1>4. /\ run.job \in {NoJob, run.rev} /\ run'.job \in {NoJob, run.rev}
        /\ DOMAIN jobs \subseteq 1 .. run.rev
    BY <1>0, <1>1, <1>3 DEF RefInv, RunFits, Rows
  <1>5. /\ run.stopped => Ended
        /\ run'.stopped => Ended'
    BY <1>0, <1>1, <1>3 DEF Shapes, StoppedShape, Ended, RunTerminal, Rows
  <1>6. /\ DOMAIN jobs' = DOMAIN jobs /\ \A v \in DOMAIN jobs : WorkerRow(p, v)
        /\ RowsGoOn'
        /\ pc[p] \notin SettlePc \cup {"poll"} => UNCHANGED jobs /\ work'[p].job = work[p].job
        /\ pc[p] \in SettlePc \cup {"poll"} => UNCHANGED run
        /\ pc[p] = "poll" => work[p].job = NoJob /\ pc'[p] = "check0"
        /\ pc[p] \in SettlePc => pc'[p] = "poll" /\ work'[p].job = NoJob
    BY <1>0, WorkerRows
  <1>7. UNCHANGED <<phase, seen>> /\ \A t \in Callers : pc'[t] = pc[t]
    <2>1. /\ UNCHANGED <<phase, seen>>
          /\ \E label \in WorkerPc \ {"down"} : pc' = [pc EXCEPT ![p] = label]
      BY <1>0, WorkerMoves DEF RefInv, ThreadsFit
    <2>2. pc \in [Threads -> Pc] /\ Callers \subseteq Threads /\ p \notin Callers
      BY <1>0, CalmTyped
    <2>3. QED
      BY <2>1, <2>2
  <1>8. lives' = lives
    BY DEF WorkerStep, Claim, Check, ClaimRun, AskWait, Approve, Prepare, Reread, ListSteps, Pick,
           Deadlock, Start, Progress, Execute, StepFails, Commit, Complete, Stop, Settle, bounds
  <1>9. phase[p] \in {"serving", "running", "closing"}
    <2>1. pc[p] # "down"
      BY <1>0, WorkerMoves DEF RefInv, ThreadsFit
    <2>2. QED
      BY <1>0, <2>1, CalmTyped
  <1>10. pc[p] # "poll" => work[p].job \in DOMAIN jobs /\ jobs[work[p].job].status = "running"
    BY <1>0, WorkerExists DEF HoldsRunning
  <1>11. run.rev \in Nat \ {0}
    BY <1>1 DEF Rows, Run
  <1>12. QED
    BY <1>0, <1>1, <1>3, <1>4, <1>5, <1>6, <1>7, <1>8, <1>9, <1>10, <1>11

\* While a job waits, nobody works on its run.
LEMMA WorkerWaits ==
    ASSUME NEW p, Procs = {p}, WorkerStep(p), CalmInv, Owned(p), Up(p),
           NEW v \in DOMAIN jobs, run.rev = v, ~Ended, jobs[v].status \notin {"queued", "running"}
    PROVE  /\ run'.rev = v /\ run'.status = run.status /\ ~Ended' /\ run'.stopped = run.stopped
           /\ run.job = v => run'.job = v
  <1>1. pc[p] \notin WorkPc \cup {"stop"}
    BY WorkerFacts DEF Owned, AtWork, JobIs, Rows
  <1>2. run'.rev = v /\ run'.status = run.status /\ run'.stopped = run.stopped
    BY <1>1, WorkerFacts
  <1>3. ~Ended'
    BY <1>2 DEF Ended
  <1>4. QED
    BY <1>2, <1>3, WorkerFacts

LEMMA WorkerCancels ==
    ASSUME NEW p, Procs = {p}, WorkerStep(p), CalmInv, Owned(p)
    PROVE  CancelFits' /\ AllHeld(p)' /\ Built(p)'
  <1>0. CancelFits /\ AllHeld(p)
    BY WorkerFacts DEF Owned, Rows
  <1>1. \A t \in Callers : pc'[t] = "cancelJob" => run'.stopped
    BY <1>0, WorkerFacts DEF CancelFits
  <1>2. ASSUME run.rev \in DOMAIN jobs, jobs'[run.rev].status = "running", jobs'[run.rev].cancel
        PROVE  run'.stopped
    <2>1. WorkerRow(p, run.rev)
      BY <1>2, WorkerFacts
    <2>2. jobs'[run.rev] = jobs[run.rev]
      BY <1>2, <2>1 DEF WorkerRow, J!Terminal
    <2>3. QED
      BY <1>0, <1>2, <2>2, WorkerFacts DEF CancelFits, JobIs
  <1>3. CancelFits'
    BY <1>1, <1>2, WorkerFacts DEF CancelFits, JobIs
  <1>4. ASSUME Up(p), NEW v \in DOMAIN jobs, jobs'[v].status = "running" PROVE work'[p].job = v
    <2>1. WorkerRow(p, v) /\ v # NoJob
      BY WorkerFacts DEF NoJob
    <2>2. CASE jobs'[v] = jobs[v]
      <3>1. work[p].job = v
        BY <1>0, <1>4, <2>2 DEF AllHeld
      <3>2. pc[p] \notin SettlePc \cup {"poll"}
        BY <1>4, <2>1, <2>2, <3>1, WorkerFacts DEF WorkerRow, J!Terminal
      <3>3. QED
        BY <3>1, <3>2, WorkerFacts
    <2>3. CASE jobs'[v] # jobs[v]
      BY <1>4, <2>1, <2>3 DEF WorkerRow, J!Terminal
    <2>4. QED
      BY <2>2, <2>3
  <1>5. AllHeld(p)'
    BY <1>4, WorkerFacts DEF AllHeld, Up
  <1>6. Built(p)'
    BY WorkerFacts DEF Built
  <1>7. QED
    BY <1>3, <1>5, <1>6

LEMMA WorkerAnswers ==
    ASSUME NEW p, Procs = {p}, WorkerStep(p), CalmInv, Owned(p)
    PROVE  AnswersFit(p)'
  <1> SUFFICES ASSUME phase[p] = "running" PROVE AnswersFit(p)'
    BY WorkerFacts DEF AnswersFit
  <1>0. /\ Up(p) /\ AnswersFit(p) /\ Left(p)
        /\ \A u \in Callers : pc[u] \in LinkedPc => seen[u].job \in DOMAIN jobs
    BY WorkerFacts DEF Up, Owned, Rows, RefInv, CopiesFit
  <1>1. ASSUME NEW t \in Callers, NEW v, v = seen[t].job, pc[t] \in {"approveJob", "rejectJob"},
               jobs'[v].status = "waiting_approval"
        PROVE  run'.stopped \/ Owns(v)'
    <2>1. v \in DOMAIN jobs /\ WorkerRow(p, v)
      BY <1>0, <1>1, WorkerFacts DEF LinkedPc
    <2>2. CASE jobs[v].status = "waiting_approval"
      <3>1. run.stopped \/ Owns(v)
        BY <1>0, <1>1, <2>2 DEF AnswersFit
      <3>2. ASSUME Owns(v) PROVE Owns(v)'
        <4>1. run.rev = v /\ run.job = v /\ ~Ended
          BY <3>2 DEF Owns
        <4>2. run'.rev = v /\ run'.job = v /\ ~Ended'
          BY <1>0, <2>1, <2>2, <4>1, WorkerWaits
        <4>3. QED
          BY <4>2 DEF Owns
      <3>3. QED
        BY <3>1, <3>2, WorkerFacts
    <2>3. CASE pc[p] = "pause" /\ v = work[p].job
      <3>1. UNCHANGED run /\ (run.stopped \/ Owns(v))
        BY <1>0, <2>3, WorkerFacts DEF Left, SettlePc
      <3>2. QED
        BY <3>1 DEF Owns, Ended
    <2>4. QED
      BY <1>1, <2>1, <2>2, <2>3 DEF WorkerRow
  <1>2. ASSUME NEW t \in Callers, pc[t] = "withdraw"
        PROVE  run'.stopped \/ (~Ended' /\ JobIs({"cancelled"})')
    <2>1. CASE run.stopped
      BY <2>1, WorkerFacts
    <2>2. CASE ~Ended /\ JobIs({"cancelled"})
      <3>1. run.rev \in DOMAIN jobs /\ jobs[run.rev].status = "cancelled"
        BY <2>2 DEF JobIs
      <3>2. run'.rev = run.rev /\ ~Ended'
        BY <1>0, <2>2, <3>1, WorkerWaits
      <3>3. WorkerRow(p, run.rev) /\ DOMAIN jobs' = DOMAIN jobs
        BY <3>1, WorkerFacts
      <3>4. jobs'[run.rev].status = "cancelled"
        BY <3>1, <3>3 DEF WorkerRow
      <3>5. QED
        BY <3>1, <3>2, <3>3, <3>4 DEF JobIs
    <2>3. QED
      BY <1>0, <1>2, <2>1, <2>2 DEF AnswersFit
  <1>3. \A t \in Callers : pc'[t] = pc[t] /\ seen'[t] = seen[t]
    BY WorkerFacts
  <1>4. QED
    BY <1>1, <1>2, <1>3 DEF AnswersFit

\* How the worker comes to the beginning of its work, and to a pause.
LEMMA WorkerBegins ==
    ASSUME NEW p \in Procs, WorkerStep(p), RefInv
    PROVE  /\ pc'[p] \in EarlyPc \cup {"pause"} =>
                 pc[p] \in EarlyPc \/ (ClaimRun(p) /\ Claims(work[p].job))
           /\ pc'[p] = "pause" => AskWait(p)
           /\ pc'[p] = "stop" => pc[p] \in WorkPc
           /\ pc'[p] = "finish" => (ClaimRun(p) /\ ~Claims(work[p].job)) \/ Complete(p)
           /\ pc'[p] = "cancel" =>
                 (pc[p] = "check0" /\ J!IsCancelRequested(Held(p))) \/ Stop(p)
           /\ pc'[p] = "fail" =>
                 \/ Reread(p) /\ run.status \in {"failed", "cancelled"}
                 \/ Pick(p) /\ \E i \in At("pending") : Ready(i) /\ NoPrevious(p, i)
                 \/ Deadlock(p) \/ StepFails(p)
                 \/ Start(p) /\ ~Starts(work[p].step)
                 \/ Progress(p) /\ Held(p).status # "running"
                 \/ Commit(p) /\ steps[work[p].step].status # "running"
  <1>0. pc \in [Threads -> Pc] /\ p \in Threads /\ Rows
    BY WorkerExists DEF WorkerActs
  <1>1. CASE Check(p)
    <2>1. pc'[p] = IF ~J!IsCancelRequested(Held(p)) THEN Onward(p)
                   ELSE IF pc[p] = "check0" THEN "cancel" ELSE "stop"
      BY <1>0, <1>1 DEF Check, Goto
    <2>2. QED
      BY <1>1, <2>1 DEF Check, Onward, EarlyPc, LoopPc, TryPc, WorkPc
  <1>2. CASE ClaimRun(p)
    <2>1. pc'[p] = IF Claims(work[p].job) THEN "check1" ELSE "finish"
      BY <1>0, <1>2 DEF ClaimRun, Goto
    <2>2. QED
      BY <1>2, <2>1 DEF EarlyPc
  <1>3. CASE Pick(p)
    <2> DEFINE next == {i \in At("pending") : Ready(i)}
    <2>1. CASE next = {}
      <3>1. pc'[p] \in {"deadlock", "completeRun"}
        BY <1>0, <1>3, <2>1 DEF Pick, Goto
      <3>2. QED
        BY <3>1 DEF EarlyPc
    <2>2. CASE next # {}
      <3>1. /\ pc'[p] = IF NoPrevious(p, MinOf(next)) THEN "fail" ELSE "start"
        BY <1>0, <1>3, <2>2 DEF Pick, Goto
      <3>2. next \subseteq Nat
        BY <1>0, RowsTyped DEF At
      <3>3. MinOf(next) \in next
        BY <2>2, <3>2, Least
      <3>4. QED
        BY <1>3, <3>1, <3>3 DEF EarlyPc
    <2>3. QED
      BY <2>1, <2>2
  <1>4. CASE AskWait(p) \/ Approve(p) \/ Prepare(p) \/ Reread(p) \/ ListSteps(p)
    BY <1>0, <1>4 DEF AskWait, Approve, Prepare, Reread, ListSteps, Goto, EarlyPc
  <1>5. CASE Deadlock(p) \/ Start(p) \/ StepFails(p) \/ Complete(p) \/ Stop(p) \/ Settle(p) \/ Claim(p)
    BY <1>0, <1>5 DEF Deadlock, Start, StepFails, Complete, Stop, Settle, Claim, Goto, EarlyPc
  <1>6. CASE Progress(p) \/ Commit(p) \/ Execute(p)
    BY <1>0, <1>6 DEF Progress, Commit, Execute, Goto, EarlyPc, WorkPc, TryPc
  <1>7. QED
    BY <1>1, <1>2, <1>3, <1>4, <1>5, <1>6 DEF WorkerStep

LEMMA WorkerFirst ==
    ASSUME NEW p, Procs = {p}, WorkerStep(p), CalmInv, Owned(p)
    PROVE  FirstLife(p)'
  <1> SUFFICES ASSUME lives = 0 PROVE FirstLife(p)'
    BY WorkerFacts DEF FirstLife
  <1>0. /\ FirstLife(p) /\ Up(p) /\ Left(p) /\ p \in Procs /\ RefInv
    BY WorkerFacts DEF Owned, Fresh, Rows, Up
  <1>1. ASSUME NEW v \in DOMAIN jobs, jobs'[v].status = "waiting_approval"
        PROVE  \/ Owns(v)'
               \/ run'.stopped /\ \E u \in Callers : pc'[u] = "cancelJob" /\ seen'[u].job = v
    <2>1. WorkerRow(p, v)
      BY WorkerFacts
    <2>2. CASE jobs[v].status = "waiting_approval"
      <3>1. ASSUME Owns(v) PROVE Owns(v)'
        <4>1. run.rev = v /\ run.job = v /\ ~Ended /\ jobs[v].status \notin {"queued", "running"}
          BY <2>2, <3>1 DEF Owns
        <4>2. run'.rev = v /\ run'.job = v /\ ~Ended'
          BY <1>0, <4>1, WorkerWaits
        <4>3. QED
          BY <4>2 DEF Owns
      <3>2. CASE run.stopped /\ \E u \in Callers : pc[u] = "cancelJob" /\ seen[u].job = v
        BY <3>2, WorkerFacts
      <3>3. QED
        BY <1>0, <2>2, <3>1, <3>2 DEF FirstLife
    <2>3. CASE pc[p] = "pause" /\ v = work[p].job /\ ~jobs[v].cancel
      <3>1. UNCHANGED run /\ (run.stopped \/ Owns(v))
        BY <1>0, <2>3, WorkerFacts DEF Left, SettlePc
      <3>2. CASE Owns(v)
        BY <3>1, <3>2 DEF Owns, Ended
      <3>3. CASE run.stopped
        <4>1. \E u \in Callers : pc[u] = "cancelJob" /\ seen[u].job = v
          BY <1>0, <2>3, <3>3 DEF FirstLife
        <4>2. QED
          BY <3>3, <4>1, WorkerFacts
      <3>4. QED
        BY <3>1, <3>2, <3>3
    <2>4. QED
      BY <1>1, <2>1, <2>2, <2>3 DEF WorkerRow
  <1>2. ASSUME pc'[p] \in EarlyPc \cup {"pause"}, run'.stopped
        PROVE  \/ jobs'[work'[p].job].cancel
               \/ \E u \in Callers : pc'[u] = "cancelJob" /\ seen'[u].job = work'[p].job
    <2>1. pc[p] \in EarlyPc
      <3>1. ~(ClaimRun(p) /\ Claims(work[p].job))
        BY <1>2, WorkerFacts DEF ClaimRun, Claims
      <3>2. QED
        BY <1>0, <1>2, <3>1, WorkerBegins
    <2>2. jobs' = jobs /\ work'[p].job = work[p].job /\ run.stopped
      BY <1>2, <2>1, WorkerFacts DEF EarlyPc, SettlePc
    <2>3. \/ jobs[work[p].job].cancel
          \/ \E u \in Callers : pc[u] = "cancelJob" /\ seen[u].job = work[p].job
      BY <1>0, <2>1, <2>2 DEF FirstLife
    <2>4. QED
      BY <2>2, <2>3, WorkerFacts
  <1>3. QED
    BY <1>1, <1>2, WorkerFacts DEF FirstLife

\* A worker that gives up its job leaves a run that has ended.
LEMMA WorkerFails ==
    ASSUME NEW p, Procs = {p}, WorkerStep(p), CalmInv, Owned(p), pc'[p] = "fail"
    PROVE  Ended'
  <1>0. /\ Rows /\ RefInv /\ Shapes /\ p \in Procs /\ Placed(p) /\ Undisturbed(p)
        /\ run \in Run /\ steps \in Seq(Step) /\ WorkerActs(p)
        /\ run.stopped => Ended
        /\ Ended => Ended'
        /\ pc[p] # "poll" => jobs[work[p].job].status = "running"
        /\ run.done \in Nat
    BY WorkerFacts, RowsTyped DEF CalmInv, OneInv, Rows, WorkerActs
  <1>1. CASE Reread(p) /\ run.status \in {"failed", "cancelled"}
    BY <1>0, <1>1 DEF Ended, RunTerminal
  <1>2. CASE Pick(p) /\ \E i \in At("pending") : Ready(i) /\ NoPrevious(p, i)
    <2>1. PICK i \in At("pending") : Ready(i) /\ NoPrevious(p, i)
      BY <1>2
    <2>2. work[p].done = 1 .. run.done
      BY <1>0, <1>2 DEF Pick, Placed, ListedPc
    <2>3. i \in Nat /\ i > 1
      BY <1>0, <2>1, RowsTyped DEF At, NoPrevious
    <2>4. i - 1 \in At("completed") /\ i - 1 \in Nat /\ i - 1 > 0
      BY <2>1, <2>3 DEF Ready, DependsOn, NoPrevious
    <2>5. i - 1 <= run.done
      BY <1>0, <2>4 DEF Shapes, StepsShape, Rows, At
    <2>6. i - 1 \in Earlier(p, i)
      BY <1>0, <2>2, <2>3, <2>4, <2>5 DEF Earlier
    <2>7. QED
      BY <2>1, <2>6 DEF NoPrevious
  <1>3. CASE Deadlock(p)
    BY <1>0, <1>3, MarkingFailed DEF Deadlock, Ended, RunTerminal
  <1>4. CASE StepFails(p)
    BY <1>0, <1>4, Failing DEF StepFails, Ended, RunTerminal
  <1>5. CASE Start(p) /\ ~Starts(work[p].step)
    <2> DEFINE i == work[p].step
    <2>1. /\ i \in DOMAIN steps /\ i = run.done + 1 /\ NoneRuns
          /\ StartStep(i, Input(p, i)) /\ Input(p, i) \in SUBSET Nat
      <3>1. pc[p] = "start" /\ work[p] \in Work
        BY <1>0, <1>5, CalmTyped DEF Start
      <3>2. QED
        BY <1>0, <1>5, <3>1, WorkerExists, InputTyped DEF Start, Placed, ChosenPc, ListedPc, LoopPc
    <2>2. CASE ~Ended
      <3>1. steps[i].status = "pending"
        BY <1>0, <2>1, <2>2 DEF Shapes, StepsShape, Rows, NoneRuns
      <3>2. Ready(i)
        BY <1>0, <2>1, ReadyNext DEF Shapes
      <3>3. Spent(i)
        BY <1>5, <2>2, <3>1, <3>2 DEF Starts
      <3>4. SetRun("failed")
        BY <1>5, <2>1, <2>2, <3>1, <3>3 DEF StartStep
      <3>5. QED
        BY <1>0, <3>4 DEF SetRun, Ended, RunTerminal, Run
    <2>3. QED
      BY <1>0, <2>2
  <1>6. CASE Progress(p) /\ Held(p).status # "running"
    BY <1>0, <1>6 DEF Progress, Held
  <1>7. CASE Commit(p) /\ steps[work[p].step].status # "running"
    BY <1>0, <1>7 DEF Commit, Undisturbed, TryPc
  <1>8. QED
    BY <1>0, <1>1, <1>2, <1>3, <1>4, <1>5, <1>6, <1>7, WorkerBegins

LEMMA WorkerLeaves ==
    ASSUME NEW p, Procs = {p}, WorkerStep(p), CalmInv, Owned(p), Up(p)
    PROVE  Left(p)' /\ AtWork(p)'
  <1>0. /\ Rows /\ RefInv /\ Shapes /\ p \in Procs /\ Undisturbed(p)
        /\ run \in Run /\ steps \in Seq(Step) /\ work[p] \in Work
        /\ run.stopped => run'.stopped /\ Ended
        /\ Ended => Ended'
        /\ run'.rev = run.rev /\ run.job \in {NoJob, run.rev}
        /\ CancelFits /\ AtWork(p)
    BY WorkerFacts, CalmTyped DEF CalmInv, Owned, Rows
  <1>1. ASSUME pc'[p] = "finish", work'[p].job = run.rev PROVE Ended'
    <2>1. CASE ClaimRun(p) /\ ~Claims(work[p].job)
      <3>1. work[p].job = run.rev
        BY <1>1, <2>1, WorkerFacts DEF ClaimRun, SettlePc
      <3>2. Ended
        BY <1>0, <2>1, <3>1 DEF Claims
      <3>3. QED
        BY <1>0, <3>2
    <2>2. CASE Complete(p)
      BY <1>0, <2>2, InputTyped, Finishing DEF Complete, Ended, RunTerminal
    <2>3. QED
      BY <1>0, <1>1, <2>1, <2>2, WorkerBegins
  <1>2. ASSUME pc'[p] = "cancel", work'[p].job = run.rev PROVE Ended'
    <2>1. CASE pc[p] = "check0" /\ J!IsCancelRequested(Held(p))
      <3>1. work[p].job = run.rev /\ run.rev \in DOMAIN jobs /\ jobs[run.rev].status = "running"
        BY <1>2, <2>1, WorkerFacts DEF SettlePc
      <3>2. jobs[run.rev].cancel
        BY <2>1, <3>1 DEF J!IsCancelRequested, J!Exists, Held
      <3>3. run.stopped
        BY <1>0, <3>1, <3>2 DEF CancelFits, JobIs
      <3>4. QED
        BY <1>0, <3>3
    <2>2. CASE Stop(p)
      BY <1>0, <2>2, Cancelling DEF Stop, Ended, RunTerminal
    <2>3. QED
      BY <1>0, <1>2, <2>1, <2>2, WorkerBegins
  <1>3. ASSUME pc'[p] = "pause"
        PROVE  run'.stopped \/ (Owns(work[p].job)' /\ run'.status = "waiting_approval")
    <2>1. AskWait(p)
      BY <1>0, <1>3, WorkerBegins
    <2>2. PICK v : v = work[p].job
      OBVIOUS
    <2>3. MarkWaiting(v) /\ work' = work /\ (Owns(v) \/ run.stopped)
      BY <1>0, <2>1, <2>2 DEF AskWait, Undisturbed, EarlyPc
    <2>4. CASE Owns(v)
      <3>1. run' = [run EXCEPT !.job = v, !.status = "waiting_approval"]
        BY <2>3, <2>4 DEF MarkWaiting, Claims, Owns
      <3>2. run'.rev = v /\ run'.job = v /\ run'.status = "waiting_approval"
        BY <1>0, <2>4, <3>1 DEF Run, Owns
      <3>3. ~Ended'
        BY <3>2 DEF Ended, RunTerminal
      <3>4. QED
        BY <2>2, <2>3, <3>2, <3>3 DEF Owns
    <2>5. QED
      BY <1>0, <2>3, <2>4
  <1>4. ASSUME pc'[p] \in WorkPc \cup {"stop"}
        PROVE  run'.stopped \/ run'.rev \notin DOMAIN jobs' \/ JobIs({"queued", "running"})'
    <2>1. CASE pc[p] \in WorkPc
      <3>1. UNCHANGED jobs
        BY <2>1, WorkerFacts DEF WorkPc, EarlyPc, LoopPc, TryPc, SettlePc
      <3>2. QED
        BY <1>0, <2>1, <3>1 DEF AtWork, JobIs
    <2>2. CASE ClaimRun(p) /\ Claims(work[p].job)
      <3>1. UNCHANGED jobs /\ work[p].job \in DOMAIN jobs /\ jobs[work[p].job].status = "running"
        BY <2>2, WorkerFacts DEF ClaimRun, SettlePc
      <3>2. QED
        BY <1>0, <2>2, <3>1 DEF Claims, JobIs
    <2>3. QED
      BY <1>0, <1>4, <2>1, <2>2, WorkEnters, WorkerBegins DEF WorkerActs
  <1>5. ASSUME pc'[p] \in {"finish", "cancel", "fail"}, work'[p].job = run'.rev PROVE Ended'
    BY <1>0, <1>1, <1>2, <1>5, WorkerFails
  <1>6. QED
    BY <1>3, <1>4, <1>5 DEF Left, AtWork

LEMMA WorkerSees ==
    ASSUME NEW p, Procs = {p}, WorkerStep(p), CalmInv, Owned(p), Up(p), ~Ended'
    PROVE  Seen(p)'
  <1>0. /\ ~Ended /\ Seen(p) /\ run'.rev = run.rev /\ DOMAIN jobs' = DOMAIN jobs
        /\ \A v \in DOMAIN jobs : WorkerRow(p, v)
        /\ run'.job \in {run.job, run.rev} /\ run'.job \in {NoJob, run.rev}
        /\ run.stopped => Ended
        /\ UNCHANGED <<phase, seen>> /\ \A t \in Callers : pc'[t] = pc[t]
        /\ Left(p) /\ Main[p] \in Callers /\ CancelFits
    BY WorkerFacts, CalmTyped DEF Owned, Rows
  <1>1. Linked => Linked'
    BY <1>0 DEF Linked
  <1>2. ASSUME JobIs({"queued", "running"})
        PROVE  \/ JobIs({"queued", "running"})'
               \/ Linked' /\ JobIs({"waiting_approval"})' /\ run'.status = "waiting_approval"
    <2>1. WorkerRow(p, run.rev) /\ run.rev \in DOMAIN jobs
      BY <1>0, <1>2 DEF JobIs
    <2>2. CASE pc[p] \in SettlePc /\ work[p].job = run.rev
      <3>1. pc[p] = "pause" /\ Owns(run.rev) /\ run.status = "waiting_approval" /\ UNCHANGED run
        BY <1>0, <2>2, WorkerFacts DEF Left, SettlePc
      <3>2. jobs'[run.rev].status = "waiting_approval"
        <4>1. jobs[run.rev].status = "running" /\ jobs'[run.rev].status \in J!Terminal \cup {"waiting_approval"}
          BY <2>1, <2>2, <3>1 DEF WorkerRow, SettlePc
        <4>2. ~jobs[run.rev].cancel
          BY <1>0, <2>1, <4>1 DEF CancelFits, JobIs
        <4>3. Settle(p) /\ work[p].job = run.rev
          BY <2>2, <3>1
             DEF WorkerStep, Claim, Check, ClaimRun, AskWait, Approve, Prepare, Reread, ListSteps,
                 Pick, Deadlock, Start, Progress, Execute, StepFails, Commit, Complete, Stop
        <4>4. Put(run.rev, J!WaitForApproval(jobs[run.rev]))
          BY <3>1, <4>3 DEF Settle, Settlement, Held
        <4>5. jobs'[run.rev] = J!WaitForApproval(jobs[run.rev])
          BY <4>4, PutFacts
        <4>6. jobs[run.rev] \in J!Row
          BY <2>1, WorkerFacts DEF RefInv, TypeOK
        <4>7. QED
          BY <4>1, <4>2, <4>5, <4>6 DEF J!WaitForApproval, J!Row
      <3>3. QED
        BY <1>0, <2>1, <3>1, <3>2 DEF Linked, JobIs, Owns
    <2>3. CASE ~(pc[p] \in SettlePc /\ work[p].job = run.rev)
      <3>1. jobs'[run.rev].status \in {"queued", "running"}
        BY <1>2, <2>1, <2>3 DEF WorkerRow, JobIs
      <3>2. QED
        BY <1>0, <2>1, <3>1 DEF JobIs
    <2>4. QED
      BY <2>2, <2>3
  <1>3. CASE phase[p] = "running" /\ run.rev \notin DOMAIN jobs /\ SeenTo("enqueue")
    BY <1>0, <1>3 DEF Seen, SeenTo
  <1>4. CASE phase[p] = "running" /\ run.job = NoJob /\ JobIs({"queued", "running"}) /\ SeenTo("link")
    <2>1. CASE run'.job = NoJob
      <3>1. JobIs({"queued", "running"})'
        BY <1>2, <1>4, <2>1, WorkerFacts DEF Linked, NoJob
      <3>2. QED
        BY <1>0, <1>4, <2>1, <3>1 DEF Seen, SeenTo
    <2>2. CASE run'.job # NoJob
      <3>1. Linked'
        BY <1>0, <1>4, <2>2 DEF Linked, JobIs
      <3>2. QED
        BY <1>2, <1>4, <3>1 DEF Seen
    <2>3. QED
      BY <2>1, <2>2
  <1>5. CASE Linked /\ JobIs({"queued", "running"})
    BY <1>1, <1>2, <1>5 DEF Seen
  <1>6. ASSUME JobIs({"waiting_approval"})
        PROVE  JobIs({"waiting_approval"})' /\ run'.status = run.status
    <2>1. run.rev \in DOMAIN jobs /\ jobs[run.rev].status \notin {"queued", "running"}
          /\ jobs[run.rev].status = "waiting_approval" /\ WorkerRow(p, run.rev)
      BY <1>0, <1>6 DEF JobIs
    <2>2. run'.status = run.status
      BY <1>0, <2>1, WorkerWaits
    <2>3. jobs'[run.rev].status = "waiting_approval"
      BY <2>1 DEF WorkerRow
    <2>4. QED
      BY <1>0, <2>1, <2>2, <2>3 DEF JobIs
  <1>7. CASE Linked /\ JobIs({"waiting_approval"}) /\ run.status = "waiting_approval"
    BY <1>1, <1>6, <1>7 DEF Seen
  <1>8. CASE Linked /\ \E t \in Callers : pc[t] = "withdraw"
    BY <1>0, <1>1, <1>8 DEF Seen
  <1>9. CASE Linked /\ phase[p] = "serving" /\ pc[Main[p]] \in {"list", "look", "markFailed"}
    BY <1>0, <1>1, <1>9 DEF Seen
  <1>10. CASE /\ Linked /\ phase[p] = "serving" /\ JobIs({"waiting_approval"})
              /\ pc[Main[p]] = "markWaiting"
    BY <1>0, <1>1, <1>6, <1>10 DEF Seen
  <1>11. QED
    BY <1>0, <1>3, <1>4, <1>5, <1>7, <1>8, <1>9, <1>10 DEF Seen

-----------------------------------------------------------------------------
(* Run and job agree: threads, the service, and the theorem. *)

\* Before a run is made there is nothing to agree.
LEMMA NothingYet ==
    ASSUME NEW p, RefInv, ~Exists, Fresh(p), ReadyFit(p) PROVE Owned(p)
  BY DEF Owned, RefInv, RunFits, RowsGoOn

LEMMA CallerReady ==
    ASSUME NEW p, Procs = {p}, NEW t \in Callers, Calm(t), RefInv, ReadyFit(p)
    PROVE  ReadyFit(p)' /\ phase' = phase /\ lives' = lives /\ pc'[p] = pc[p] /\ work' = work
  <1>0. /\ phase' = phase /\ work' = work /\ pc'[p] = pc[p]
        /\ \A u \in Callers \ {t} : pc'[u] = pc[u]
        /\ Main[p] \in Callers /\ Home[t] = p /\ t \in Threads
    <2>1. CallerActs(t)
      BY DEF Calm
    <2>2. QED
      BY <2>1, CallerFrame, CalmTyped
  <1>1. lives' = lives
    BY DEF Calm, CallerActs, CallerCalls, ThreadStep, Create, CreateAgain, CancelRun, Resolve, Resume,
           CancelJob, ResolveJob, CallerStep, Enqueue, Link, NoteWaiting, NoteFailed, Withdraw,
           CancelItsJob, Answer, List, Look, EnqueueRefused, CallFault, Fault, bounds
  <1>2. Done(t) => (pc'[t] = "ready" => phase[p] = "serving")
    <2>1. Done(t) => pc'[t] = Return(t)
      BY <1>0 DEF Done, Take, Goto, RefInv, TypeOK
    <2>2. QED
      BY <1>0, <2>1 DEF Return
  <1>3. \A label, copy : Take(t, label, copy) => pc'[t] = label
    BY CallerTakes
  <1>4. Done(t) \/ \E label \in Calling \cup {"look"} : \E copy : Take(t, label, copy)
    BY CallerAt
       DEF Calling, Enqueue, EnqueueRefused, CallerRaises, Link, NoteWaiting, NoteFailed, Withdraw,
           CancelItsJob, Answer, List, Look, Create, CancelRun, Resolve, Resume, Ensure
  <1>5. pc'[t] = "ready" => phase[p] = "serving"
    BY <1>2, <1>3, <1>4 DEF Calling
  <1>6. QED
    BY <1>0, <1>1, <1>5 DEF ReadyFit

\* The run is made, and its maker sees to its job.
LEMMA CallerMakes ==
    ASSUME NEW p, Procs = {p}, NEW t \in Callers, Calm(t), CalmInv, CalmInv', Owned(p), ~Exists
    PROVE  Owned(p)'
  <1>0. /\ RefInv /\ RefInv' /\ Fresh(p) /\ ReadyFit(p) /\ CallersFit(p)
        /\ phase[p] \in {"down", "starting", "serving", "running", "closing"}
        /\ DOMAIN jobs = {} /\ p \in Procs
        /\ \A u \in Callers : pc[u] \notin Calling \cup {"look"}
        /\ Main[p] \in Callers
    BY CalmTyped DEF CalmInv, OneInv, Owned, RefInv, RunFits
  <1>1. /\ ReadyFit(p)' /\ phase' = phase /\ lives' = lives /\ pc'[p] = pc[p] /\ work' = work
    BY <1>0, CallerReady
  <1>2. pc[t] \in {"idle", "list"}
    BY <1>0, CallerAt
  <1>3. CASE ~Create(t)
    <2>1. UNCHANGED run
      BY <1>0, <1>2, <1>3, CallerAt DEF List, CancelRun, Resolve, Resume, Exists, tables
    <2>2. ~Exists'
      BY <2>1 DEF Exists
    <2>3. Fresh(p)'
      BY <1>0, <1>1, <2>2 DEF Fresh
    <2>4. RefInv' /\ ~Exists' /\ Fresh(p)' /\ ReadyFit(p)' => Owned(p)'
      BY DEF Owned, RefInv, RunFits, RowsGoOn
    <2>5. QED
      BY <1>0, <1>1, <2>2, <2>3, <2>4
  <1>4. CASE Create(t)
    <2>1. phase[p] \in {"running", "closing"}
      BY <1>0, <1>4 DEF Create, IdleCaller, CallersFit, DownFit, BuildFit
    <2>2. PICK q \in Requests : run' = NewRun(q) /\ Ensure(t, CopyOf(NewRun(q))) /\ UNCHANGED jobs
      BY <1>4 DEF Create
    <2>3. run'.rev = 1 /\ run'.status = "queued" /\ CopyOf(NewRun(q)).status = "queued"
          /\ CopyOf(NewRun(q)).rev = 1 /\ ~run'.stopped
      BY <2>2 DEF NewRun, CopyOf
    <2>4. Take(t, "enqueue", CopyOf(NewRun(q)))
      BY <2>2, <2>3 DEF Ensure, RunTerminal
    <2>5. pc'[t] = "enqueue" /\ seen'[t].rev = run'.rev
      BY <1>0, <2>3, <2>4, CallerTakes
    <2>6. \A u \in Callers \ {t} : pc'[u] = pc[u]
      BY <1>0, CalmTyped, CallerFrame, ZenonT(30) DEF Calm
    <2>7. DOMAIN jobs' = {} /\ pc'[p] \in {"poll", "down"}
      <3>1. work[p].job = NoJob
        BY <1>0 DEF RefInv, WorkFits
      <3>2. pc[p] \in {"poll", "down"}
        BY <1>0, <3>1 DEF RefInv, ThreadsFit, Busy
      <3>3. QED
        BY <1>0, <1>1, <2>2, <3>2
    <2>8. Fresh(p)'
      BY <1>0, <1>1, <2>1 DEF Fresh
    <2>9. RowsGoOn' /\ CancelFits' /\ Built(p)' /\ AllHeld(p)'
      BY <1>0, <1>1, <2>1, <2>5, <2>6, <2>7
         DEF RowsGoOn, CancelFits, Built, AllHeld, JobIs, Calling
    <2>10. AnswersFit(p)' /\ FirstLife(p)'
      BY <1>0, <2>5, <2>6, <2>7 DEF AnswersFit, FirstLife, EarlyPc, Calling
    <2>11. Left(p)' /\ AtWork(p)'
      BY <2>7 DEF Left, AtWork, WorkPc, EarlyPc, LoopPc, TryPc
    <2>12. Up(p)' => Seen(p)'
      BY <1>1, <2>1, <2>5, <2>7 DEF Up, Seen, SeenTo
    <2>13. QED
      BY <1>1, <2>8, <2>9, <2>10, <2>11, <2>12 DEF Owned
  <1>5. QED
    BY <1>3, <1>4

\* A caller's step keeps what is agreed.
LEMMA CallerOwned ==
    ASSUME NEW p, Procs = {p}, NEW t \in Callers, Calm(t), CalmInv, CalmInv', Owned(p)
    PROVE  Owned(p)'
  <1> SUFFICES ASSUME Exists PROVE Owned(p)'
    BY CallerMakes
  <1>1. /\ ReadyFit(p)' /\ phase' = phase /\ lives' = lives
    BY CallerReady DEF CalmInv, OneInv, Owned
  <1>2. RowsGoOn' /\ Exists'
    BY CallerFacts
  <1>3. Fresh(p)'
    BY <1>1 DEF Owned, Fresh
  <1>4. CancelFits' /\ Built(p)' /\ AllHeld(p)' /\ AnswersFit(p)' /\ FirstLife(p)'
    BY CallerCancels, CallerBuilds, CallerHeld, CallerAnswers, CallerFirst
  <1>5. Up(p)' => Up(p)
    BY <1>1 DEF Up
  <1>6. Up(p)' => Left(p)' /\ AtWork(p)'
    BY <1>5, CallerLeaves
  <1>7. Up(p)' /\ ~Ended' => Seen(p)'
    BY <1>5, CallerSees
  <1>8. QED
    BY <1>1, <1>2, <1>3, <1>4, <1>6, <1>7 DEF Owned

\* A worker's step keeps what is agreed.
LEMMA WorkerOwned ==
    ASSUME NEW p, Procs = {p}, WorkerStep(p), CalmInv, Owned(p)
    PROVE  Owned(p)'
  <1>1. UNCHANGED <<phase, lives>> /\ (\A t \in Callers : pc'[t] = pc[t]) /\ Rows /\ RefInv
    BY WorkerFacts
  <1>2. RowsGoOn'
    BY WorkerFacts
  <1>3. Fresh(p)' /\ ReadyFit(p)'
    BY <1>1, CalmTyped DEF Owned, Fresh, ReadyFit, Rows
  <1>4. CancelFits' /\ Built(p)' /\ AllHeld(p)' /\ AnswersFit(p)' /\ FirstLife(p)'
    BY WorkerCancels, WorkerAnswers, WorkerFirst
  <1>5. Up(p)' => Up(p)
    BY <1>1 DEF Up
  <1>6. Up(p)' => Left(p)' /\ AtWork(p)'
    BY <1>5, WorkerLeaves
  <1>7. Up(p)' /\ ~Ended' => Seen(p)'
    BY <1>5, WorkerSees
  <1>8. QED
    BY <1>2, <1>3, <1>4, <1>6, <1>7 DEF Owned

\* The service is built, closed and crashes.
LEMMA LifeFresh ==
    ASSUME NEW p, Procs = {p}, LifeActs(p), RefInv, Fresh(p)
    PROVE  /\ Fresh(p)'
           /\ Close(p) \/ End(p) => lives' # 0
  <1>0. /\ p \in Procs /\ phase \in [Procs -> {"down", "starting", "serving", "running", "closing"}]
        /\ lives \in Nat /\ UNCHANGED run
    BY LifeMoves DEF RefInv, TypeOK
  <1>1. Exists' <=> Exists
    BY <1>0 DEF Exists
  <1>2. CASE Close(p) \/ Crash(p)
    <2>1. lives' = lives + 1
      BY <1>2 DEF Close, Crash
    <2>2. QED
      BY <1>0, <2>1 DEF Fresh
  <1>3. CASE Exit(p)
    <2>1. lives' = lives /\ lives # 0
      BY <1>3 DEF Exit, Fresh
    <2>2. QED
      BY <2>1 DEF Fresh
  <1>4. CASE Constructs(p)
    <2>1. /\ lives' = lives /\ phase'[p] \in {"starting", "serving", "running"}
          /\ phase'[p] # "running" => phase[p] # "running"
      BY <1>0, <1>4 DEF Constructs, Boot, Recover, Serve, bounds, RefInv, ThreadsFit
    <2>2. /\ Close(p) => phase'[p] = "closing"
          /\ End(p) => phase'[p] = "down"
      BY <1>0 DEF Close, End
    <2>3. QED
      BY <1>1, <2>1, <2>2 DEF Fresh
  <1>5. QED
    BY <1>2, <1>3, <1>4 DEF LifeActs

\* recover_interrupted leaves no job running.
LEMMA RecoverRows ==
    ASSUME NEW p, Procs = {p}, Recover(p), RefInv, RowsGoOn
    PROVE  /\ RowsGoOn' /\ DOMAIN jobs' = DOMAIN jobs
           /\ \A v \in DOMAIN jobs : jobs'[v].status # "running"
  <1>1. jobs' = [v \in DOMAIN jobs |-> J!Recover(jobs[v], FALSE)]
    <2>1. PICK skipped \in SUBSET {v \in DOMAIN jobs : jobs[v].status = "running"} :
             /\ skipped # {} => \E q \in Procs \ {p} : phase[q] # "down"
             /\ jobs' = [v \in DOMAIN jobs |-> IF v \in skipped THEN jobs[v]
                                                               ELSE J!Recover(jobs[v], FALSE)]
      BY DEF Recover
    <2>2. skipped = {}
      BY <2>1
    <2>3. QED
      BY <2>1, <2>2
  <1>2. ASSUME NEW v \in DOMAIN jobs
        PROVE  GoesOn(jobs'[v]) /\ jobs'[v].status # "running"
    <2>1. jobs[v] \in J!Row /\ GoesOn(jobs[v]) /\ jobs'[v] = J!Recover(jobs[v], FALSE)
      BY <1>1 DEF RefInv, TypeOK, RowsGoOn
    <2>2. GoesOn(jobs'[v])
      BY <2>1, RowGoesOn
    <2>3. jobs'[v].status # "running"
      BY <2>1 DEF J!Recover, J!Cancelled, J!Failed, J!Row
    <2>4. QED
      BY <2>2, <2>3
  <1>3. QED
    BY <1>1, <1>2 DEF RowsGoOn

LEMMA RecoverOwned ==
    ASSUME NEW p, Procs = {p}, Recover(p), CalmInv, Owned(p), Fresh(p)' PROVE Owned(p)'
  <1>0. /\ RefInv /\ p \in Procs /\ p \in Threads /\ Main[p] \in Callers /\ p \notin Callers
        /\ pc \in [Threads -> Pc] /\ Callers \subseteq Threads /\ CallersFit(p)
        /\ DOMAIN phase = Procs
    BY CalmTyped DEF CalmInv, OneInv
  <1>1. /\ phase[p] = "starting" /\ phase'[p] = "serving" /\ run' = run /\ seen' = seen
        /\ pc' = [pc EXCEPT ![Main[p]] = "list", ![p] = "poll"] /\ pc[Main[p]] = "recover"
    BY <1>0 DEF Recover, RefInv, ThreadsFit
  <1>2. pc'[p] = "poll" /\ pc'[Main[p]] = "list" /\ \A t \in Callers : pc'[t] \in {"list", "down"}
    BY <1>0, <1>1 DEF CallersFit, BuildFit
  <1>3. /\ RowsGoOn' /\ DOMAIN jobs' = DOMAIN jobs
        /\ \A v \in DOMAIN jobs : jobs'[v].status # "running"
    BY <1>0, RecoverRows DEF Owned
  <1>4. (Ended' <=> Ended) /\ (Exists' <=> Exists)
    BY <1>1 DEF Ended, Exists
  <1>5. ReadyFit(p)' /\ CancelFits' /\ Built(p)' /\ AllHeld(p)' /\ AnswersFit(p)'
    BY <1>1, <1>2, <1>3 DEF ReadyFit, CancelFits, JobIs, Built, AllHeld, AnswersFit
  <1>6. Left(p)' /\ AtWork(p)'
    BY <1>2 DEF Left, AtWork, WorkPc, EarlyPc, LoopPc, TryPc
  <1>7. Exists' => FirstLife(p)'
    BY <1>1 DEF FirstLife, Fresh
  <1>8. Exists' /\ ~Ended' => Seen(p)'
    <2>1. Exists /\ ~Ended => Linked
      BY <1>1 DEF Owned, Built
    <2>2. Linked => Linked'
      BY <1>1, <1>3 DEF Linked
    <2>3. QED
      BY <1>1, <1>2, <1>4, <2>1, <2>2 DEF Seen
  <1>9. QED
    BY <1>3, <1>5, <1>6, <1>7, <1>8 DEF Owned

LEMMA ServeOwned ==
    ASSUME NEW p, Procs = {p}, Serve(p), CalmInv, Owned(p), Fresh(p)' PROVE Owned(p)'
  <1>0. /\ p \in Procs /\ p \in Threads /\ Main[p] \in Callers /\ p \notin Callers
        /\ pc \in [Threads -> Pc] /\ Callers \subseteq Threads /\ CallersFit(p)
        /\ DOMAIN phase = Procs /\ \A t \in Callers : HomeOf(t) = p
    BY CalmTyped DEF CalmInv, OneInv
  <1>1. /\ phase[p] = "serving" /\ phase'[p] = "running" /\ UNCHANGED <<tables, seen, work, lives>>
        /\ pc[Main[p]] = "ready"
    BY <1>0 DEF Serve, Owned, ReadyFit, bounds
  <1>2. pc'[p] = pc[p] /\ \A t \in Callers : pc'[t] = "idle"
    BY <1>0 DEF Serve
  <1>3. \A t \in Callers : pc[t] \in {"down", "ready"}
    BY <1>0, <1>1 DEF CallersFit, BuildFit
  <1>4. (Ended' <=> Ended) /\ (Exists' <=> Exists) /\ (Linked' <=> Linked) /\ RowsGoOn'
        /\ \A states : JobIs(states)' <=> JobIs(states)
    BY <1>1 DEF Ended, Exists, Linked, JobIs, tables, Owned, RowsGoOn
  <1>5. ReadyFit(p)' /\ Built(p)' /\ AnswersFit(p)'
    BY <1>0, <1>1, <1>2 DEF ReadyFit, Built, AnswersFit
  <1>6. Exists => CancelFits' /\ AllHeld(p)' /\ Left(p)' /\ AtWork(p)'
    BY <1>1, <1>2, <1>4 DEF Owned, CancelFits, JobIs, AllHeld, Up, Left, AtWork, Owns, Ended, tables
  <1>7. Exists' => FirstLife(p)'
    BY <1>1, <1>4 DEF Owned, FirstLife, Fresh
  <1>8. Exists /\ ~Ended => Seen(p)'
    <2>1. Exists /\ ~Ended => Seen(p)
      BY <1>1 DEF Owned, Up
    <2>2. Seen(p) => Linked /\ (JobIs({"queued", "running"})
                                  \/ (JobIs({"waiting_approval"}) /\ run.status = "waiting_approval"))
      BY <1>0, <1>1, <1>3 DEF Seen
    <2>3. run' = run
      BY <1>1 DEF tables
    <2>4. QED
      BY <1>4, <2>1, <2>2, <2>3 DEF Seen
  <1>9. QED
    BY <1>4, <1>5, <1>6, <1>7, <1>8 DEF Owned

LEMMA LifeOwned ==
    ASSUME NEW p, Procs = {p}, LifeActs(p), CalmInv, Owned(p) PROVE Owned(p)'
  <1>0. /\ RefInv /\ p \in Procs /\ p \in Threads /\ Main[p] \in Callers /\ p \notin Callers
        /\ pc \in [Threads -> Pc] /\ Callers \subseteq Threads /\ CallersFit(p)
        /\ DOMAIN phase = Procs /\ \A t \in Callers : HomeOf(t) = p
    BY CalmTyped DEF CalmInv, OneInv
  <1>1. Fresh(p)' /\ (Close(p) \/ End(p) => lives' # 0)
    BY <1>0, LifeFresh DEF Owned
  <1>2. UNCHANGED run
    BY <1>0, LifeMoves
  <1>3. (Ended' <=> Ended) /\ (Exists' <=> Exists)
    BY <1>2 DEF Ended, Exists
  <1>4. ASSUME jobs' = jobs, phase'[p] \in {"starting", "closing", "down"},
               \A t \in Callers : pc'[t] \in {"down", "list", pc[t]},
               pc'[Main[p]] \in {"down", "list"},
               phase'[p] = "starting" => pc'[Main[p]] = "list",
               Exists => lives' # 0
        PROVE  Owned(p)'
    <2>1. RowsGoOn' /\ ReadyFit(p)'
      BY <1>4 DEF Owned, RowsGoOn, ReadyFit
    <2>2. Exists => CancelFits'
      BY <1>2, <1>4 DEF Owned, CancelFits, JobIs
    <2>3. Built(p)' /\ AllHeld(p)' /\ AnswersFit(p)' /\ ~Up(p)'
      BY <1>4 DEF Built, AllHeld, AnswersFit, Up
    <2>4. Exists => FirstLife(p)'
      BY <1>4 DEF FirstLife
    <2>5. QED
      BY <1>1, <1>3, <2>1, <2>2, <2>3, <2>4 DEF Owned
  <1>5. CASE Boot(p)
    <2>1. /\ jobs' = jobs /\ lives' = lives /\ phase[p] = "down" /\ phase'[p] = "starting"
          /\ pc'[Main[p]] = "list" /\ \A t \in Callers : pc'[t] \in {"list", pc[t]}
      BY <1>0, <1>5 DEF Boot, Goto, tables, bounds
    <2>2. Exists => lives' # 0
      BY <2>1 DEF Owned, Fresh
    <2>3. QED
      BY <1>4, <2>1, <2>2
  <1>6. CASE Close(p)
    <2>1. /\ jobs' = jobs /\ phase'[p] = "closing" /\ pc'[Main[p]] = "down"
          /\ \A t \in Callers : pc'[t] \in {"down", pc[t]}
      BY <1>0, <1>6 DEF Close, Goto, tables
    <2>2. QED
      BY <1>1, <1>4, <1>6, <2>1
  <1>7. CASE End(p)
    <2>1. /\ jobs' = jobs /\ phase'[p] = "down" /\ \A t \in Callers : pc'[t] = "down"
      BY <1>0, <1>7 DEF End, tables
    <2>2. QED
      BY <1>0, <1>1, <1>4, <1>7, <2>1
  <1>8. QED
    BY <1>0, <1>1, <1>5, <1>6, <1>7, LifeMoves, RecoverOwned, ServeOwned

\* Nothing has raised, or run and job agree.
OwnInv == faults = 0 => \A p \in Procs : Owned(p)

LEMMA OwnInit ==
    ASSUME Init, RefInv PROVE OwnInv
  <1>1. ~Exists /\ \A p \in Procs : phase[p] = "down" /\ pc[Main[p]] = "down"
    BY OrchestrationAssumption DEF Init, Exists, NoRun, Threads
  <1>2. \A p \in Procs : Fresh(p) /\ ReadyFit(p)
    BY <1>1 DEF Fresh, ReadyFit
  <1>3. QED
    BY <1>1, <1>2, NothingYet DEF OwnInv

\* What has raised is not forgotten.
LEMMA FaultsGrow ==
    ASSUME [Next]_vars, faults \in Nat, faults' = 0
    PROVE  /\ faults = 0
           /\ \A p \in Procs : ~ClaimFault(p) /\ ~WorkerFault(p)
  <1>1. Fault => FALSE
    BY DEF Fault
  <1>2. \A t \in Callers : CallerActs(t) => faults' = faults
    BY <1>1
       DEF CallerActs, CallerCalls, ThreadStep, Create, CreateAgain, CancelRun, Resolve, Resume,
           CancelJob, ResolveJob, CallerStep, Enqueue, Link, NoteWaiting, NoteFailed, Withdraw,
           CancelItsJob, Answer, List, Look, EnqueueRefused, CallFault, bounds
  <1>3. \A p \in Procs : WorkerStep(p) => faults' = faults
    BY DEF WorkerStep, Claim, Check, ClaimRun, AskWait, Approve, Prepare, Reread, ListSteps, Pick,
           Deadlock, Start, Progress, Execute, StepFails, Commit, Complete, Stop, Settle, bounds
  <1>4. \A p \in Procs : LifeActs(p) => faults' = faults
    BY DEF LifeActs, Constructs, Boot, Recover, Serve, Close, Exit, Crash, End, bounds
  <1>5. \A p \in Procs : ~ClaimFault(p) /\ ~WorkerFault(p)
    BY <1>1 DEF ClaimFault, WorkerFault
  <1>6. QED
    BY <1>2, <1>3, <1>4, <1>5, Actors DEF WorkerActs, vars, bounds

LEMMA OwnStep ==
    ASSUME NEW p, Procs = {p}, ~Recreates, ~JobCalls, CalmInv, OwnInv, [Next]_vars PROVE OwnInv'
  <1> SUFFICES ASSUME faults' = 0 PROVE Owned(p)'
    BY DEF OwnInv
  <1>0. faults = 0 /\ CalmInv' /\ Owned(p) /\ ~ClaimFault(p) /\ ~WorkerFault(p)
    <2>1. faults \in Nat
      BY DEF CalmInv, OneInv, RefInv, TypeOK
    <2>2. QED
      BY <2>1, FaultsGrow, CalmStep DEF OwnInv
  <1>1. ASSUME NEW t \in Callers, CallerActs(t) PROVE Owned(p)'
    <2>1. Calm(t)
      BY <1>0, <1>1 DEF Calm
    <2>2. QED
      BY <1>0, <2>1, CallerOwned
  <1>2. CASE WorkerStep(p)
    BY <1>0, <1>2, WorkerOwned
  <1>3. CASE LifeActs(p)
    BY <1>0, <1>3, LifeOwned
  <1>4. CASE UNCHANGED vars
    BY <1>0, <1>4
       DEF vars, tables, bounds, Owned, Fresh, ReadyFit, RowsGoOn, CancelFits, Built, AllHeld,
           AnswersFit, FirstLife, Up, Left, AtWork, Seen, SeenTo, Linked, JobIs, Owns, Exists, Ended
  <1>5. QED
    BY <1>0, <1>1, <1>2, <1>3, <1>4, Actors DEF WorkerActs

\* What is left to see to when every thread is between two pieces of work.
LEMMA QuietFits ==
    ASSUME NEW p, Procs = {p}, CalmInv, OwnInv PROVE RunFitsJob
  <1> SUFFICES ASSUME Quiet, Exists, faults = 0 PROVE RunFitsJob
    BY DEF RunFitsJob
  <1>0. /\ Owned(p) /\ RefInv /\ p \in Procs /\ p \in Threads /\ Callers \subseteq Threads
        /\ Main[p] \in Callers
    BY CalmTyped DEF CalmInv, OneInv, OwnInv
  <1>1. phase[p] = "running" /\ \A t \in Threads : pc[t] \in {"down", "idle", "poll"}
    BY <1>0 DEF Quiet
  <1>2. Up(p)
    BY <1>1 DEF Up
  <1>3. ASSUME lives = 0, NEW v \in DOMAIN jobs, jobs[v].status = "waiting_approval"
        PROVE  ~Ended
    BY <1>0, <1>1, <1>3 DEF Owned, FirstLife, Owns
  <1>4. ASSUME ~Ended
        PROVE  /\ run.job = run.rev
               /\ jobs[run.job].status \in {"queued", "waiting_approval"}
               /\ jobs[run.job].status = "waiting_approval" => run.status = "waiting_approval"
    <2>1. Seen(p)
      BY <1>0, <1>2, <1>4 DEF Owned
    <2>2. Linked /\ (JobIs({"queued", "running"})
                       \/ (JobIs({"waiting_approval"}) /\ run.status = "waiting_approval"))
      BY <1>0, <1>1, <2>1 DEF Seen, SeenTo
    <2>3. jobs[run.rev].status # "running"
      <3>1. work[p].job = NoJob
        BY <1>0, <1>1 DEF RefInv, ThreadsFit, Busy, WorkerPc
      <3>2. run.rev \in DOMAIN jobs /\ run.rev # NoJob
        BY <1>0, <2>2 DEF Linked, RefInv, TypeOK, NoJob
      <3>3. QED
        BY <1>0, <1>2, <3>1, <3>2 DEF Owned, AllHeld
    <2>4. QED
      BY <2>2, <2>3 DEF Linked, JobIs
  <1>5. QED
    BY <1>3, <1>4 DEF RunFitsJob

\* When the service is up and at rest, a run that has not ended has the job of
\* its revision, still to run or known to wait, and a run that has ended leaves
\* no question open unless a crash or a close came in between.  This relates
\* two tables that the threads of a process write one after the other, and
\* holds for any number of callers, crashes, steps, answers and resumes, when
\* no call raised and callers neither repeat create_run nor use the commands of
\* jobs; with one process.
THEOREM RunHasItsJob ==
    ASSUME OneProcess PROVE Spec => []RunFitsJob
  <1>1. CASE Recreates \/ JobCalls
    <2>1. RunFitsJob
      BY <1>1 DEF RunFitsJob
    <2>2. QED
      BY <2>1, PTL
  <1>2. CASE ~Recreates /\ ~JobCalls
    <2>1. Init => OwnInv
      BY RefInit, OwnInit
    <2>2. CalmInv /\ OwnInv /\ [Next]_vars => OwnInv'
      BY <1>2, OwnStep DEF OneProcess
    <2>3. CalmInv /\ OwnInv => RunFitsJob
      BY QuietFits DEF OneProcess
    <2>4. Spec => []CalmInv
      BY <1>2, CalmAlways
    <2>5. QED
      BY <2>1, <2>2, <2>3, <2>4, PTL DEF Spec
  <1>3. QED
    BY <1>1, <1>2
=============================================================================
