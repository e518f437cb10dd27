# AIKA: specifications, model checks and proofs

AIKA is an assistant that runs on a local language model. The Python program
keeps conversations, memories, background jobs, reminders and multi-agent runs
in PostgreSQL (`src/src/`). This directory holds TLA+ modules for its
concurrent and durable parts and for the loops that answer a request, the TLC
configurations that check them on small instances, and proofs that hold for
every size.

## 1. Inventory

### Components and the state they keep

| Component | Code | State | Operations |
|---|---|---|---|
| Durable jobs | `jobs/runtime.py`, `repositories/job_repository.py` | tables `jobs`, `job_events`; per process: registered job types, `_started`, `_closed`, one worker thread | enqueue, cancel, resolve approval, start (recovery), close; worker: claim, run handler, complete / wait / fail / mark cancelled |
| Reminders | `reminders/*`, `repositories/reminder_repository.py` | tables `reminders`, `reminder_occurrences`; the job each active reminder is linked to | create, reschedule, cancel, acknowledge, reconcile; job handler `_deliver` |
| Persistent orchestration | `orchestration/*`, `repositories/orchestration_repository.py` | tables `orchestration_runs`, `orchestration_steps` | create, cancel, resolve approval, resume, reconcile; job handler `_execute_run` |
| Application service | `application/service.py`, `confirmation.py`, `events.py` | the one active operation and its event queue, pending confirmations, `_closed`, the brain lock | stream, submit, cancel_active, resolve_confirmation, close, and the façade of the durable parts |
| Agent loop | `brain/agent_loop.py`, `agent_context.py` | of each run: its turn, what was done, the final response; shared by all runs: `last_run_status`, `last_tools_used`, `_last_call_used_tool_fallback` | run, run_stream: choose a tool, call it, delegate, answer; the legacy loop of decisions and routes |
| Brain | `brain/brain.py`, `router.py`, `decision_engine.py` | current agent and session, background executor with memory and summary tasks | process, process_stream and their commands on sessions, agents and skills; close |
| Conversations, sessions, memories | `repositories/*`, `handlers/response_finalizer.py`, `chat_handler.py`, `memory_extractor.py` | tables `conversations`, `sessions`, `memories`; the chat handler's copy of the session | store a turn, count it, trim, extract, delete, clear |
| Agents and skills | `agents/agent_registry.py`, `skills/manager.py` | profiles, `data/agents.json`, persona files; the skill each session has active | create, set tools, model or persona; activate, deactivate, reload |
| Configuration | `config/settings.py`, `handlers/config_handler.py` | the settings, the copies components make of them, the environment, `.env` | !set, !model, !log, !save, !reload |
| In-memory orchestrator | `brain/orchestrator.py`, `shared_context.py` | the shared context of one command | delegate, run_chain, run_parallel, run_team |
| Model routing, prompt budget | `brain/model_router.py`, `prompt_budgeter.py`, `context_manager.py` | none between calls | select a model, escalate, fit a prompt |
| Plan executor | `planner/*` | results of the steps of one plan | plan and run the steps in one thread |
| Tools | `tools/*` | registered tools, permission handlers | execute with permission and confirmation |
| Research, LLM client, schema, CLI | the remaining packages | none, or what an external service keeps | request and response processing |

### How they interact

* Reminders and orchestration are clients of the job substrate: each registers
  a job type, enqueues jobs under idempotency keys derived from its own rows,
  and reconciles its rows with the jobs table when the process starts.
* `AikaService.__init__` starts reminders, then orchestration (both enqueue
  jobs), then the job runtime (recovery and worker), then reconciles again.
* A job handler of orchestration runs the brain, under the service's brain
  lock; the brain calls tools; a tool that needs permission asks the service,
  which asks the user through the confirmation coordinator.
* The brain answers a message in one of two ways: the chat handler asks a model
  once, or the agent loop lets a model choose tools in turns. Tools, the router
  and the orchestrator may start further runs of the same loop object, in the
  same thread or in the threads of a pool.
* What was said is stored before and after the answer, in transactions of their
  own; what is learnt from it is left to the background executor.
* PostgreSQL is the only state of these that several processes share.

### What is hard

* **Jobs.** A cancellation, an approval, a retry timer, a crash and a second
  process all act on one row. Correct means: attempts are accounted for, an
  unsafe job is never repeated on its own, a requested cancellation sticks, a
  finished job is final, an idempotency key is one job, nothing is stranded.
* **Reminders.** Delivery is a transaction, a notification and an enqueue with
  crashes in between, while the user reschedules or cancels. Correct means:
  one occurrence per revision and time, no delivery of a cancelled or
  superseded schedule, every active reminder eventually has a live job.
* **Orchestration.** Steps run once each in dependency order, approvals gate
  the run, cancel and resume race the worker. Correct means: the status of a
  run agrees with its steps and its job, no completed step is repeated.
* **Service.** Answer, timeout, cancel and close race for one confirmation and
  one active operation. Correct means: one answer per question, refused by
  default, one active operation, and close always returns.
* **Agent loop.** One object serves runs that nest and runs in several threads,
  and keeps fields they all write. Correct means: a model that was only asked
  to choose a tool does not word the answer, a tool that fails is not tried for
  ever, and every request ends, whatever its agents ask of each other.
* **What is stored of a request.** Rows, counts, trims, sessions, memories,
  profiles, activations and settings are changed by separate steps, each of
  which may fail, be left by its reader or be cut short by the process's end,
  and several are copies of each other. Correct means: turns are whole, copies
  agree, and what was saved comes back.

Every hazard is listed at its line in `PROJECT.json`.

## 2. Plan

1. `JobRows`, `DurableJobs`, `JobLifecycle` (abstract), proofs - **done**.
2. `Recurrence`, `Reminders`, `Schedules` - **modelled, checked, and every
   safety property of the runs proved**.
3. `Orchestration` - **modelled, checked, and every safety property of the
   runs proved**, most of them for one process.
4. `Service` - **modelled, checked, and every safety property proved**.
5. `Dispatch`, `AgentLoop`, `Settings`, and `Brain`, which composes them with
   the store - **modelled, checked, and every safety property proved**.
6. Optional: back-off and the prompt budget as operators against a reference
   definition.

## 3. Modules

| Module | Models |
|---|---|
| `JobRows` | one row of `jobs` with its `job_events`; every method of `JobRepository` as an operator from row to row |
| `DurableJobs` | the jobs table, callers, processes, worker threads, crashes, failing database calls |
| `JobLifecycle` | what the substrate promises about one job; the abstract specification |
| `MCDurableJobs` | the instances TLC checks |
| `Recurrence` | `next_occurrence`: interval, daily and weekly, in a zone whose offset changes |
| `Reminders` | reminders, occurrences, their delivery jobs; callers, the worker's `_deliver`, `_ensure_job`, start-up, crashes and raising calls |
| `Schedules` | what a schedule should give, from a definition of the instants it stands for |
| `MCReminders`, `MCSchedules` | the instances TLC checks; the second with zones and a calendar |
| `Orchestration` | a run, its steps and jobs; callers, the worker's `_execute_run`, the constructor with its two reconciliations, crashes and raising calls |
| `MCOrchestration` | the instances TLC checks |
| `Service` | the active request and its thread, confirmations, the gate of tools with high permission, cancellation, the brain's lock and background pool, durable steps, close |
| `MCService` | the instances TLC checks |
| `Dispatch` | which action, and which tool, a message is taken to be for: the chains of tests of `decision_engine.py` and `router.py` |
| `AgentLoop` | the loop of calls, the legacy loop, chains, teams and pools: activations as frames on a stack for each thread, and the fields they share |
| `Settings` | the settings, the copies components keep, the environment and `.env` |
| `Brain` | a user's requests from the command to what is stored of them, over `AgentLoop` and `Settings`; background tasks, failing transactions, readers that leave, restarts |
| `MCBrain` | the instances TLC checks |
| `DurableJobsProofs` | the inductive invariant and the safety theorems |
| `DurableJobsRefinement` | `DurableJobs` implements `JobLifecycle` |
| `ServiceProofs` | the inductive invariant of `Service` and its safety theorems |
| `OrchestrationProofs` | types and references of `Orchestration`, for any number of processes; what each transaction does to the run and its steps, field by field |
| `OrchestrationRunProofs` | what the run, its steps, its jobs and the agents' runs make of each other, for one process |
| `RemindersProofs` | `next_occurrence`, and the inductive invariant of `Reminders` for any number of processes, with the theorems on links, occurrences and slots |
| `RemindersScheduleProofs` | that no schedule is lost and no job left over, for one process; that `next_occurrence` gives the first later time of its recurrence |
| `BrainProofs` | of `Brain`: the settings, the agents and their file, the frames of every thread, the sessions and their skills, the rows of conversations, what a message is taken to be for |

### DurableJobs and the code

A repository method is one `db_session` transaction holding the row lock, hence
one step. `JobRows` gives each method with its early returns; `DurableJobs`
says who calls it when:

| Code | Action |
|---|---|
| `JobRuntime.enqueue` up to the lookup by key | `EnqueueLookup` |
| the insert, or the unique-key violation and second lookup | `EnqueueInsert` |
| `cancel_job`, `resolve_job_approval` | `CancelJob`, `ResolveJobApproval` |
| `JobRuntime()`, `register`, `start` (recovery, then worker), `close` | `Boot`, `Register`, `StartRecover`, `StartWorker`, `Close` |
| `JobWorker._run` | `LoopHead` |
| `run_once`: claim, checks, handler, final call | `ClaimNext`, `CheckCancelled`, `ObserveCancelled`, `Handler...`, `ProgressRefused`, `ResultRefused`, `Settle` |
| an exception out of a transaction, committed or not | `ClaimFault`, `CallFault`, `SettleFault`, `RecoverFault` |
| the end of a process | `Exit`, `Crash` |

Abstractions:

* `available_at` is one bit, "due"; a back-off clears it and the action
  `BecomeDue` sets it. `claim_next` takes any claimable job, which includes the
  order by `available_at` and `created_at`. Its `SKIP LOCKED` needs no own
  action: a row skipped now is claimed by a later poll. In
  `recover_interrupted` it does, and rows another process has locked may stay
  RUNNING.
* Of `job_events` the numbers of starts, pauses and granted approvals are kept.
  Payload, progress values, results, error text and time stamps are left out.
* The handler is any code: it may look for cancellation, report progress, ask
  for approval, return or raise. Its own database calls raise like any other.
* The branch of `run_once` for an unregistered type cannot be reached
  (`claim_next` selects registered types and types are never removed).
* `close` is called by the thread that built and started the runtime, so it
  does not overlap `start`.
* Waiting on `_wake` with a time-out is fairness of the worker.

### Reminders and the code

| Code | Action |
|---|---|
| `create_reminder`: the insert, or the row its key finds | `Create`, `CreateAgain` |
| `cancel_reminder`, `reschedule_reminder`: the transaction, then `cancel_job` | `CancelReminder`, `Reschedule`, `CancelOld` |
| `_ensure_job`: enqueue, second enqueue, `set_next_job`, `cancel_job` | `Enqueue`, `Repair`, `Link`, `Undo` |
| `_deliver` inside `run_once` | `Claim`, `Check`, `Read`, `Trigger`, `Notify`, `Check`, `_ensure_job`, `Settle` |
| `start`, `reconcile`, then `JobRuntime.start` | `Boot`, `List`, `Reconcile`, `Recover` |
| an exception; an enqueue on a closed runtime | `CallFault`, `ClaimFault`, `SettleFault`; `EnqueueRefused` |
| `acknowledge_reminder`, `cancel_job` | `Acknowledge`, `CancelJob` |

* `_ensure_job` runs in three kinds of thread; `pc`, `seen` (the detached copy
  of the row) and `link` (the job, and whether this thread made it) belong to
  the thread. A process and its worker are one thread: the constructor has
  reconciled before the worker begins.
* A delivery job is named by its idempotency key, so reminder, revision and
  slot of its payload are its name; `copy` is the repair suffix. Its row
  follows `JobRows`. `JobRuntime.enqueue` is one step, which `KeyMeansOneJob`
  of `DurableJobs` justifies: its answer is that of the moment of its lookup or
  its insert.
* A call that raises after its commit is a call that succeeds in a thread that
  raises at its next step.
* The last `check_cancelled` of `run_once` is part of `Settle`, because
  `complete` cancels a job whose cancellation was requested.
* Time is a small clock. A job row is due from its slot on, and again some time
  after a back-off.

### Orchestration and the code

The operators of the section on `OrchestrationRepository` are its transactions
(`ClaimJob`, `MarkWaiting`, `PrepareResume`, `StartStep`, `CompleteStep`,
`FailStep`, `CompleteRun`, `Cancel`, `MarkFailed`, `ResetFailed`). The actions
say which thread runs them when:

| Code | Action |
|---|---|
| `create_run`: the insert, or the row its key finds | `Create`, `CreateAgain` |
| `cancel_run`: the transaction, then `cancel_job` | `CancelRun`, `CancelItsJob` |
| `resolve_approval`, and `resume_run` of a waiting run: read, job, run | `Resolve`, `Answer`, `Withdraw` |
| `resume_run` of a failed run, then `_ensure_job` | `Resume`, `Enqueue`, `Link` or `NoteFailed` |
| `reconcile`: list, read the job, act | `List`, `Look`, then `Enqueue`, `NoteWaiting`, `NoteFailed` or `Withdraw` |
| `run_once` and `_execute_run` to the loop | `Claim`, `Check`, `ClaimRun`, `AskWait`, `Approve`, `Prepare`, `Reread` |
| the loop over steps | `Check`, `ListSteps`, `Pick`, `Deadlock`, `Start`, `Progress`, `Execute`, `StepFails`, `Commit` |
| the end | `Complete`, `Stop`, `Settle` |
| `AikaService.__init__`, `close` | `Boot`, `Recover`, `Serve`, `Close`, `Exit` |
| `cancel_job`, `resolve_job_approval` used directly | `CancelJob`, `ResolveJob` |
| an exception; an enqueue on a closed runtime | `CallFault`, `ClaimFault`, `WorkerFault`; `EnqueueRefused` |

* Runs share nothing but the worker, so one run is modelled. Its jobs are named
  by the revision in their idempotency keys; positions start at 1.
* The constructor is a thread of its own: when it reconciles for the second
  time the worker is already executing jobs.
* A result is the set of steps whose results it is made of, an input the set of
  steps it quotes, and a result text only tells whether it holds `[TEAM_DONE]`.
* `effects` is no state of the program: it counts how often the agent was run.
* Left out: owners and agents as filters, the reconcile limit, error types,
  notifications, time stamps except `approved_at` and `cancelled_at` being set.
* A constructor that raises ends its process, which is `Crash`.

### Service and the code

A step is what a thread does between two accesses to state other threads change.

| Code | Action |
|---|---|
| `stream` up to the thread's start; its `finally` block | `Stream`; `Abandon`, `Leave` |
| `resolve_confirmation`, by `submit` or any thread | `Resolve` |
| `cancel_active` | `CancelActive`, `CancelSet`, `CancelEnd` |
| `_run_operation` | `Begin`, `Enter`, `Chunk`, `Raise`, `Conclude`, `Finally` |
| `process_stream` of the brain, `_handle_new_session` | `Answered`, `Submit`, `Put`, `EndAnswer` |
| `_submit_background`: permit, then submission | `Submit`, `Put` |
| `execute_tool`, `_check_confirmation`, `_request_confirmation` | `CallTool`, `Gate` |
| `ConfirmationCoordinator.request` | `RegisterRequest`, `Wait`, `CheckCancel`, `Decided` |
| `_execute_orchestration_step` | `StepBegin`, `StepEnter`, `StepTool`, `StepEnd` |
| the pool's thread, `_generate_session_summary`, the callback | `TakeTask`, `SummaryLock`, `TaskDone` |
| `AikaService.close`, with `AikaBrain.close` in it | `Close`, `CloseCancel`, ..., `CloseJoin` |

* Of the events the status, the outcome and the end are kept; texts, tool and
  approval events are not. Reading its queue is a caller's own affair: nothing
  waits for it.
* A request is an answer (which may call tools and submits the extraction of
  memories) or a new session (which submits a summary). Everything the brain
  does in between is its choice of next step.
* A generator that a `break` leaves is closed at once by CPython, which
  releases the lock: reporting and releasing are one step. So are a submission
  and the registration of the callback that returns the permit.
* `JobRuntime.close` waits at most five seconds for the worker, which may then
  still be in a durable step; it changes nothing else of this module.
* At the terminal, after close has taken the handler away, a user may say yes.
  Threads without a request (the job worker, pools) are refused a confirmation.
* `yes`, `no` and `ran` record what callers were told and what was executed;
  they are no state of the program. At the start the pool may still hold a task.
* Not modelled: a thread that cannot be started.

### Dispatch, AgentLoop and the code

A message is its leading words and the marks that the other tests look for
(a sum, small talk, a file, ...). Each chain of `if` and `elif` is a sequence of
tests of which the first that holds wins, so the order of the code is the order
of the sequence.

| Code | Action |
|---|---|
| `run`, `run_stream`, `_reset_run_observability` | `Started`, `StartsRun` |
| the head of the loop, `_preferred_model`, `_model_for_call` | `Ask` |
| `_call_llm` that fails, or replies | `NoReply`, `Reply` |
| `_check_delegation_intent`, `Orchestrator.delegate` | `Reply`, `Delegates` |
| `_execute_tool_request`, `_apply_response_policy`, the repeated failure | `RunTool` |
| `_synthesize_response`, `_synthesize_web_response`, `_call_llm_stream` | `Synthesize`, `WriteUp`, `Stream` |
| the end of the loop, `_complete_run_observability` | `Finish`, `Leave`, `Completed` |
| `_run_legacy_loop`: decide, route, judge | `LegacyTurn`, `Route...`, `Judge`, `LegacyEnds` |
| `run_chain`, `run_team`, `run_parallel` | `ChainStep`, `TeamStep`, `PoolTakes`, `PoolPasses`, `PoolEnds` |

* A text is told apart by how it reads: blank, a failure, the mark of a team
  that is done, or anything else.
* A step is what a thread does between two calls of a model or a tool, or of
  another activation. In one thread nothing happens in between; the threads of
  a pool do interleave on `_last_call_used_tool_fallback` and the status.
* What a model replies, whether it fails, and how a tool ends are choices. So
  is whether the router takes a message for a hard one.
* A second parse failure cannot be reached: the first ends the loop.
* A route's exception ends the whole request, or the run of a pool's thread,
  whose caller is then given a text that reads as a failure; only the routes
  that use the database are given one.
* `_handle_delegate` cuts nine characters, whatever the wording: "have the " and
  "tell the " leave the agent's name, the others leave something that names
  nobody, and a message without a task gets the usage.
* The decision and the route read a message by different tests
  (`RoutedAsDecided`). They agree on the tool but in three cases. "find in" is
  decided to be `file_grep` and routed to `file_search`. A `web_search`, as of
  "search for ...", is classified once more (`router.py:438-474`) and may become
  a search of files or of memories. A message whose tool the classifier chose is
  put to the router's tests of wording, which do not know that choice
  (`router.py:151-436`): "find", "show" or "create" give `file_search`, `folder` or
  `file_write`. None of the three gives a tool of `ByName`, those that run a
  command or change a file or directory in place, which have to be asked for by
  a wording of their own.
* The legacy loop of a request in tool-calling mode gets any of the messages
  of its mix: the message of the request itself is not carried along.
* `answer` and `by` are history: who worded the final response.

### Brain, Settings and the code

| Code | Action |
|---|---|
| commands on sessions | `StartNewSession`, `ResumeSession`, `DeleteSession`, `UseAgent` |
| `SkillManager` | `UseSkill`, `DropSkill`, `ReloadSkills`, `Show`, and `StillFits` wherever a prompt is made |
| commands on agents; `_save_to_file` | `CreateAgent`, `SetAgent...`; `OpenAgentsFile`, `WriteAgentsFile` |
| `!set`, `!model`, `!log`, `!reload`; `!save` | `ConfigCommand` with `Set`, `SwitchModel`, `ToggleLog`, `Reload`, and `Rereads` where the skills are read again; `SaveOpens`, `ConfigSaved` |
| `chat`, `chat_stream` of the brain | `Receive`, `SaveUserRow`, `ChatAnswers` |
| `chat` of the router: question, answer, count and trim; a message that is too long | `ChatInLoop`: `ChatAsks`, `ChatReplies`, `ChatCounts`, `ChatTrims`; `ChatRefuses` |
| `process` and `process_stream` to the agent loop and back | `Receive`, `SaveUserRow`, the steps of the loop, `LoopAnswers` |
| `ResponseFinalizer.finalize`, three transactions | `SaveAnswer`, `Count`, `Trim`; `FinalizeFails` |
| `_complete_response`, `_submit_background` | `Learn` |
| `extract_memory`, `_generate_session_summary_unlocked` | `Extract`, `Summarize` |
| the other routes of the legacy loop that change the store; one that raises, also between the transactions of a chat | `ClearInLoop`, `ForgetInLoop`, `RememberInLoop`, `ConfigureInLoop`, `RouteBreaks` |
| `delegate`, `chain`, `team` as commands | `StartAgents`, `AgentsAnswer` |
| the reader of a stream that leaves; the process's end and start | `Leaves`; `Restart` |

* The rows are a function from ids to rows. Of ids only the order matters, so
  `NextId` is the one after the last. A row knows its turn, so that a property
  can tell which question an answer belongs to; the code knows it by order only.
* Extraction finds at most one fact in a message; the search for a duplicate is
  its choice to store nothing.
* `chats` tells how far the router's chat has come in each thread: a pool's
  threads each may be in one, and what one has stored stays when it, or the
  request, fails.
* Each copy that a component keeps of a setting is a state of its own: `Copies`
  has the components and the keys they copy, `Refreshables` and `RefreshedTools`
  those that `_refresh_from_settings` tells, `Recopies` what they copy then. The
  reflection is told by the agent loop only. What is made once and told of
  nothing (`MadeOnce`) is the ranker of memories, the runtimes of jobs, reminders
  and orchestration, the engine and the format of the log.
* Keys of the settings stand for their kinds. A run follows a model's, one that
  no component copies again (`memory_max_per_category`), the log level, the log
  format, one read only at the start, a list that is only split, a list that is
  lower-cased, and one saved under a name that is not read. `Given` are keys the
  process's own environment fixes.
* A text stands for the value it is read as, but for those that reading or
  writing changes: an empty list, blanks or capitals in an item, a format that
  `logging` refuses, and what `.env` takes for a comment or a quote. A number in
  `.env` that is none, which no `!save` writes, and a host that the client
  library refuses, are not modelled.
* A torn `.env` gives no key, a torn `agents.json` no agent.
* The prompt of an outermost loop of calls, and every chat, look at the active
  skill and drop it if it no longer fits (`StillFits`): for a chat inside a loop
  the agent is the loop's, which need not be the session's. The tool that lists
  skills may drop it too, as `Show` does; it is not among the tools modelled.
* A `!save` in two steps keeps its thread, and holds the other threads of a pool
  back with it: nothing they do reads `.env`.
* A skill's manifest is reduced to whether it is installed, and needs tools and
  agents; `is_active` of a profile is never false in the code.
* The service's execution lock keeps requests apart, and a summary out of a
  request; `Free` is that lock.

Operators whose comment begins "Mutant" stand beside the operator they vary;
they show that a property would notice that bug, and are used nowhere else.

## 4. Runs

| Run | Instance | Shows |
|---|---|---|
| `jobs_restart` | 1 retry-safe and 1 unsafe job, 1 process, 2 crashes or closes, 1 raising call, 1 approval per job, fairness | `TypeOK`, `AttemptsAccounted`, `OneApprovalPerRepeat`, `WorkerOwnsRunning`, `CancelTakesEffect`, `JobsSettle` |
| `jobs_two_processes` | 2 jobs of different scopes with one key, 2 processes, 1 crash or close | `CancelIsSticky`, `TerminalIsFinal`, `KeyMeansOneJob`, `ImplementsLifecycle` |
| `reminders_calls` | 1 reminder, 2 callers, 2 calls after its creation, 1 process | `TypeOK`, `ScheduleFits`, `ScheduleKept`, `NothingLeftOver` |
| `reminders_faults` | 1 reminder, 2 processes, 1 caller, 1 call, 1 raising call, delivery jobs cancelled directly | `FiredOnce`, `OldJobsHarmless` |
| `reminders_live` | 1 reminder, 1 process, 1 call, 1 crash or close, fairness; and, from each slot it comes to (`Moments`), 19 recurrences in 5 zones, delivered up to a week and a day late (`Late`), on a calendar with 8-unit days and 3-day weeks | `MovesToFirstLater`, `DueIsDelivered` |
| `reminders_create_race` | 1 recurring reminder that is due when it is created | `EachDueTimeHasJob` is violated |
| `orchestration_calls` | a chain of 2 steps with high tools or a team of 2 contributions, 2 callers, 3 calls after the creation, repeated creations, direct job commands, 1 crash or close, 1 raising call | `TypeOK`, `ApprovedFirst`, `EndedIsKept` |
| `orchestration_restart` | the same and 2 independent steps, 2 callers, 2 calls, 2 crashes or closes, fairness | `RunReflectsSteps`, `RunFitsJob`, `RunSettles` |
| `orchestration_cancel_race` | 1 delegation, 1 call | `FailedCanBeResumed` is violated |
| `service_calls` | 2 requests of either kind, 1 confirmation each, 1 pool thread and 1 place in its queue, 3 calls (requests, streams left early, cancellations, durable steps, close), fairness | `TypeOK`, `HighToolsAsked`, `StreamFits`, `LimitsKept`, `QuietAfterClose`, `EndsWhenTold` |
| `service_close` | 1 new session, close | `CloseReturns` is violated |
| `brain` | 2 agents and 1 that can be created, 3 tools, 2 threads of a pool, 16 mixes of 1 to 4 requests, fairness; 525,377 states, the largest of the runs | `BrainTypeOK`, `TurnsKept`, `MemoriesFit`, `RegistryFits`, `SkillsFit`, `ToolsBounded`, `OwnWords`, `RoutedAsDecided`, `SettingsFit`, `RequestEnds` |

Both job types have two attempts: one can be spent and one is the last. Two jobs
suffice for a race on a key and for one job of each type. Two lives let a recovered job be interrupted again. One approval lets an unsafe
job run twice. The bounds `MaxLives`, `MaxFaults` and `MaxGrants` limit only
crashes and closes, raising calls and approvals.

Reminders do not share state with each other, so one reminder is enough; what
interferes are the threads that act on it. Two calls after the creation reach
every pair of create, reschedule and cancel; the clock reaches the second slot
of an interval reminder in `reminders_live`. `CHECK_DEADLOCK FALSE` is set
where an idle service waits for its user and the clock has reached its bound.

Two steps are enough for a dependency, for a step that is skipped, and for a
completed step before a failed one. In `orchestration_calls` a job has two
attempts and a step one, as with the defaults of `settings.py` a job has more
attempts than a step: this is where an interrupted job comes back to a step that
is spent. In `orchestration_restart` a job has three attempts and a step two:
they reach an interruption that may be repeated, one that may not, and a job
that outlives both. Three calls reach cancel, approve and resume in any order,
and a second resume.

Two requests are needed for one that is refused, and for one that begins beside
the end of another. Three calls reach a request, a cancellation or an early end,
and a close or a durable step. One pool thread is the program's default, and
with one place in its queue it is full after two tasks.

The threads of a pool are alike, so `PoolTakes` always gives work to the same of
those that are free. A mix (`MCBrain`) says which kinds of request there are, how many, and how many
transactions fail, readers leave and processes end; the mixes are separate
because what they share is only the place a request goes through. Four requests
reach a turn in a session that was switched, one in it after that, and its
deletion; three reach a restart after either. A chat of the router fails between
two of its transactions, or is cut short there by the process's end, in `Legacy`
and `HandedOn`; in `Shared` the threads of a pool chat at once, and in `Broken`
the work of one fails beside that of the other. `MaxRows = 3` lets the second
turn of an agent be trimmed in the middle; `MaxTasks = 2` fills the background queue; `MaxSessions = 4` is one for
the start and one for each command that makes one. Two turns of an agent reach
a tool that fails twice in a row, with the tool that a message names before
them; a third would only repeat them. `MaxRuns = 2` lets one run start another,
which is enough to have the inner one write what the outer one reads; a run for
which there is no room is not started, so `RequestEnds` holds for chains of
delegation of that length: the code itself has no limit on them, and models
that hand a task to each other for ever would not end.

Merged properties keep their parts by name: `ScheduleFits` is `LinkedJobFits`
and `SlotsAdvance`; `RunReflectsSteps` is `StepsFitRun` and `ResultsFollow`;
`ApprovedFirst` is `RepeatNeedsApproval` and `HighRunsApproved`; `LimitsKept` is
`OneOperation` and `CapacityBalanced`; `EndsWhenTold` is `CancelledEnds` and
`ShutdownEnds`; `SettingsFit` is `CopiesFit` and `SavedComesBack`; `TurnsKept`
is `AnswersFollow`, `AnswersCounted`, `NewestKept` and `PlaceFits`.

Three runs show where the code does not do what the documents say:

* `reminders_create_race`. `create_reminder` enqueues the delivery job and then
  links it. If the job is due at once, the worker can deliver in between; then
  `set_next_job` refuses, the creator cancels the job it made, and the delivery
  stops at its second `check_cancelled`, before `_ensure_job`. The reminder is
  active, its next slot lies in the future, and it has no job until the next
  start. `reschedule_reminder` has the same race.
* `orchestration_cancel_race`. `fail_step` does not look at the status of the
  run: a run that was cancelled while its agent worked becomes FAILED if the
  agent then raises. Its steps are CANCELLED, so a resume finds no step to
  start from. The same property fails for a run whose last attempt is
  interrupted between its last step and `complete_run`.
* `service_close`. `close(wait=True)` holds the execution lock while it waits
  for the background pool. A session summary that has not got the lock by then
  never gets it, and close never returns. The default pool has one thread, so
  a task before the summary is enough to delay it. `EndsWhenTold`
  excepts this state (`SummaryStuck`) and nothing else.

Repeated `create_run` calls are excepted in `StepsFitRun`, in `RunFitsJob` and
in what `ResultsFollow` says of results: `_ensure_job` fails the run for the job
of the revision it read, although the run may have been resumed since, and
`complete_run` does not look at the revision either; after two resumes the
worker of the old revision can complete a run that has PENDING steps. In the
same way such a call, and a resume, can come between an approval and
`mark_approved`, so that agents of a run that needs approval run while
`approved_at` is not set; that the approval was given is part of
`ApprovedFirst`, which needs no exception.

A worker can go on with a job whose revision has been superseded. When a step is
spent, `prepare_resume` fails the run; a caller may resume it before
`_execute_run` reads it again; the worker then finds a run that is to be
executed and executes it, in the new revision, with the old job. The runs of an
agent for one job may then be more than the attempts of its step. So
`RepeatNeedsApproval` bounds them by the step's attempts only in the revision of
the job; that one job runs an agent no more often than it was approved holds in
any case. This shape was found in the attempt to prove the stronger statement.

`MovesToFirstLater` is about zones in which `Springs` holds. It leaves out two
kinds:

* Zones whose clocks go back. `next_occurrence` compares local times, so that in
  the hour the clocks show twice a delivery before the reminder's local time
  shows again gets a slot that has passed.
* Zones whose clocks skip the end of a day, so that a time in the gap is moved
  into the next day. On that day `next_occurrence` looks only at the same time of
  the new day, and a delivery between the gap and the moved time skips it. Gaps
  of that kind are rare: the usual ones begin with a day or lie within one. The
  condition was found in the attempt to prove the property without it.

`reminders_calls` has no crash, since its callers alone fill it. What
`ScheduleKept` says of crashes and closes rests on its theorem, `SchedulesKept`,
and on `DueIsDelivered`, whose run has one at any step.

Another way to lose a schedule is excepted in `ScheduleKept`: a start reconciles
before it recovers interrupted jobs, so a delivery that is interrupted on its
last attempt still counts as the reminder's job when it is reconciled and is
failed right after.

`WorkerOwnsRunning` is checked and proved for one process because with two it is
false:
`recover_interrupted` takes the RUNNING rows of a live process for interrupted
ones. What still holds with two is in `jobs_two_processes`.

### Fairness

`Fairness` asks for weak fairness of the worker thread (it is never blocked:
it polls with a time-out, and handlers are taken to return), of the clock, of
a caller's enqueue, of `AikaService.__init__` registering types and starting
the runtime, of a closed process exiting and of the user starting it again.
Nothing is assumed of cancellations, approvals, crashes and faults. For
orchestration the threads that run, the constructor and the exit of a closed
process are weakly fair, and an agent's run ends because the agent loop is
bounded. For the service each thread of a request, of the pool and of a call of
`cancel_active` or `close` is weakly fair, and so is a durable step: the model
answers, and waits are bounded or for the lock. Nothing obliges a user to
answer, cancel or close. For the brain a step of some thread that serves the
request is taken (`Serves`): models and tools answer or fail, which their
time-outs see to; nothing is assumed of commands, readers, faults, restarts and
the background. `CancelTakesEffect` and `JobsSettle` except what follows a raising
call, and the other runs with liveness have none: a call that raises in an
`except` branch of `run_once` leaves its job RUNNING until the next start, and
nothing obliges a healthy process to restart.

## 5. Proofs

Each theorem holds for every value of the constants that the assumption named
with it allows, and for every bound. A property of section 4 is seldom
inductive; what follows says what had to be added and why.

### Durable jobs

From `JobsAssumption` (the constants are functions of the right sort, limits
are positive) and `ValuesAssumption` (the placeholder values are none of the
jobs, processes and keys), for every set of jobs, processes, types and keys:

* `InvariantHolds`: `Spec => []IInv`. `AttemptsAccounted` needs that a RUNNING
  row has an attempt to give back; `OneApprovalPerRepeat` needs that RUNNING and
  WAITING rows of an unsafe job have started exactly once more than approved,
  and that the `retryable` flag a worker carries is true only for retry-safe
  jobs; that in turn needs that a worker at work holds a job with a row.
* `TypeCorrect`, `AttemptsHold`, `ApprovalPerRepeat`, `CancellationSticks`,
  `KeysUnique`, `FinishedStays`: the safety properties of the runs.
* `OneWorkerOwns`: `WorkerOwnsRunning`, for one process.
* `Implements`: `Spec => ImplementsLifecycle`.

The argument goes in two halves. `NextRows` goes through the actions and says
which repository method each applies to which row (`RowMove`); everything else
about rows (`MethodMoveGood`, `RowMoveFinal`, `RowLives`) is about one row and
one method. Types, workers, calls and keys have a lemma each.

### Reminders

From `RemindersAssumption`; its `Recurrences \subseteq Rule` is what
`normalize_recurrence` lets through, and without it `next_run_at` need not be a
time. `RemindersProofs` allows any number of processes, callers and reminders:

* `InvariantHolds`: `Spec => []RemInv`. Beside the types it says where the
  threads of a process can be (`ThreadsFit`), that a copy, a link or a job in
  hand names a reminder that exists, in its present revision or an earlier one,
  and a job that exists (`Mind`, `RefsFit`), that a job that has been claimed
  was due (`JobsFit`), and that whoever is about to notify has recorded the
  occurrence and is alone with it (`NotifierFits`); the last is what makes
  `FiredOnce` inductive, and the second what makes `OldJobsHarmless` follow.
* `TypeCorrect`, `LinksFit`, `FiredAtMostOnce`, `OldJobsDoNothing`.
* `SchedulesFit`: `ScheduleFits`, under `Forward`: the zone's offset does not
  fall, or no recurrence reads the clock. Without it the property is false: in
  the hour a clock shows twice, a daily reminder gets a slot that has passed.
* It rests on `NextLater`: `next_occurrence` gives a time after the slot it
  starts from, for each kind of recurrence. That a repair key is always found is
  a pigeonhole argument (`UnusedIs`).

`RemindersScheduleProofs` has `SchedulesKept` and `NothingIsLeftOver`, for one
process, any number of callers and reminders, and `Forward`. A second process
takes a live worker's delivery for an interrupted one when it starts, which
`ScheduleKept` was never meant to survive. The invariant `CalmInv(p)` says,
while no call has raised and there were fewer interruptions than attempts:

* `AheadFits`: no job, copy or list holds a slot of the revision in force that
  lies after `next_run_at`. With it, what is out of date stays so (`StaleGo`).
* `PhaseFits`, `HoldFits`, `AttemptsFit`: the constructor is alone; a RUNNING
  row is the worker's or left by a crash; an attempt that is over was ended by
  an interruption, so that none is the last.
* `StaleFits`: a job ends, or is asked to, only when its schedule has left its
  slot; only such a job gets a repair copy. So the job of the present slot is
  one, and alive.
* `OwnersFit`, `CoverFits`: of each job that has not ended, and of each active
  reminder without a job, it says who will see to it: the row that links it, the
  worker, a thread between two of its steps, the next `reconcile`, or, for the
  reminder, nobody because a delivery was cut short. When the threads are idle,
  what remains is the property.

`FirstLaterTaken` is `MovesToFirstLater`, from `SchedulesAssumption`. It rests on
`NextIsFirst`: for every zone in which `Springs` holds, every recurrence, slot
and moment, for a calendar of any day and week, `next_occurrence` gives an
instant that the recurrence stands for, and none lies between. The definition of
those instants (`Meets`) asks what the clocks show; `MeetsIs` and `MeetsOnDay`
turn it into the candidates of the days a recurrence names, which are in the
order of the days (`CandidateOrder`). That the clocks go forward makes their
comparison one of instants (`PassedIs`), and that a skipped time keeps its day
lets the day the clocks show tell which candidates are behind (`CandidateSide`).
What remains is that days of one weekday are a week apart (`SameRemainder`).

The proofs do not go through all pairs of an action and a part: `ThreadWho`,
`JobsWho`, `RowsWho`, `HeldWho`, `PhaseWho` and `TodoWho` say once what a step
may do to a thread, a job, a row and the rest, and each part is then about those
few cases.

### Orchestration

From `OrchestrationAssumption`. `OrchestrationProofs` allows any number of
processes: `TypeCorrect`, with `RefInv` (what a thread remembers exists, a copy
is of the present revision or an earlier one, a run's job is of its revision,
every start of a job is paid for by its insertion or by an approval).

`OrchestrationRunProofs` is for one process: with two, `recover_interrupted`
takes a live worker's job away, and two workers execute one run.

* `ApprovalFirst` and `EndsAreKept`: `ApprovedFirst` and `EndedIsKept`, from
  `OneInv`. `Shapes`: COMPLETED steps are a prefix, the step after it is the
  only one that may be RUNNING or FAILED, the rest waits; `Placed`: how far the
  worker has come with them, and which of what it has read is still so;
  `EffectsFit`, `Unspent`: a job runs the agent of a step at most once for each
  start, so it has one to spend while it still will; `AttemptsFit`, `Tried`: in
  the present revision each of these is an attempt of the step; `ApprovalFits`,
  `AskedFor`: who is past the question has been answered.
* `RunIsItsSteps`: `RunReflectsSteps`, from `CalmInv`. It needs that nobody
  fails the run of a worker: `CallersFit` says what callers are about while the
  service is down, under construction and up, `HoldsRunning` that the worker's
  job is RUNNING, `Undisturbed` that what the worker relies on is still so or
  the run was cancelled, and `EndedShape` what is left of a run that has ended.
  Repeated `create_run` calls break `Undisturbed`, and with it the property.
* `RunHasItsJob`: `RunFitsJob`, from `CalmInv` and `Owned(p)`, which is the
  invariant while no call has raised. A run and its job are two rows in two
  tables, written one after the other; `Seen` says, for a run that has not
  ended, who makes them agree: a caller about to insert or link the job, one
  about to withdraw the run, the second round of `reconcile`, or nobody because
  they do. It needs that a RUNNING job is held (`AllHeld`), that what the
  worker leaves of its job it leaves of the run (`Left`), that nobody answers
  for a job whose run is worked on (`AtWork`), that a cancel request and an
  answer still concern this run (`CancelFits`, `AnswersFit`), that the first
  round of `reconcile` has linked what is to be recovered (`Built`), and, for
  the jobs of runs that have ended, that whoever cancelled the run has yet to
  cancel its job (`FirstLife`).

### Service

From `ServiceAssumption` (requests, pool threads and the names of the job worker,
of close and of nobody are apart; the bounds are numbers), for every set of
requests and pool threads:

* `InvariantHolds`: `Spec => []IInv`. Who holds the lock is where only its
  holder is (`LocksFit`); exactly the active request's thread runs
  (`ActiveFits`); open confirmations are those somebody waits for (`OpenFits`);
  what was told of an answer and what is kept of it agree (`AnswersFit`), and a
  tool that was asked about was executed for a confirmation that is closed
  (`RunsFit`), without which a second answer could still change it; a policy is
  a durable step's, and after close everything is refused (`GateFits`,
  `ClosingFits`); what is in a request's queue follows from where its thread is
  (`EventsFit`).
* `TypeCorrect`, `HighToolsSafe`, `StreamSafe`, `LimitsSafe`, `QuietSafe`: the
  safety properties of the runs.

### Brain

From `LoopAssumption` (the threads of a pool are finitely many, the name of a
tool that does not exist is none of the tools), `SettingsAssumption` (unset is no
value), `BrainAssumption` (profiles and mixes are of their sort, the program
defines the default agent) and `MessagesAssumption` (a message that is a sum has
no leading words, as the expression of `router.py:153` lets no letter through;
without it one that starts with `run` could be decided for one tool and given to
another), for any number of agents, tools, pool threads, keys and frames within one another:

* `SettingsAgree`: `SettingsFit`, in two parts. `CopiesFit`: every component but
  those of `MadeOnce` works with what it makes of the setting in force, whoever
  has to tell it; keys of `STARTUP_ONLY_SETTINGS` and the log level may lag.
  `SavedComesBack`: what was saved is read again as the value it was, or as the
  one that `ComeBackChanged` pairs with it, and a second save changes it no
  further. While `.env` is empty and not yet written again, nobody changes the
  settings it is written from (`SettingsInv`): that is what the two steps of
  `!save` need the lock of the requests for.
* `WorkHolds`: `Spec => []WorkInv`, where
  * `FramesFit`: each thread has a stack, in `Stacks(t)`: all its frames but the
    innermost wait for another to return (`Waits`), all fit their counters
    (`Fits`), and only the request's own thread has a pool, innermost while it
    works. The properties say something of one frame at a time; that it holds of
    the frame a result is returned to, however deep, needs all of the stack.
  * `PoolFits`: what a pool has to wait for is as many as its threads that are at
    work, so a pool cannot end, nor Main go on, beside them. It is why the
    invariant needs `IsFiniteSet(Workers)`.
  * `FlagFits`: while Main waits for a reply, the shared mark is that of its own
    call: every other run of that thread has returned, and a pool's threads work
    only while Main waits for them. Without it the mark a reply is read with
    could be another run's.
  * `AgentsFit`, `RequestsFit`, `StagesFit`: profiles, the file and the current
    agent are of their sort; frames are at work for a request only.
* `RegistryKept`, `ToolsAreBounded`, `WordsAreOwn`: the properties that follow.
  `ToolsBounded` needs `Fits`: while a run waits for a model or is about to use a
  tool it has used no more than one in each turn so far, and one more otherwise;
  and a repeated failure ends the run before another act is added. `OwnWords`
  needs `FlagFits`.
* `SkillsAreFit`: `SkillsFit`, from `WorkInv` and `SessionsFit`. A prompt is made
  of the skills that `StillFits` left, and until it is answered no other command
  can change the agent, its tools or the session; a reload in the middle only
  drops skills, or finds them installed still.

* `StoreHolds`: `Spec => []StoreInv`, what is stored of a user's turns. A
  question, its answer, the count and the trim are transactions of their own, and
  a route of the loop may clear, add or delete rows in between, so that the
  invariant says what holds of the table at every moment:
  * `RowsFit`: no row is of a turn later than `Past`, rows are in the order of
    their turns, and each answer comes after its question (`Follows`).
  * `AskedFits`: an answer that is still to be stored would have its question
    before it (`Wanted`); `LastFits`: while it is counted and trimmed it is the
    last row of its agent, so that a trim, which drops the oldest, keeps it.
  * `ChatsFit`, `RoutersAsked`: only a thread whose innermost frame is at a chat of
    the router has stored something of one, and until its answer is stored the
    question is there (`Wanted`), whatever the other threads trim or clear.
  * `AnswersCounted`, which is inductive with these: two for each answer are no
    more than what is `Due` to its session, the answers that are not counted
    yet included: the request's own, and one for each thread in a chat.
  * `MemoriesLinked`: every row that a memory may come from is of the memory's
    agent (`Names`), so that it does not matter which of them is deleted;
    `TasksFit`, `NamedFits`: the same of the turns that extractions wait for, and
    of the turn of the request.
* `TurnsAreKept` and `MemoriesAreLinked`: `TurnsKept` and `MemoriesFit`.
* `TypeCorrect`: `BrainTypeOK`, with the bound on runs. `RunsInv` bounds them by
  thread: those of `Main` are at most `MaxRuns`, fewer while a pool is open, and a
  pool's thread adds to those of `Main` it was started from.
* `RoutesAreDecided`: `RoutedAsDecided`. The decision engine puts a message, with
  what was done so far, to 32 tests; the router tells the tool from the message
  alone by 13 others. `ToolAsDecided` says that they agree where a test decided
  for a tool other than `web_search`, but for "find in": it reads both chains as
  conditions on the first two words, which what was done comes after. The other
  cases say what may be taken instead: another search for a `web_search`, because
  its wording starts with "search" and passes all of the router's tests, and any tool but those of
  `ByName` for what was left to the classifier, because a wording that leads to
  one of these is always claimed by a test of the decision engine. With
  `Routed` among what `Fits` a frame, this is so however deep the frame lies.

The steps are sorted once by what they do: to the frames (`WorkMove`: one thread's
top moves on, starts or returns, a thread of the pool takes a run or is free
again), to the agents (`AgentsMove`), to the sessions and skills (`SessionsMove`,
`SkillsMove`, `GuideMove`); each part is then about those few cases.

### Only model-checked

Liveness (`CancelTakesEffect`, `JobsSettle`, `DueIsDelivered`, `RunSettles`,
`EndsWhenTold`, `RequestEnds`), which is out of the prover's reach. Every safety
property of the passing runs is proved; those that need one process, or
`Forward`, are named above with the reason.

## 6. Where code and documents disagree

Three disagreements are runs (section 4). Others were met while reading; the
modules follow the code:

* `docs/features.md:63` offers `remember`, `forget` and `memories`: with tool
  calling enabled the loop never comes to the router that serves them, but for
  a message whose model replies nothing at all.
* The comment before the insertion in `chat_handler.py` says the user's message
  appears exactly once in the prompt. When the legacy loop routes to it, the
  brain has stored the message already; the turn is stored twice and the session
  counts four messages.
* `docs/usage.md:85` has `delegate to X: task`; the brain's command takes "to"
  for the agent's name. The legacy route cuts nine characters whatever the
  wording, so that only "have the" and "tell the" leave a name.
* `delegates_to` of a profile is read nowhere.
* `!save` writes `TOOL_CALL_CONFIRM_HIGH_PERMISSION`, `settings.py` reads
  `TOOL_CALL_CONFIRM_HIGH`; an empty list of blocked keywords or protected paths
  is saved as nothing and read as one empty item; capitals in the router's lists
  are saved and come back lower-cased; `!set` accepts and `!save` writes a
  `log_format` that the next start replaces by the default. `!log` refreshes no
  copy. An upper-case key, as in `docs/usage.md:529`, is an unknown setting.
* `docs/usage.md:536` says of `!set` "Changes take effect immediately". They do
  not for `memory_max_per_category`, which `memory_ranker.py:31` reads when its
  class is made, for the limits that the runtimes of jobs, reminders and
  orchestration are given when they are made, for `database_url` and for
  `log_format`; `!set` asks for no restart then, as `STARTUP_ONLY_SETTINGS` has
  only four others.
* "find in" is decided to be `file_grep` and routed to `file_search`; "search for
  ..." is decided to be a search of the web and may be routed to one of files or
  memories; what the classifier decided is not passed on, so that "delete the
  thing", which it may take for a search, is routed to `file_delete`. A test
  for "search and" can never be reached; a file the classifier would write ends
  as a search of the memories.
* A status of `llm_error` stays although the summary that follows succeeds, and
  a stream of blanks alone is "completed". A route without a result becomes the
  text "None".
* In a pool the threads overwrite each other's mark of a substitute model, so
  that what such a model says can become an answer of its run.
* A team that ends in an exception stays "running" in the list of teams.
* A torn `agents.json` brings an agent with a persona file back without its
  restrictions: a profile without tools has all of them.
* A current session whose successor cannot be created stays current though it
  is deleted.

## 7. Not modelled

* **Plan executor.** One thread runs the steps of one plan on a context of its
  own; nothing is kept and nobody else sees it. `PLAN_EXECUTION` is an input of
  the legacy loop. What its steps do to the tools is not bounded here.
* **Ranking, similarity, prompts.** Memory search, the prompt budget and the
  context of a prompt are numeric or textual heuristics; they change no state
  that a property here is about, except access counts and scores of memories.
* **Tools, research, LLM client.** File, shell and network I/O; their results
  and failures are inputs. The gate in front of tools is in `Service`.
* **Command line, reminder commands and tool, orchestration commands.** They
  parse and call; their calls are those of the callers in the modules.
* **Schema and migrations.** Run once at installation; unique keys and foreign
  keys that others rely on are in their modules.
* Several processes on one `agents.json`, `.env` or conversation store; a thread
  that cannot be started; exponents of the back-off beyond what a float holds
  (no job type has that many attempts); more reminders or runs than one
  reconciliation lists; a team whose mark was committed before a crash.
