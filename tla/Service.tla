------------------------------ MODULE Service ------------------------------
(***************************************************************************)
(* The application service: one active request at a time on a thread of    *)
(* its own, which streams events to its caller; the brain behind one lock, *)
(* shared with durable steps and background tasks; confirmations of tools  *)
(* with high permission; cancellation and shutdown.  Models                *)
(* application/service.py and confirmation.py, the gate of                 *)
(* tools/tool_manager.py, and of brain/brain.py the stream of a request,   *)
(* the background pool and close.                                          *)
(*                                                                         *)
(* A step of the model is what a thread does between two accesses to state *)
(* that other threads change.                                              *)
(***************************************************************************)
EXTENDS Naturals, Sequences, FiniteSets

CONSTANTS
    Ops,          \* the requests callers make, each with its caller
    Workers,      \* the threads of the brain's background pool
    None, Closer, JobWorker,
    Kinds,        \* what is requested: an answer, or a new session
    ConfirmHigh,  \* settings.tool_call_confirm_high_permission
    Pending,      \* settings.background_max_pending
    MaxAsks,      \* bound: confirmations one request asks for
    MaxCalls      \* bound: calls of stream, cancel_active and close, streams
                  \* left early, durable steps

ServiceAssumption ==
    /\ Kinds \subseteq {"answer", "session"} /\ Kinds # {}
    /\ ConfirmHigh \in BOOLEAN
    /\ Pending \in Nat \ {0}
    /\ {MaxAsks, MaxCalls} \subseteq Nat
    /\ IsFiniteSet(Workers) /\ Workers # {}
    /\ None \notin Ops \cup Workers \cup {Closer, JobWorker}
    /\ Closer \notin Ops \cup Workers /\ JobWorker \notin Ops \cup Workers
    /\ Closer # JobWorker /\ Ops \cap Workers = {}
ASSUME ServiceAssumption

VARIABLES
    closed,     \* _closed of the service
    active,     \* _active: the current request
    pc,         \* where the thread of a request is
    cancelled,  \* the cancel event of a request
    events,     \* what was put into the event queue of a request
    reader,     \* whether its caller still reads, or is leaving the stream
    pending,    \* _pending: the open confirmations
    asked,      \* the number of confirmations a request has asked for
    refusing,   \* _closed of the coordinator
    attached,   \* the tool manager has a confirmation handler
    policy,     \* its high-permission policy
    lock,       \* who holds the brain's execution lock
    queue,      \* tasks in the background pool's queue
    worker,     \* what a thread of the pool does
    capacity,   \* the semaphore that bounds the pool's tasks
    brain,      \* "open", "closed", or "shut" with its pool shut down
    closer,     \* where the call of close is
    wait,       \* its argument
    closing,    \* the request it found active
    step,       \* where the job worker is with a durable step
    allow,      \* the step's allow_high_tools
    canceller,  \* where a call of cancel_active is, and its request
    calls,      \* how many of these there were
    yes,        \* confirmations a caller approved, and was told so
    no,         \* confirmations refused before their request was granted
    ran         \* whose call of a high tool was executed

svc == <<closed, active>>
ops == <<pc, cancelled, events, asked>>
confirms == <<pending, refusing>>
gate == <<attached, policy>>
pool == <<queue, worker, capacity>>
closers == <<closer, wait, closing>>
durable == <<step, allow>>
history == <<yes, no, ran>>
vars == <<svc, ops, reader, confirms, gate, lock, pool, brain, closers,
          durable, canceller, calls, history>>

\* A confirmation is named by its request and its number in it.
Ids == Ops \X (1 .. MaxAsks)
Outcomes == {"completed", "cancelled", "error"}
PoolSize == Cardinality(Workers) + Pending

\* Where a request's thread may be; in InBrain it holds the lock.
Asking == {"wait", "check"}
InBrain == {"switch", "brain", "submit", "put", "put summary", "reply",
            "register"} \cup Asking
Running == InBrain \cup {"made", "lock", "after", "failed", "finally"}

\* The pool may still hold the task of an earlier request.
Init ==
    /\ closed = FALSE /\ active = None
    /\ pc = [o \in Ops |-> "idle"]
    /\ cancelled = [o \in Ops |-> FALSE]
    /\ events = [o \in Ops |-> <<>>]
    /\ asked = [o \in Ops |-> 0]
    /\ reader = [o \in Ops |-> "reading"]
    /\ pending = <<>> /\ refusing = FALSE
    /\ attached = TRUE /\ policy = "none"
    /\ lock = None
    /\ queue \in {<<>>, <<"memory">>} /\ worker = [w \in Workers |-> "idle"]
    /\ capacity = PoolSize - Len(queue)
    /\ brain = "open"
    /\ closer = "idle" /\ wait = FALSE /\ closing = None
    /\ step = "idle" /\ allow = FALSE
    /\ canceller = [at |-> "idle", op |-> None] /\ calls = 0
    /\ yes = {} /\ no = {} /\ ran = {}

-----------------------------------------------------------------------------
(* The confirmation coordinator. *)

OpenOf(S) == {c \in DOMAIN pending : c[1] \in S}

\* Refuse every open confirmation of the requests in S.
CancelOperations(S) ==
    /\ pending' = [c \in DOMAIN pending |->
                      IF c \in OpenOf(S)
                      THEN [resolved |-> TRUE, approved |-> FALSE]
                      ELSE pending[c]]
    /\ no' = no \cup OpenOf(S)

\* Mutant: a later answer overrides an earlier one, or a cancellation.
ResolveAgain(c, approved) ==
    /\ c \in DOMAIN pending
    /\ pending' = [pending EXCEPT ![c] = [resolved |-> TRUE,
                                          approved |-> approved]]
    /\ yes' = IF approved THEN yes \cup {c} ELSE yes
    /\ no' = IF approved THEN no ELSE no \cup {c}

\* resolve: only the first answer counts, and only while the request waits.
ResolvePending(c, approved) ==
    /\ c \in DOMAIN pending
    /\ ~pending[c].resolved
    /\ pending' = [pending EXCEPT ![c] = [resolved |-> TRUE,
                                          approved |-> approved]]
    /\ yes' = IF approved THEN yes \cup {c} ELSE yes
    /\ no' = IF approved THEN no ELSE no \cup {c}

-----------------------------------------------------------------------------
(* Callers: stream, the loop over its events, and its end. *)

Called == calls < MaxCalls /\ calls' = calls + 1

\* Mutant: a request does not ask whether another one is active.
AcceptsAny == ~closed

Accepts == ~closed /\ active = None

Stream(o) ==
    /\ pc[o] = "idle"
    /\ Called
    /\ IF Accepts
       THEN /\ active' = o
            /\ pc' = [pc EXCEPT ![o] = "made"]
       ELSE /\ pc' = [pc EXCEPT ![o] = "refused"]
            /\ UNCHANGED active
    /\ UNCHANGED <<closed, cancelled, events, asked, reader,
                   confirms, gate, lock, pool, brain, closers, durable, canceller,
                   history>>

\* An answer to the n-th confirmation of a request; any thread may give it.
Resolve(o, n, approved) ==
    /\ ResolvePending(<<o, n>>, approved)
    /\ UNCHANGED <<svc, ops, reader, refusing, gate, lock, pool, brain,
                   closers, durable, canceller, calls, ran>>

\* The caller closes the stream, or is interrupted while it waits for an event.
Abandon(o) ==
    /\ reader[o] = "reading"
    /\ pc[o] \in Running \ {"made"}
    /\ Called
    /\ reader' = [reader EXCEPT ![o] = "leaving"]
    /\ cancelled' = [cancelled EXCEPT ![o] = TRUE]
    /\ UNCHANGED <<svc, pc, events, asked, confirms, gate, lock, pool, brain,
                   closers, durable, canceller, history>>

Leave(o) ==
    /\ reader[o] = "leaving"
    /\ reader' = [reader EXCEPT ![o] = "left"]
    /\ CancelOperations({o})
    /\ UNCHANGED <<svc, ops, refusing, gate, lock, pool, brain, closers,
                   durable, canceller, calls, yes, ran>>

\* cancel_active reads the active request, sets its event, refuses what it asks.
CancelActive ==
    /\ canceller.at = "idle"
    /\ active # None
    /\ canceller' = [at |-> "found", op |-> active]
    /\ Called
    /\ UNCHANGED <<svc, ops, reader, confirms, gate, lock, pool, brain,
                   closers, durable, history>>

CancelSet ==
    /\ canceller.at = "found"
    /\ canceller' = [canceller EXCEPT !.at = "set"]
    /\ cancelled' = [cancelled EXCEPT ![canceller.op] = TRUE]
    /\ UNCHANGED <<svc, pc, events, asked, reader, confirms, gate, lock,
                   pool, brain, closers, durable, calls, history>>

CancelEnd ==
    /\ canceller.at = "set"
    /\ canceller' = [at |-> "idle", op |-> None]
    /\ CancelOperations({canceller.op})
    /\ UNCHANGED <<svc, ops, reader, refusing, gate, lock, pool, brain,
                   closers, durable, calls, yes, ran>>

-----------------------------------------------------------------------------
(* The thread of a request: _run_operation and the stream of the brain. *)

Goto(o, at) == pc' = [pc EXCEPT ![o] = at]
Emit(o, e) == events' = [events EXCEPT ![o] = Append(@, e)]

\* The caller starts the thread, which reports its status.
Begin(o) ==
    /\ pc[o] = "made"
    /\ Goto(o, "lock") /\ Emit(o, "status")
    /\ UNCHANGED <<svc, cancelled, asked, reader, confirms, gate, lock, pool,
                   brain, closers, durable, canceller, calls, history>>

\* A request cancelled while it waited for the lock leaves at once.
Enter(o) ==
    /\ pc[o] = "lock" /\ lock = None
    /\ IF cancelled[o]
       THEN Goto(o, "after") /\ UNCHANGED lock
       ELSE /\ \E k \in Kinds : Goto(o, IF k = "session" THEN "switch" ELSE "brain")
            /\ lock' = o
    /\ UNCHANGED <<svc, cancelled, events, asked, reader, confirms,
                   gate, pool, brain, closers, durable, canceller, calls, history>>

\* Mutant: a cancelled request reports it, but goes on to its outcome.
ChunkNoBreak(o) ==
    /\ pc[o] \in {"brain", "reply"}
    /\ IF cancelled[o]
       THEN Emit(o, "cancelled") ELSE pc[o] = "reply" /\ UNCHANGED events
    /\ Goto(o, "after") /\ lock' = None
    /\ UNCHANGED <<svc, cancelled, asked, reader, confirms, gate, pool, brain,
                   closers, durable, canceller, calls, history>>

\* The brain yields a chunk: a text event, or for a cancelled request the end.
Chunk(o) ==
    /\ pc[o] \in {"brain", "reply"}
    /\ IF cancelled[o]
       THEN /\ Emit(o, "cancelled")
            /\ Goto(o, "finally") /\ lock' = None
       ELSE /\ pc[o] = "reply"
            /\ Goto(o, "after") /\ lock' = None
            /\ UNCHANGED events
    /\ UNCHANGED <<svc, cancelled, asked, reader, confirms, gate, pool, brain,
                   closers, durable, canceller, calls, history>>

\* Mutant: the lock is not released when the brain raises.
RaiseKeepsLock(o) ==
    /\ pc[o] \in {"switch", "brain", "submit", "reply"}
    /\ Emit(o, "error")
    /\ Goto(o, "finally")
    /\ UNCHANGED <<svc, cancelled, asked, reader, confirms, gate, lock, pool,
                   brain, closers, durable, canceller, calls, history>>

\* Anything the brain calls may raise.
Raise(o) ==
    /\ pc[o] \in {"switch", "brain", "submit", "reply"}
    /\ Emit(o, "error")
    /\ Goto(o, "finally") /\ lock' = None
    /\ UNCHANGED <<svc, cancelled, asked, reader, confirms, gate, pool,
                   brain, closers, durable, canceller, calls, history>>

\* The stream of an answer ends, also when the model failed.
EndAnswer(o) ==
    /\ \E at \in {"after", "failed"} : Goto(o, at)
    /\ lock' = None

\* The extraction of memories follows a message that was stored, not a command.
Answered(o) ==
    /\ pc[o] = "brain"
    /\ \/ Goto(o, "submit") /\ UNCHANGED lock
       \/ EndAnswer(o)
    /\ UNCHANGED <<svc, cancelled, events, asked, reader, confirms, gate, pool,
                   brain, closers, durable, canceller, calls, history>>

\* _submit_background up to the executor's submit; a new session is announced
\* after the summary of the old one was submitted.
Submit(o) ==
    /\ pc[o] \in {"switch", "submit"}
    /\ IF brain = "open" /\ capacity > 0
       THEN /\ capacity' = capacity - 1
            /\ Goto(o, IF pc[o] = "switch" THEN "put summary" ELSE "put")
            /\ UNCHANGED lock
       ELSE /\ IF pc[o] = "switch" THEN Goto(o, "reply") /\ UNCHANGED lock
               ELSE EndAnswer(o)
            /\ UNCHANGED capacity
    /\ UNCHANGED <<svc, cancelled, events, asked, reader, confirms, gate,
                   queue, worker, brain, closers, durable, canceller, calls, history>>

\* Mutant: a submission that raises keeps its permit.
PutLeaks(o) ==
    /\ pc[o] \in {"put", "put summary"}
    /\ IF brain = "shut"
       THEN /\ Emit(o, "error") /\ Goto(o, "finally") /\ lock' = None
            /\ UNCHANGED queue
       ELSE /\ queue' = Append(queue, IF pc[o] = "put" THEN "memory" ELSE "summary")
            /\ IF pc[o] = "put" THEN EndAnswer(o)
               ELSE Goto(o, "reply") /\ UNCHANGED lock
            /\ UNCHANGED events
    /\ UNCHANGED <<svc, cancelled, asked, reader, confirms, gate, worker,
                   capacity, brain, closers, durable, canceller, calls, history>>

\* A pool that was shut down raises; the permit is given back.
Put(o) ==
    /\ pc[o] \in {"put", "put summary"}
    /\ IF brain = "shut"
       THEN /\ capacity' = capacity + 1 /\ UNCHANGED queue
            /\ Emit(o, "error") /\ Goto(o, "finally") /\ lock' = None
       ELSE /\ queue' = Append(queue, IF pc[o] = "put" THEN "memory" ELSE "summary")
            /\ IF pc[o] = "put" THEN EndAnswer(o)
               ELSE Goto(o, "reply") /\ UNCHANGED lock
            /\ UNCHANGED <<capacity, events>>
    /\ UNCHANGED <<svc, cancelled, asked, reader, confirms, gate, worker,
                   brain, closers, durable, canceller, calls, history>>

Outcome(o) == CASE cancelled[o] -> "cancelled"
                [] ~cancelled[o] /\ pc[o] = "failed" -> "error"
                [] OTHER -> "completed"

\* The outcome of a stream that ended by itself.
Conclude(o) ==
    /\ pc[o] \in {"after", "failed"}
    /\ Emit(o, Outcome(o)) /\ Goto(o, "finally")
    /\ UNCHANGED <<svc, cancelled, asked, reader, confirms, gate, lock, pool,
                   brain, closers, durable, canceller, calls, history>>

\* The end of the events follows when the next request may have begun already.
Finally(o) ==
    /\ pc[o] = "finally"
    /\ CancelOperations({o})
    /\ active' = IF active = o THEN None ELSE active
    /\ Emit(o, "end") /\ Goto(o, "done")
    /\ UNCHANGED <<closed, cancelled, asked, reader, refusing, gate, lock,
                   pool, brain, closers, durable, canceller, calls, yes, ran>>

-----------------------------------------------------------------------------
(* A call of a tool with high permission: _check_confirmation, by way of   *)
(* _request_confirmation the coordinator's request, then the tool.  Whoever *)
(* attaches and detaches handler and policy detaches the handler first, so  *)
(* reading both is one step.                                                *)

\* What the gate says without asking: it allows, denies, or has to ask.
Gate ==
    CASE policy # "none" -> policy
      [] policy = "none" /\ ~ConfirmHigh -> "allow"
      [] policy = "none" /\ ConfirmHigh /\ attached -> "ask"
      [] OTHER -> "stdin"

Id(o) == <<o, asked[o]>>

CallTool(o) ==
    /\ pc[o] = "brain" /\ asked[o] < MaxAsks
    /\ \/ /\ Gate = "ask"
          /\ IF cancelled[o] THEN UNCHANGED pc ELSE Goto(o, "register")
          /\ UNCHANGED ran
       \/ /\ Gate \in {"allow", "stdin"}
          /\ ran' = ran \cup {[by |-> o, gate |-> Gate, id |-> 0]}
          /\ UNCHANGED pc
    /\ UNCHANGED <<svc, cancelled, events, asked, reader, confirms,
                   gate, lock, pool, brain, closers, durable, canceller, calls, yes,
                   no>>

RegisterRequest(o) ==
    /\ pc[o] = "register"
    /\ IF refusing
       THEN Goto(o, "brain") /\ UNCHANGED <<asked, pending>>
       ELSE /\ asked' = [asked EXCEPT ![o] = @ + 1]
            /\ pending' = [c \in DOMAIN pending \cup {<<o, asked[o] + 1>>} |->
                              IF c \in DOMAIN pending THEN pending[c]
                              ELSE [resolved |-> FALSE, approved |-> FALSE]]
            /\ Goto(o, "wait")
    /\ UNCHANGED <<svc, cancelled, events, reader, refusing, gate, lock, pool,
                   brain, closers, durable, canceller, calls, history>>

\* The request is taken out, and with an approval the tool is executed.
Decided(o, approved) ==
    /\ pending' = [c \in DOMAIN pending \ {Id(o)} |-> pending[c]]
    /\ ran' = IF approved
              THEN ran \cup {[by |-> o, gate |-> "ask", id |-> asked[o]]}
              ELSE ran
    /\ Goto(o, "brain")

\* Once resolved, an approval can only be withdrawn, so that waking up and
\* reading it is one step.
Wait(o) ==
    /\ pc[o] = "wait"
    /\ IF pending[Id(o)].resolved
       THEN Decided(o, pending[Id(o)].approved)
       ELSE Goto(o, "check") /\ UNCHANGED <<pending, ran>>
    /\ UNCHANGED <<svc, cancelled, events, asked, reader, refusing, gate, lock,
                   pool, brain, closers, durable, canceller, calls, yes, no>>

\* Mutant: only close is looked at while a confirmation is awaited.
CheckCloseOnly(o) ==
    /\ pc[o] = "check"
    /\ IF refusing
       THEN Decided(o, FALSE)
       ELSE Goto(o, "wait") /\ UNCHANGED <<pending, ran>>
    /\ UNCHANGED <<svc, cancelled, events, asked, reader, refusing, gate, lock,
                   pool, brain, closers, durable, canceller, calls, yes, no>>

CheckCancel(o) ==
    /\ pc[o] = "check"
    /\ IF cancelled[o] \/ refusing
       THEN Decided(o, FALSE)
       ELSE Goto(o, "wait") /\ UNCHANGED <<pending, ran>>
    /\ UNCHANGED <<svc, cancelled, events, asked, reader, refusing, gate, lock,
                   pool, brain, closers, durable, canceller, calls, yes, no>>

-----------------------------------------------------------------------------
(* The job worker's _execute_orchestration_step. *)

StepBegin(a) ==
    /\ step = "idle" /\ Called
    /\ step' = "lock" /\ allow' = a
    /\ UNCHANGED <<svc, ops, reader, confirms, gate, lock, pool, brain,
                   closers, canceller, history>>

StepEnter ==
    /\ step = "lock" /\ lock = None
    /\ IF closed
       THEN step' = "idle" /\ UNCHANGED <<lock, policy>>
       ELSE /\ step' = "run" /\ lock' = JobWorker
            /\ policy' = IF allow THEN "allow" ELSE "deny"
    /\ UNCHANGED <<svc, ops, reader, confirms, attached, pool, brain, closers,
                   allow, canceller, calls, history>>

\* The job worker is no request's thread: where the gate asks, it is refused.
StepTool ==
    /\ step = "run"
    /\ Gate \in {"allow", "stdin"}
    /\ ran' = ran \cup {[by |-> JobWorker, gate |-> Gate,
                         id |-> IF allow THEN 1 ELSE 0]}
    /\ UNCHANGED <<svc, ops, reader, confirms, gate, lock, pool, brain,
                   closers, durable, canceller, calls, yes, no>>

StepEnd ==
    /\ step = "run"
    /\ step' = "idle" /\ policy' = "none" /\ lock' = None /\ allow' = FALSE
    /\ UNCHANGED <<svc, ops, reader, confirms, attached, pool, brain, closers,
                   canceller, calls, history>>

-----------------------------------------------------------------------------
(* The brain's background pool. *)

TakeTask(w) ==
    /\ worker[w] = "idle" /\ queue # <<>>
    /\ worker' = [worker EXCEPT ![w] =
                     IF Head(queue) = "summary" THEN "lock" ELSE "memory"]
    /\ queue' = Tail(queue)
    /\ UNCHANGED <<svc, ops, reader, confirms, gate, lock, capacity, brain,
                   closers, durable, canceller, calls, history>>

\* A session summary uses the model and takes the execution lock for it.
SummaryLock(w) ==
    /\ worker[w] = "lock" /\ lock = None
    /\ worker' = [worker EXCEPT ![w] = "summary"] /\ lock' = w
    /\ UNCHANGED <<svc, ops, reader, confirms, gate, queue, capacity, brain,
                   closers, durable, canceller, calls, history>>

\* Mutant: both the task and its callback give the permit back.
TaskDoneTwice(w) ==
    /\ worker[w] \in {"memory", "summary"}
    /\ worker' = [worker EXCEPT ![w] = "idle"]
    /\ capacity' = capacity + 2
    /\ lock' = IF worker[w] = "summary" THEN None ELSE lock
    /\ UNCHANGED <<svc, ops, reader, confirms, gate, queue, brain, closers,
                   durable, canceller, calls, history>>

TaskDone(w) ==
    /\ worker[w] \in {"memory", "summary"}
    /\ worker' = [worker EXCEPT ![w] = "idle"]
    /\ capacity' = capacity + 1
    /\ lock' = IF worker[w] = "summary" THEN None ELSE lock
    /\ UNCHANGED <<svc, ops, reader, confirms, gate, queue, brain, closers,
                   durable, canceller, calls, history>>

-----------------------------------------------------------------------------
(* close. *)

Close(w) ==
    /\ closer = "idle" /\ Called
    /\ closed' = TRUE
    /\ closer' = "cancel" /\ wait' = w /\ closing' = active
    /\ UNCHANGED <<active, ops, reader, confirms, gate, lock, pool, brain,
                   durable, canceller, history>>

CloseCancel ==
    /\ closer = "cancel"
    /\ closer' = "refuse"
    /\ cancelled' = [o \in Ops |-> cancelled[o] \/ o = closing]
    /\ UNCHANGED <<svc, pc, events, asked, reader, confirms, gate, lock,
                   pool, brain, wait, closing, durable, canceller, calls, history>>

\* The coordinator refuses the active request's, then all open confirmations;
\* the second leaves nothing the first did not.
CloseRefuse ==
    /\ closer = "refuse"
    /\ closer' = "detach"
    /\ refusing' = TRUE
    /\ CancelOperations(Ops)
    /\ UNCHANGED <<svc, ops, reader, gate, lock, pool, brain, wait, closing,
                   durable, canceller, calls, yes, ran>>

\* Mutant: close does not take the execution lock.
CloseDetachUnlocked ==
    /\ closer = "detach"
    /\ closer' = "brain"
    /\ attached' = FALSE /\ policy' = "none"
    /\ UNCHANGED <<svc, ops, reader, confirms, lock, pool, brain, wait,
                   closing, durable, canceller, calls, history>>

\* The tool manager's hooks; then the job runtime's close, which waits at most
\* five seconds for the worker and so may leave it in a step.
CloseDetach ==
    /\ closer = "detach"
    /\ closer' = IF wait THEN "lock" ELSE "brain"
    /\ attached' = FALSE /\ policy' = "none"
    /\ UNCHANGED <<svc, ops, reader, confirms, lock, pool, brain, wait,
                   closing, durable, canceller, calls, history>>

CloseLock ==
    /\ closer = "lock" /\ lock = None
    /\ closer' = "brain" /\ lock' = Closer
    /\ UNCHANGED <<svc, ops, reader, confirms, gate, pool, brain, wait,
                   closing, durable, canceller, calls, history>>

CloseBrain ==
    /\ closer = "brain"
    /\ closer' = "pool" /\ brain' = "closed"
    /\ UNCHANGED <<svc, ops, reader, confirms, gate, lock, pool, wait,
                   closing, durable, canceller, calls, history>>

\* Without wait the tasks in the queue are cancelled.
CloseShutdown ==
    /\ closer = "pool"
    /\ closer' = "drain" /\ brain' = "shut"
    /\ IF wait
       THEN UNCHANGED <<queue, capacity>>
       ELSE queue' = <<>> /\ capacity' = capacity + Len(queue)
    /\ UNCHANGED <<svc, ops, reader, confirms, gate, lock, worker, wait,
                   closing, durable, canceller, calls, history>>

PoolEmpty == queue = <<>> /\ \A w \in Workers : worker[w] = "idle"

CloseDrained ==
    /\ closer = "drain"
    /\ wait => PoolEmpty
    /\ closer' = IF wait /\ closing # None THEN "join" ELSE "done"
    /\ lock' = IF wait THEN None ELSE lock
    /\ UNCHANGED <<svc, ops, reader, confirms, gate, pool, brain, wait,
                   closing, durable, canceller, calls, history>>

\* join raises for a thread that was not started, else takes five seconds at most.
CloseJoin ==
    /\ closer = "join"
    /\ \/ closer' = "done"
       \/ pc[closing] = "made" /\ closer' = "raised"
    /\ UNCHANGED <<svc, ops, reader, confirms, gate, lock, pool, brain, wait,
                   closing, durable, canceller, calls, history>>

-----------------------------------------------------------------------------
OpThread(o) ==
    \/ Begin(o) \/ Enter(o) \/ Chunk(o) \/ Raise(o) \/ Answered(o)
    \/ Submit(o) \/ Put(o) \/ Conclude(o) \/ Finally(o)
    \/ CallTool(o) \/ RegisterRequest(o) \/ Wait(o) \/ CheckCancel(o)

Caller(o) ==
    \/ Stream(o) \/ Abandon(o) \/ Leave(o)
    \/ \E n \in 1 .. MaxAsks, approved \in BOOLEAN : Resolve(o, n, approved)

StepThread == (\E a \in BOOLEAN : StepBegin(a)) \/ StepEnter \/ StepTool \/ StepEnd

PoolThread(w) == TakeTask(w) \/ SummaryLock(w) \/ TaskDone(w)

Cancelling == CancelActive \/ CancelSet \/ CancelEnd

Closing ==
    \/ CloseCancel \/ CloseRefuse \/ CloseDetach \/ CloseLock \/ CloseBrain
    \/ CloseShutdown \/ CloseDrained \/ CloseJoin

Next ==
    \/ \E o \in Ops : OpThread(o) \/ Caller(o)
    \/ \E w \in Workers : PoolThread(w)
    \/ StepThread \/ Cancelling \/ Closing
    \/ \E w \in BOOLEAN : Close(w)

Spec == Init /\ [][Next]_vars

(***************************************************************************)
(* Threads run, the model answers and tasks end; a caller that has left    *)
(* its stream or called cancel_active or close goes through with it.       *)
(* Nothing obliges a user to read, to answer, to cancel or to close.       *)
(***************************************************************************)
Fairness ==
    /\ \A o \in Ops : WF_vars(OpThread(o)) /\ WF_vars(Leave(o))
    /\ \A w \in Workers : WF_vars(PoolThread(w))
    /\ WF_vars(StepEnter \/ StepEnd)
    /\ WF_vars(CancelSet \/ CancelEnd)
    /\ WF_vars(Closing)

FairSpec == Spec /\ Fairness

-----------------------------------------------------------------------------
(* Properties. *)

Count(S) == Cardinality(S)

TypeOK ==
    /\ closed \in BOOLEAN /\ active \in Ops \cup {None}
    /\ pc \in [Ops -> Running \cup {"idle", "refused", "done"}]
    /\ cancelled \in [Ops -> BOOLEAN]
    /\ events \in [Ops -> Seq({"status", "end"} \cup Outcomes)]
    /\ asked \in [Ops -> 0 .. MaxAsks]
    /\ reader \in [Ops -> {"reading", "leaving", "left"}]
    /\ DOMAIN pending \subseteq Ids
    /\ \A c \in DOMAIN pending :
          pending[c] \in [resolved : BOOLEAN, approved : BOOLEAN]
    /\ refusing \in BOOLEAN /\ attached \in BOOLEAN
    /\ policy \in {"none", "allow", "deny"}
    /\ lock \in Ops \cup Workers \cup {None, Closer, JobWorker}
    /\ queue \in Seq({"memory", "summary"})
    /\ worker \in [Workers -> {"idle", "lock", "memory", "summary"}]
    /\ capacity \in 0 .. PoolSize
    /\ brain \in {"open", "closed", "shut"}
    /\ closer \in {"idle", "cancel", "refuse", "detach", "lock", "brain",
                   "pool", "drain", "join", "done", "raised"}
    /\ wait \in BOOLEAN /\ closing \in Ops \cup {None}
    /\ step \in {"idle", "lock", "run"} /\ allow \in BOOLEAN
    /\ canceller \in [at : {"idle", "found", "set"}, op : Ops \cup {None}]
    /\ calls \in 0 .. MaxCalls
    /\ yes \subseteq Ids /\ no \subseteq Ids
    /\ ran \subseteq [by : Ops \cup {JobWorker}, gate : {"allow", "ask", "stdin"},
                      id : 0 .. MaxAsks + 1]

(***************************************************************************)
(* A tool with high permission is executed for a request only after a      *)
(* caller was told that this very confirmation was approved, and not if it *)
(* was refused, cancelled or swept away by close before the request woke   *)
(* up with the approval.  A durable step needs its allow_high_tools.  What *)
(* remains is a question at the terminal once close has detached the       *)
(* handler, and no question at all where the setting asks for none.        *)
(***************************************************************************)
HighToolsAsked ==
    \A r \in ran :
       \/ r.gate = "ask" /\ <<r.by, r.id>> \in yes \ no
       \/ r.gate = "allow" /\ (~ConfirmHigh \/ (r.by = JobWorker /\ r.id = 1))
       \/ r.gate = "stdin" /\ refusing

(***************************************************************************)
(* The event queue of a request, however cancellation and close interleave *)
(* with its thread: the status, then exactly one outcome, then the end,    *)
(* and when there is an outcome no confirmation of it stays open.          *)
(***************************************************************************)
StreamFits ==
    \A o \in Ops :
       /\ events[o] \in {<<>>, <<"status">>}
             \cup {<<"status", x>> : x \in Outcomes}
             \cup {<<"status", x, "end">> : x \in Outcomes}
       /\ Len(events[o]) > 1 => OpenOf({o}) = {}
       /\ pc[o] = "done" => Len(events[o]) = 3

(***************************************************************************)
(* _active is the request whose thread has not reached the end of its      *)
(* finally block: a second stream cannot start beside it, the brain is in  *)
(* use by it alone, and an open confirmation is the one it waits for.      *)
(***************************************************************************)
OneOperation ==
    /\ \A o \in Ops : pc[o] \in Running <=> active = o
    /\ \A o \in Ops : pc[o] \in InBrain <=> lock = o
    /\ \A c \in DOMAIN pending :
          pc[c[1]] \in Asking /\ c = Id(c[1])

(***************************************************************************)
(* The semaphore that bounds the background pool is in step with the tasks *)
(* in it, also when its queue is full, a submission raises because the     *)
(* pool was shut down, or close cancels what is queued.                    *)
(***************************************************************************)
CapacityBalanced ==
    capacity + Len(queue) + Count({w \in Workers : worker[w] # "idle"})
             + Count({o \in Ops : pc[o] \in {"put", "put summary"}}) = PoolSize

\* There is one operation at a time, and a bounded number of tasks behind it.
LimitsKept == OneOperation /\ CapacityBalanced

(***************************************************************************)
(* When close(wait=True) has returned, nothing uses the brain, whose       *)
(* clients are closed, and nothing will: no request is in it, no durable   *)
(* step, no background task.                                               *)
(***************************************************************************)
QuietAfterClose ==
    wait /\ closer \in {"join", "done", "raised"} =>
        /\ \A o \in Ops : pc[o] \notin InBrain
        /\ step # "run"
        /\ PoolEmpty

(***************************************************************************)
(* close holds the execution lock while it waits for a pool that still has *)
(* a session summary, which waits for this lock.                           *)
(***************************************************************************)
SummaryStuck ==
    /\ closer = "drain" /\ wait
    /\ \/ \E w \in Workers : worker[w] = "lock"
       \/ \E i \in 1 .. Len(queue) : queue[i] = "summary"

(***************************************************************************)
(* A request that is cancelled, by cancel_active, by its caller or by      *)
(* close, ends, also one that waits for a confirmation nobody answers or   *)
(* for the brain.                                                          *)
(***************************************************************************)
CancelledEnds ==
    \A o \in Ops : cancelled[o] ~> (pc[o] = "done" \/ SummaryStuck)

\* close returns, unless it meets an unfinished session summary.
ShutdownEnds ==
    closer = "cancel" ~> (closer \in {"done", "raised"} \/ SummaryStuck)

\* What is told to stop does: requests, and the service itself.
EndsWhenTold == CancelledEnds /\ ShutdownEnds

(***************************************************************************)
(* close returns: the service "owns brain and job-worker shutdown"         *)
(* (ARCHITECTURE.md:273).                                                  *)
(***************************************************************************)
CloseReturns == closer = "cancel" ~> closer \in {"done", "raised"}
=============================================================================
