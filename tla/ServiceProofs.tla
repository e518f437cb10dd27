--------------------------- MODULE ServiceProofs ---------------------------
(***************************************************************************)
(* Theorems about Service for every set of requests and pool threads, both *)
(* settings of the gate, every size of the queue and every bound.          *)
(*                                                                         *)
(* A request's thread is summed up first: where it goes, and what it does  *)
(* with the lock on its way (OpMove).  Each part of the inductive          *)
(* invariant then has a lemma that names the steps which could disturb it. *)
(***************************************************************************)
EXTENDS Service, FiniteSetTheorems, SequenceTheorems, TLAPS

(***************************************************************************)
(* The parts of the inductive invariant.                                   *)
(***************************************************************************)

\* Who holds the lock is where only its holder is.
LocksFit ==
    /\ \A o \in Ops : pc[o] \in InBrain <=> lock = o
    /\ step = "run" <=> lock = JobWorker
    /\ \A w \in Workers : worker[w] = "summary" <=> lock = w
    /\ (wait /\ closer \in {"brain", "pool", "drain"}) <=> lock = Closer
    /\ closer = "lock" => wait

ActiveFits == \A o \in Ops : pc[o] \in Running <=> active = o

\* The open confirmations are those that are waited for.
OpenFits ==
    /\ \A o \in Ops : pc[o] \in Asking => Id(o) \in DOMAIN pending
    /\ \A c \in DOMAIN pending : pc[c[1]] \in Asking /\ c = Id(c[1])
    /\ \A o \in Ops : pc[o] = "register" => asked[o] < MaxAsks

\* What was told of an answer and what is kept of it agree.
AnswersFit ==
    /\ \A c \in yes \cup no : c[2] <= asked[c[1]]
    /\ \A c \in DOMAIN pending :
         /\ pending[c].approved => c \in yes
         /\ c \in no => pending[c].resolved /\ ~pending[c].approved

\* A tool was executed for a confirmation that is not open any more.
RunsFit ==
    \A r \in ran : r.gate = "ask" =>
        /\ r.by \in Ops /\ r.id \in 1 .. asked[r.by]
        /\ pc[r.by] \in Asking => r.id < asked[r.by]

\* A policy is a durable step's; the handler goes when all is refused.
GateFits ==
    /\ policy # "none" => step = "run"
    /\ policy = "allow" => allow
    /\ ~attached \/ closer \notin {"idle", "cancel", "refuse"} => refusing

\* The request that close found is the last one, and it is cancelled.
ClosingFits ==
    /\ closed <=> closer # "idle"
    /\ closed /\ active # None => active = closing
    /\ closer \notin {"idle", "cancel"} /\ closing # None => cancelled[closing]

\* What is in the event queue of a request whose thread is at a place.
EventsAt(at) ==
    IF at \in {"idle", "made", "refused"} THEN {<<>>}
    ELSE IF at = "finally" THEN {<<"status", x>> : x \in Outcomes}
    ELSE IF at = "done" THEN {<<"status", x, "end">> : x \in Outcomes}
    ELSE {<<"status">>}

EventsFit == \A o \in Ops : events[o] \in EventsAt(pc[o])

IInv ==
    /\ TypeOK /\ LocksFit /\ ActiveFits /\ OpenFits /\ AnswersFit /\ RunsFit
    /\ HighToolsAsked /\ GateFits /\ ClosingFits /\ EventsFit
    /\ CapacityBalanced /\ QuietAfterClose

-----------------------------------------------------------------------------
(* Names, identifiers and the steps of a request's thread. *)

LEMMA Names ==
    /\ \A o \in Ops : o # None /\ o # JobWorker /\ o # Closer /\ o \notin Workers
    /\ \A w \in Workers : w # None /\ w # JobWorker /\ w # Closer /\ w \notin Ops
    /\ None # JobWorker /\ None # Closer /\ JobWorker # Closer
    /\ MaxAsks \in Nat /\ MaxCalls \in Nat
  BY ServiceAssumption DEF ServiceAssumption

PcTyped == pc \in [Ops -> Running \cup {"idle", "refused", "done"}]

(***************************************************************************)
(* The thread of o goes from one place to another; it takes the lock, or   *)
(* gives it back, or keeps what it has.                                    *)
(***************************************************************************)
OpMove(o) ==
    /\ pc[o] \in Running /\ pc'[o] \in (Running \ {"made"}) \cup {"done"}
    /\ pc' = [pc EXCEPT ![o] = pc'[o]]
    /\ \/ lock' = lock /\ (pc'[o] \in InBrain <=> pc[o] \in InBrain)
       \/ lock = None /\ lock' = o /\ pc[o] \notin InBrain /\ pc'[o] \in InBrain
       \/ lock' = None /\ pc[o] \in InBrain /\ pc'[o] \notin InBrain

LEMMA OpMoves ==
    ASSUME PcTyped, NEW o \in Ops, OpThread(o)
    PROVE  /\ OpMove(o)
           /\ pc'[o] = "done" => Finally(o)
  <1> USE DEF OpMove, PcTyped, Running, InBrain, Asking, Goto
  <1>1. CASE Begin(o) \/ Enter(o) \/ Chunk(o) \/ Raise(o)
    BY <1>1 DEF Begin, Enter, Chunk, Raise
  <1>2. CASE Answered(o) \/ Submit(o) \/ Put(o)
    BY <1>2 DEF Answered, Submit, Put, EndAnswer
  <1>3. CASE Conclude(o) \/ Finally(o)
    BY <1>3 DEF Conclude, Finally
  <1>4. CASE CallTool(o) \/ RegisterRequest(o) \/ Wait(o) \/ CheckCancel(o)
    BY <1>4 DEF CallTool, RegisterRequest, Wait, CheckCancel, Decided, gate
  <1>5. QED
    BY <1>1, <1>2, <1>3, <1>4 DEF OpThread

\* What the thread of a request never changes.
LEMMA OpKeeps ==
    ASSUME NEW o \in Ops, OpThread(o)
    PROVE  /\ UNCHANGED <<closed, cancelled, reader, refusing, gate, worker, brain,
                          closers, durable, canceller, calls, yes>>
           /\ active' = active \/ Finally(o)
  BY DEF OpThread, Begin, Enter, Chunk, Raise, Answered, Submit, Put, Conclude, Finally,
         CallTool, RegisterRequest, Wait, CheckCancel, svc, confirms, pool, history

\* The other threads leave the requests where they are.
LEMMA OthersKeepPc ==
    ASSUME [Next]_vars, ~ \E o \in Ops : OpThread(o) \/ Stream(o)
    PROVE  pc' = pc /\ active' = active
  BY DEF Next, vars, svc, ops, Caller, Abandon, Leave, Resolve, PoolThread, TakeTask, SummaryLock,
         TaskDone, StepThread, StepBegin, StepEnter, StepTool, StepEnd, Cancelling,
         CancelActive, CancelSet, CancelEnd, Closing, CloseCancel, CloseRefuse, CloseDetach,
         CloseLock, CloseBrain, CloseShutdown, CloseDrained, CloseJoin, Close

LEMMA LocksStep ==
    ASSUME PcTyped, worker \in [Workers -> {"idle", "lock", "memory", "summary"}],
           wait \in BOOLEAN, LocksFit, [Next]_vars
    PROVE  LocksFit'
  <1> USE Names DEF LocksFit
  <1>1. ASSUME NEW o \in Ops, OpThread(o) PROVE LocksFit'
    <2>1. OpMove(o) /\ UNCHANGED <<step, worker, wait, closer>>
      BY <1>1, OpMoves, OpKeeps DEF closers, durable
    <2>2. QED
      BY <2>1 DEF OpMove, PcTyped
  <1>2. ASSUME NEW o \in Ops, Stream(o) PROVE LocksFit'
    <2>1. /\ pc[o] = "idle" /\ pc' \in {[pc EXCEPT ![o] = "made"], [pc EXCEPT ![o] = "refused"]}
          /\ UNCHANGED <<step, worker, wait, closer, lock>>
      BY <1>2 DEF Stream, closers, durable, pool
    <2>2. QED
      BY <2>1 DEF PcTyped, InBrain, Asking
  <1> SUFFICES ASSUME pc' = pc PROVE LocksFit'
    BY <1>1, <1>2, OthersKeepPc
  <1>3. ASSUME NEW w \in Workers, PoolThread(w) PROVE LocksFit'
    BY <1>3 DEF PoolThread, TakeTask, SummaryLock, TaskDone, closers, durable
  <1>4. CASE StepThread
    BY <1>4 DEF StepThread, StepBegin, StepEnter, StepTool, StepEnd, pool, closers, durable
  <1>5. CASE Closing \/ \E w \in BOOLEAN : Close(w)
    <2>1. UNCHANGED <<step, worker>>
      BY <1>5 DEF Closing, CloseCancel, CloseRefuse, CloseDetach, CloseLock, CloseBrain,
                  CloseShutdown, CloseDrained, CloseJoin, Close, pool, durable
    <2>2. CASE CloseLock
      BY <2>1, <2>2 DEF CloseLock, closers
    <2>3. CASE CloseDrained
      BY <2>1, <2>3 DEF CloseDrained, closers
    <2>4. CASE CloseCancel \/ CloseRefuse \/ CloseDetach \/ CloseBrain \/ CloseShutdown
      BY <2>1, <2>4 DEF CloseCancel, CloseRefuse, CloseDetach, CloseBrain, CloseShutdown
    <2>5. CASE CloseJoin \/ \E w \in BOOLEAN : Close(w)
      BY <2>1, <2>5 DEF CloseJoin, Close
    <2>6. QED
      BY <1>5, <2>2, <2>3, <2>4, <2>5 DEF Closing
  <1>6. CASE UNCHANGED <<step, worker, wait, closer, lock>>
    BY <1>6
  <1>7. QED
    BY <1>1, <1>2, <1>3, <1>4, <1>5, <1>6
       DEF Next, vars, Caller, Abandon, Leave, Resolve, Cancelling, CancelActive, CancelSet,
           CancelEnd, pool, closers, durable

LEMMA ActiveStep ==
    ASSUME PcTyped, ActiveFits, [Next]_vars
    PROVE  ActiveFits'
  <1> USE Names DEF ActiveFits
  <1>1. ASSUME NEW o \in Ops, OpThread(o) PROVE ActiveFits'
    <2>1. active = o /\ OpMove(o)
      BY <1>1, OpMoves DEF OpMove
    <2>2. CASE Finally(o)
      BY <2>1, <2>2 DEF Finally, Goto, PcTyped, Running, InBrain, Asking
    <2>3. CASE ~Finally(o)
      <3>1. active' = active /\ pc'[o] # "done"
        BY <1>1, <2>3, OpMoves, OpKeeps
      <3>2. QED
        BY <2>1, <3>1 DEF OpMove, PcTyped
    <2>4. QED
      BY <2>2, <2>3
  <1>2. ASSUME NEW o \in Ops, Stream(o) PROVE ActiveFits'
    <2>1. CASE Accepts
      BY <1>2, <2>1 DEF Stream, Accepts, PcTyped, Running, InBrain, Asking
    <2>2. CASE ~Accepts
      BY <1>2, <2>2 DEF Stream, PcTyped, Running, InBrain, Asking
    <2>3. QED
      BY <2>1, <2>2
  <1>3. QED
    BY <1>1, <1>2, OthersKeepPc

-----------------------------------------------------------------------------
(* Confirmations. *)

\* All open confirmations of some requests are refused, and no other changes.
LEMMA Refused ==
    ASSUME NEW S, CancelOperations(S)
    PROVE  /\ DOMAIN pending' = DOMAIN pending
           /\ \A c \in DOMAIN pending :
                IF c[1] \in S
                THEN c \in no' /\ pending'[c] = [resolved |-> TRUE, approved |-> FALSE]
                ELSE pending'[c] = pending[c] /\ (c \in no' <=> c \in no)
           /\ no \subseteq no' /\ no' \subseteq no \cup DOMAIN pending
  BY DEF CancelOperations, OpenOf

(***************************************************************************)
(* A step that leaves the open confirmations, or marks some as resolved,   *)
(* and no thread begins or ends to wait for one.                           *)
(***************************************************************************)
SameOpen ==
    /\ DOMAIN pending' = DOMAIN pending /\ asked' = asked
    /\ \A o \in Ops : /\ pc'[o] \in Asking <=> pc[o] \in Asking
                      /\ pc'[o] = "register" => pc[o] = "register" \/ asked[o] < MaxAsks

LEMMA OthersKeepOpen ==
    ASSUME [Next]_vars, ~ \E o \in Ops : OpThread(o)
    PROVE  DOMAIN pending' = DOMAIN pending /\ asked' = asked
  <1>1. ASSUME NEW o \in Ops, Caller(o) PROVE DOMAIN pending' = DOMAIN pending /\ asked' = asked
    BY <1>1, Refused DEF Caller, Stream, Abandon, Leave, Resolve, ResolvePending, confirms, ops
  <1>2. CASE Cancelling
    BY <1>2, Refused DEF Cancelling, CancelActive, CancelSet, CancelEnd, confirms, ops
  <1>3. CASE Closing \/ \E w \in BOOLEAN : Close(w)
    BY <1>3, Refused DEF Closing, CloseCancel, CloseRefuse, CloseDetach, CloseLock, CloseBrain,
           CloseShutdown, CloseDrained, CloseJoin, Close, confirms, ops
  <1>4. CASE StepThread \/ \E w \in Workers : PoolThread(w)
    BY <1>4 DEF StepThread, StepBegin, StepEnter, StepTool, StepEnd, PoolThread, TakeTask,
           SummaryLock, TaskDone, confirms, ops
  <1>5. QED
    BY <1>1, <1>2, <1>3, <1>4 DEF Next, vars, confirms, ops

LEMMA OpenStep ==
    ASSUME PcTyped, asked \in [Ops -> 0 .. MaxAsks], DOMAIN pending \subseteq Ids,
           OpenFits, [Next]_vars
    PROVE  OpenFits'
  <1> USE Names
  <1>1. ASSUME SameOpen PROVE OpenFits'
    BY <1>1 DEF SameOpen, OpenFits, Ids, Id
  <1>2. ASSUME NEW o \in Ops, OpThread(o) PROVE OpenFits'
    <2>1. OpMove(o)
      BY <1>2, OpMoves
    <2>2. CASE RegisterRequest(o)
      <3>1. CASE refusing
        BY <1>1, <2>2, <3>1 DEF RegisterRequest, Goto, SameOpen, PcTyped, Asking
      <3>2. CASE ~refusing
        <4>1. /\ pc[o] = "register" /\ pc' = [pc EXCEPT ![o] = "wait"]
              /\ asked' = [asked EXCEPT ![o] = asked[o] + 1]
              /\ DOMAIN pending' = DOMAIN pending \cup {<<o, asked[o] + 1>>}
          BY <2>2, <3>2 DEF RegisterRequest, Goto
        <4>2. ASSUME NEW c \in DOMAIN pending PROVE c[1] # o
          BY <4>1 DEF OpenFits, Asking
        <4>3. QED
          BY <4>1, <4>2 DEF OpenFits, PcTyped, Asking, Id, Ids
      <3>3. QED
        BY <3>1, <3>2
    <2>3. ASSUME NEW b \in BOOLEAN, pc[o] \in Asking, Decided(o, b), asked' = asked
          PROVE  OpenFits'
      <3>1. pc' = [pc EXCEPT ![o] = "brain"] /\ DOMAIN pending' = DOMAIN pending \ {Id(o)}
        BY <2>3 DEF Decided, Goto
      <3>2. QED
        BY <2>3, <3>1 DEF OpenFits, PcTyped, Asking, Id, Ids
    <2>4. CASE Wait(o)
      <3>1. asked' = asked /\ pc[o] \in Asking
        BY <2>4 DEF Wait, Asking
      <3>2. CASE Decided(o, pending[Id(o)].approved)
        <4>1. pc' = [pc EXCEPT ![o] = "brain"] /\ DOMAIN pending' = DOMAIN pending \ {Id(o)}
          BY <3>2 DEF Decided, Goto
        <4>2. QED
          BY <3>1, <4>1 DEF OpenFits, PcTyped, Asking, Id, Ids
      <3>3. CASE Goto(o, "check") /\ pending' = pending
        BY <1>1, <2>4, <3>1, <3>3 DEF Goto, SameOpen, PcTyped, Asking
      <3>4. QED
        BY <2>4, <3>2, <3>3 DEF Wait
    <2>5. CASE CheckCancel(o)
      <3>1. asked' = asked /\ pc[o] = "check"
        BY <2>5 DEF CheckCancel
      <3>2. CASE Goto(o, "wait") /\ pending' = pending
        BY <1>1, <3>1, <3>2 DEF Goto, SameOpen, PcTyped, Asking
      <3>3. QED
        BY <2>3, <2>5, <3>1, <3>2 DEF CheckCancel, Asking
    <2>6. CASE CallTool(o)
      BY <1>1, <2>6 DEF CallTool, Goto, SameOpen, PcTyped, Asking, confirms
    <2>7. CASE Finally(o)
      <3>1. DOMAIN pending' = DOMAIN pending /\ asked' = asked
        BY <2>7, Refused DEF Finally
      <3>2. QED
        BY <1>1, <2>7, <3>1 DEF Finally, Goto, SameOpen, PcTyped, Asking
    <2>8. CASE Begin(o) \/ Enter(o) \/ Chunk(o) \/ Raise(o) \/ Answered(o) \/ Submit(o)
                 \/ Put(o) \/ Conclude(o)
      <3>1. pending' = pending /\ asked' = asked
        BY <2>8 DEF Begin, Enter, Chunk, Raise, Answered, Submit, Put, Conclude, confirms
      <3>2. pc[o] \notin Asking /\ pc'[o] \notin Asking \cup {"register"}
        BY <2>8 DEF Begin, Enter, Chunk, Raise, Answered, Submit, Put, Conclude, EndAnswer, Goto,
                    PcTyped, Asking
      <3>3. QED
        BY <1>1, <2>1, <3>1, <3>2 DEF OpMove, SameOpen, PcTyped
    <2>9. QED
      BY <1>2, <2>2, <2>4, <2>5, <2>6, <2>7, <2>8 DEF OpThread
  <1>3. ASSUME ~ \E o \in Ops : OpThread(o) PROVE OpenFits'
    <2>1. DOMAIN pending' = DOMAIN pending /\ asked' = asked
      BY <1>3, OthersKeepOpen
    <2>2. CASE \E o \in Ops : Stream(o)
      BY <1>1, <2>1, <2>2 DEF Stream, SameOpen, PcTyped, Asking
    <2>3. CASE ~ \E o \in Ops : Stream(o)
      BY <1>1, <1>3, <2>1, <2>3, OthersKeepPc DEF SameOpen
    <2>4. QED
      BY <2>2, <2>3
  <1>4. QED
    BY <1>2, <1>3

-----------------------------------------------------------------------------
(* Answers, and the tools that are executed for them. *)

Refusing == CloseRefuse \/ CancelEnd \/ \E o \in Ops : Leave(o) \/ Finally(o)

LEMMA Refusals ==
    ASSUME Refusing
    PROVE  /\ DOMAIN pending' = DOMAIN pending
           /\ no \subseteq no' /\ no' \subseteq no \cup DOMAIN pending
           /\ \A c \in DOMAIN pending :
                \/ c \in no' /\ pending'[c] = [resolved |-> TRUE, approved |-> FALSE]
                \/ pending'[c] = pending[c] /\ (c \in no' <=> c \in no)
           /\ UNCHANGED <<yes, asked, ran>>
  <1>1. /\ UNCHANGED <<yes, asked, ran>>
        /\ \/ CancelOperations(Ops) \/ CancelOperations({canceller.op})
           \/ \E o \in Ops : CancelOperations({o})
    BY DEF Refusing, CloseRefuse, CancelEnd, Leave, Finally, ops
  <1>2. ASSUME NEW S, CancelOperations(S)
        PROVE  /\ DOMAIN pending' = DOMAIN pending
               /\ no \subseteq no' /\ no' \subseteq no \cup DOMAIN pending
               /\ \A c \in DOMAIN pending :
                    \/ c \in no' /\ pending'[c] = [resolved |-> TRUE, approved |-> FALSE]
                    \/ pending'[c] = pending[c] /\ (c \in no' <=> c \in no)
    BY <1>2, Refused
  <1>3. QED
    BY <1>1, <1>2

\* A step by which the request's thread or a caller changes a confirmation.
Confirming(o) ==
    \/ RegisterRequest(o) \/ Wait(o) \/ CheckCancel(o)
    \/ \E n \in 1 .. MaxAsks, approved \in BOOLEAN : Resolve(o, n, approved)

LEMMA OthersKeepAnswers ==
    ASSUME [Next]_vars, ~Refusing, ~ \E o \in Ops : Confirming(o)
    PROVE  /\ UNCHANGED <<pending, yes, no, asked>>
           /\ ran' = ran \/ StepTool \/ \E o \in Ops : CallTool(o)
  <1>1. ASSUME NEW o \in Ops, OpThread(o) \/ Caller(o)
        PROVE  UNCHANGED <<pending, yes, no, asked>> /\ (ran' = ran \/ CallTool(o))
    BY <1>1 DEF Refusing, Confirming, OpThread, Begin, Enter, Chunk, Raise, Answered, Submit, Put,
           Conclude, CallTool, Caller, Stream, Abandon, confirms, ops, history
  <1>2. CASE StepThread \/ Cancelling \/ \E w \in Workers : PoolThread(w)
    BY <1>2 DEF Refusing, StepThread, StepBegin, StepEnter, StepTool, StepEnd, Cancelling,
           CancelActive, CancelSet, PoolThread, TakeTask, SummaryLock, TaskDone,
           confirms, ops, history
  <1>3. CASE Closing \/ \E w \in BOOLEAN : Close(w)
    BY <1>3 DEF Refusing, Closing, CloseCancel, CloseDetach, CloseLock, CloseBrain,
           CloseShutdown, CloseDrained, CloseJoin, Close, confirms, ops, history
  <1>4. QED
    BY <1>1, <1>2, <1>3 DEF Next, vars, confirms, ops, history

\* The answer a waiting request goes on with, if it does.
LEMMA Decisions ==
    ASSUME NEW o \in Ops, Wait(o) \/ CheckCancel(o)
    PROVE  /\ UNCHANGED <<yes, no, asked>> /\ pc[o] \in Asking
           /\ \/ pending' = pending /\ ran' = ran /\ pc' = [pc EXCEPT ![o] = pc'[o]]
              \/ /\ pending' = [c \in DOMAIN pending \ {Id(o)} |-> pending[c]]
                 /\ pc' = [pc EXCEPT ![o] = "brain"]
                 /\ \/ ran' = ran
                    \/ /\ pending[Id(o)].approved
                       /\ ran' = ran \cup {[by |-> o, gate |-> "ask", id |-> asked[o]]}
  BY DEF Wait, CheckCancel, Decided, Goto, Asking

LEMMA AnswersStep ==
    ASSUME asked \in [Ops -> 0 .. MaxAsks], DOMAIN pending \subseteq Ids,
           yes \cup no \subseteq Ids, OpenFits, AnswersFit, [Next]_vars
    PROVE  AnswersFit'
  <1> USE Names
  <1>1. CASE Refusing
    BY <1>1, Refusals DEF AnswersFit, OpenFits, Id, Ids
  <1>2. ASSUME NEW o \in Ops, RegisterRequest(o) PROVE AnswersFit'
    <2>1. yes' = yes /\ no' = no
      BY <1>2 DEF RegisterRequest, history
    <2>2. CASE refusing
      BY <1>2, <2>1, <2>2 DEF RegisterRequest, AnswersFit
    <2>3. CASE ~refusing
      <3> DEFINE new == <<o, asked[o] + 1>>
      <3>1. /\ asked' = [asked EXCEPT ![o] = @ + 1]
            /\ pending' = [c \in DOMAIN pending \cup {new} |->
                              IF c \in DOMAIN pending THEN pending[c]
                              ELSE [resolved |-> FALSE, approved |-> FALSE]]
        BY <1>2, <2>3 DEF RegisterRequest
      <3>2. new \notin no
        BY DEF AnswersFit, Ids
      <3>3. \A c \in yes \cup no : c[2] <= asked'[c[1]]
        BY <3>1 DEF AnswersFit, Ids
      <3>4. QED
        BY <2>1, <3>1, <3>2, <3>3 DEF AnswersFit
    <2>4. QED
      BY <2>2, <2>3
  <1>3. ASSUME NEW o \in Ops, Wait(o) \/ CheckCancel(o) PROVE AnswersFit'
    <2>1. /\ UNCHANGED <<yes, no, asked>>
          /\ \A c \in DOMAIN pending' : c \in DOMAIN pending /\ pending'[c] = pending[c]
      BY <1>3, Decisions
    <2>2. QED
      BY <2>1 DEF AnswersFit
  <1>4. ASSUME NEW o \in Ops, NEW n \in 1 .. MaxAsks, NEW b \in BOOLEAN, Resolve(o, n, b)
        PROVE  AnswersFit'
    <2> DEFINE it == <<o, n>>
    <2>1. /\ it \in DOMAIN pending /\ ~pending[it].resolved /\ asked' = asked
          /\ pending' = [pending EXCEPT ![it] = [resolved |-> TRUE, approved |-> b]]
          /\ yes' = IF b THEN yes \cup {it} ELSE yes
          /\ no' = IF b THEN no ELSE no \cup {it}
      BY <1>4 DEF Resolve, ResolvePending, ops
    <2>2. n <= asked[o] /\ it \notin no
      BY <2>1 DEF AnswersFit, OpenFits, Id
    <2>3. \A c \in yes' \cup no' : c[2] <= asked'[c[1]]
      BY <2>1, <2>2 DEF AnswersFit
    <2>4. ASSUME NEW c \in DOMAIN pending
          PROVE  /\ pending'[c].approved => c \in yes'
                 /\ c \in no' => pending'[c].resolved /\ ~pending'[c].approved
      <3>1. CASE c = it
        BY <2>1, <2>2, <3>1
      <3>2. CASE c # it
        BY <2>1, <3>2 DEF AnswersFit
      <3>3. QED
        BY <3>1, <3>2
    <2>5. QED
      BY <2>1, <2>3, <2>4 DEF AnswersFit
  <1>5. CASE ~Refusing /\ ~ \E o \in Ops : Confirming(o)
    BY <1>5, OthersKeepAnswers DEF AnswersFit
  <1>6. QED
    BY <1>1, <1>2, <1>3, <1>4, <1>5 DEF Confirming

LEMMA RunsStep ==
    ASSUME PcTyped, asked \in [Ops -> 0 .. MaxAsks], DOMAIN pending \subseteq Ids,
           OpenFits, RunsFit, [Next]_vars
    PROVE  RunsFit'
  <1> USE Names
  <1>1. ASSUME ran' = ran, asked' = asked,
               \A o \in Ops : pc'[o] \in Asking => pc[o] \in Asking
        PROVE  RunsFit'
    BY <1>1 DEF RunsFit
  <1>2. ASSUME NEW o \in Ops, OpThread(o) PROVE RunsFit'
    <2>1. OpMove(o)
      BY <1>2, OpMoves
    <2>2. CASE RegisterRequest(o)
      <3>1. ran' = ran
        BY <2>2 DEF RegisterRequest, history
      <3>2. CASE refusing
        BY <1>1, <2>2, <3>1, <3>2 DEF RegisterRequest, Goto, PcTyped, Asking
      <3>3. CASE ~refusing
        <4>1. asked' = [asked EXCEPT ![o] = asked[o] + 1] /\ pc' = [pc EXCEPT ![o] = "wait"]
          BY <2>2, <3>3 DEF RegisterRequest, Goto
        <4>2. ASSUME NEW r \in ran, r.gate = "ask"
              PROVE  /\ r.by \in Ops /\ r.id \in 1 .. asked'[r.by]
                     /\ pc'[r.by] \in Asking => r.id < asked'[r.by]
          <5>1. /\ r.by \in Ops /\ r.id \in 1 .. asked[r.by]
                /\ pc[r.by] \in Asking => r.id < asked[r.by]
            BY <4>2 DEF RunsFit
          <5>2. CASE r.by = o
            BY <4>1, <5>1, <5>2
          <5>3. CASE r.by # o
            BY <4>1, <5>1, <5>3 DEF PcTyped
          <5>4. QED
            BY <5>2, <5>3
        <4>3. QED
          BY <3>1, <4>2 DEF RunsFit
      <3>4. QED
        BY <3>2, <3>3
    <2>3. CASE Wait(o) \/ CheckCancel(o)
      <3>1. asked' = asked /\ pc[o] \in Asking
        BY <2>3, Decisions
      <3>2. CASE ran' = ran
        BY <1>1, <2>1, <3>1, <3>2 DEF OpMove, PcTyped
      <3>3. CASE ran' # ran
        <4>1. /\ pc' = [pc EXCEPT ![o] = "brain"]
              /\ ran' = ran \cup {[by |-> o, gate |-> "ask", id |-> asked[o]]}
          BY <2>3, <3>3, Decisions
        <4>2. asked[o] \in 1 .. MaxAsks
          BY <3>1 DEF OpenFits, Ids, Id
        <4>3. QED
          BY <3>1, <4>1, <4>2 DEF RunsFit, PcTyped, Asking
      <3>4. QED
        BY <3>2, <3>3
    <2>4. CASE CallTool(o)
      <3>1. /\ asked' = asked /\ pc' = [pc EXCEPT ![o] = pc'[o]] /\ pc'[o] \notin Asking
            /\ \A r \in ran' : r \in ran \/ r.gate # "ask"
        BY <2>4 DEF CallTool, Goto, PcTyped, Asking
      <3>2. QED
        BY <3>1 DEF RunsFit, PcTyped
    <2>5. CASE Finally(o)
      <3>1. ran' = ran /\ asked' = asked
        BY <2>5 DEF Finally
      <3>2. QED
        BY <1>1, <2>5, <3>1 DEF Finally, Goto, PcTyped, Asking
    <2>6. CASE Begin(o) \/ Enter(o) \/ Chunk(o) \/ Raise(o) \/ Answered(o) \/ Submit(o)
                 \/ Put(o) \/ Conclude(o)
      <3>1. ran' = ran /\ asked' = asked
        BY <2>6 DEF Begin, Enter, Chunk, Raise, Answered, Submit, Put, Conclude, history
      <3>2. pc'[o] \notin Asking
        BY <2>6 DEF Begin, Enter, Chunk, Raise, Answered, Submit, Put, Conclude, EndAnswer, Goto,
                    PcTyped, Asking
      <3>3. QED
        BY <1>1, <2>1, <3>1, <3>2 DEF OpMove, PcTyped
    <2>7. QED
      BY <1>2, <2>2, <2>3, <2>4, <2>5, <2>6 DEF OpThread
  <1>3. ASSUME ~ \E o \in Ops : OpThread(o) PROVE RunsFit'
    <2>1. asked' = asked
      BY <1>3, OthersKeepOpen
    <2>2. \A o \in Ops : pc'[o] \in Asking => pc[o] \in Asking
      <3>1. CASE \E o \in Ops : Stream(o)
        BY <3>1 DEF Stream, PcTyped, Asking
      <3>2. CASE ~ \E o \in Ops : Stream(o)
        BY <1>3, <3>2, OthersKeepPc
      <3>3. QED
        BY <3>1, <3>2
    <2>3. \A r \in ran' : r \in ran \/ r.gate # "ask"
      <3>1. CASE Refusing
        BY <3>1, Refusals
      <3>2. CASE \E o \in Ops : Confirming(o)
        BY <1>3, <3>2 DEF Confirming, OpThread, Resolve
      <3>3. CASE StepTool
        BY <3>3 DEF StepTool
      <3>4. QED
        BY <1>3, <3>1, <3>2, <3>3, OthersKeepAnswers DEF OpThread
    <2>4. QED
      BY <2>1, <2>2, <2>3 DEF RunsFit
  <1>4. QED
    BY <1>2, <1>3

\* What the gate says, and why.
LEMMA GateSays ==
    ASSUME policy \in {"none", "allow", "deny"}
    PROVE  /\ Gate = "allow" => policy = "allow" \/ ~ConfirmHigh
           /\ Gate = "stdin" => ~attached
  BY DEF Gate

\* Nothing opens the coordinator again.
LEMMA KeepsRefusing ==
    ASSUME [Next]_vars, refusing
    PROVE  refusing'
  <1>1. CASE Closing \/ \E w \in BOOLEAN : Close(w)
    BY <1>1 DEF Closing, CloseCancel, CloseRefuse, CloseDetach, CloseLock, CloseBrain,
           CloseShutdown, CloseDrained, CloseJoin, Close, confirms
  <1>2. CASE StepThread \/ Cancelling \/ \E w \in Workers : PoolThread(w)
    BY <1>2 DEF StepThread, StepBegin, StepEnter, StepTool, StepEnd, Cancelling,
           CancelActive, CancelSet, CancelEnd, PoolThread, TakeTask, SummaryLock, TaskDone, confirms
  <1>3. ASSUME NEW o \in Ops, Caller(o) PROVE refusing'
    BY <1>3 DEF Caller, Stream, Abandon, Leave, Resolve, confirms
  <1>4. QED
    BY <1>1, <1>2, <1>3, OpKeeps DEF Next, vars, confirms

LEMMA HighStep ==
    ASSUME asked \in [Ops -> 0 .. MaxAsks], policy \in {"none", "allow", "deny"},
           LocksFit, OpenFits, AnswersFit, RunsFit, GateFits, HighToolsAsked, [Next]_vars
    PROVE  HighToolsAsked'
  <1> USE Names
  <1>1. refusing => refusing'
    BY KeepsRefusing
  <1>2. ASSUME NEW r \in ran, r.gate = "ask" PROVE <<r.by, r.id>> \notin DOMAIN pending
    BY <1>2 DEF RunsFit, OpenFits, Id
  <1>3. ASSUME ran' = ran, yes \subseteq yes', no' \subseteq no \cup DOMAIN pending
        PROVE  HighToolsAsked'
    BY <1>1, <1>2, <1>3 DEF HighToolsAsked
  <1>4. CASE Refusing
    BY <1>3, <1>4, Refusals
  <1>5. ASSUME NEW o \in Ops, NEW n \in 1 .. MaxAsks, NEW b \in BOOLEAN, Resolve(o, n, b)
        PROVE  HighToolsAsked'
    BY <1>3, <1>5 DEF Resolve, ResolvePending
  <1>6. ASSUME NEW o \in Ops, RegisterRequest(o) PROVE HighToolsAsked'
    BY <1>3, <1>6 DEF RegisterRequest, history
  <1>7. ASSUME NEW o \in Ops, Wait(o) \/ CheckCancel(o) PROVE HighToolsAsked'
    <2>1. /\ yes' = yes /\ no' = no
          /\ \A r \in ran' : \/ r \in ran
                             \/ /\ pending[Id(o)].approved
                                /\ r.gate = "ask" /\ r.by = o /\ r.id = asked[o]
      <3>1. /\ yes' = yes /\ no' = no
            /\ \/ ran' = ran
               \/ /\ pending[Id(o)].approved
                  /\ ran' = ran \cup {[by |-> o, gate |-> "ask", id |-> asked[o]]}
        BY <1>7, Decisions
      <3>2. QED
        BY <3>1
    <2>2. pending[Id(o)].approved => Id(o) \in yes \ no
      BY <1>7, Decisions DEF OpenFits, AnswersFit
    <2>3. QED
      BY <1>1, <2>1, <2>2 DEF HighToolsAsked, Id
  <1>8. ASSUME NEW o \in Ops, CallTool(o) PROVE HighToolsAsked'
    <2>1. /\ pc[o] \in InBrain /\ yes' = yes /\ no' = no
          /\ \A r \in ran' : \/ r \in ran
                             \/ r.gate = Gate /\ Gate \in {"allow", "stdin"}
      BY <1>8 DEF CallTool, InBrain
    <2>2. policy # "allow"
      BY <2>1 DEF LocksFit, GateFits
    <2>3. /\ Gate = "allow" => ~ConfirmHigh
          /\ Gate = "stdin" => refusing
      BY <2>2, GateSays DEF GateFits
    <2>4. QED
      BY <1>1, <2>1, <2>3 DEF HighToolsAsked
  <1>9. CASE StepTool
    <2>1. /\ yes' = yes /\ no' = no
          /\ \A r \in ran' : \/ r \in ran
                             \/ /\ r.gate = Gate /\ Gate \in {"allow", "stdin"}
                                /\ r.by = JobWorker
                                /\ allow => r.id = 1
      BY <1>9 DEF StepTool
    <2>2. /\ Gate = "allow" => ~ConfirmHigh \/ allow
          /\ Gate = "stdin" => refusing
      BY GateSays DEF GateFits
    <2>3. QED
      BY <1>1, <2>1, <2>2 DEF HighToolsAsked
  <1>10. QED
    BY <1>3, <1>4, <1>5, <1>6, <1>7, <1>8, <1>9, OthersKeepAnswers DEF Confirming

-----------------------------------------------------------------------------
(* The gate, close, and what close found active. *)

LEMMA GateStep ==
    ASSUME GateFits, [Next]_vars
    PROVE  GateFits'
  <1>1. CASE StepThread
    BY <1>1 DEF StepThread, StepBegin, StepEnter, StepTool, StepEnd, GateFits,
           gate, durable, closers, confirms
  <1>2. CASE Closing \/ \E w \in BOOLEAN : Close(w)
    BY <1>2 DEF Closing, CloseCancel, CloseRefuse, CloseDetach, CloseLock, CloseBrain,
           CloseShutdown, CloseDrained, CloseJoin, Close, GateFits, gate, durable, confirms
  <1>3. CASE UNCHANGED <<policy, attached, step, allow, closer, refusing>>
    BY <1>3 DEF GateFits
  <1>4. ASSUME NEW o \in Ops, OpThread(o) PROVE GateFits'
    BY <1>3, <1>4, OpKeeps DEF gate, durable, closers
  <1>5. QED
    BY <1>1, <1>2, <1>3, <1>4
       DEF Next, vars, Caller, Stream, Abandon, Leave, Resolve, Cancelling, CancelActive, CancelSet,
           CancelEnd, PoolThread, TakeTask, SummaryLock, TaskDone, gate, durable, closers, confirms

\* A request that is cancelled stays so.
LEMMA KeepsCancelled ==
    ASSUME cancelled \in [Ops -> BOOLEAN], NEW o \in Ops, cancelled[o], [Next]_vars
    PROVE  cancelled'[o]
  <1>1. CASE Closing \/ \E w \in BOOLEAN : Close(w)
    BY <1>1 DEF Closing, CloseCancel, CloseRefuse, CloseDetach, CloseLock, CloseBrain,
           CloseShutdown, CloseDrained, CloseJoin, Close, ops
  <1>2. CASE StepThread \/ Cancelling \/ \E w \in Workers : PoolThread(w)
    BY <1>2 DEF StepThread, StepBegin, StepEnter, StepTool, StepEnd, Cancelling,
           CancelActive, CancelSet, CancelEnd, PoolThread, TakeTask, SummaryLock, TaskDone, ops
  <1>3. ASSUME NEW p \in Ops, Caller(p) PROVE cancelled'[o]
    BY <1>3 DEF Caller, Stream, Abandon, Leave, Resolve, ops
  <1>4. QED
    BY <1>1, <1>2, <1>3, OpKeeps DEF Next, vars, ops

LEMMA ClosingStep ==
    ASSUME cancelled \in [Ops -> BOOLEAN], closing \in Ops \cup {None}, ClosingFits, [Next]_vars
    PROVE  ClosingFits'
  <1> USE Names
  <1>1. CASE Closing
    <2>1. CASE CloseCancel
      BY <2>1 DEF CloseCancel, ClosingFits, svc
    <2>2. CASE ~CloseCancel
      <3>1. /\ UNCHANGED <<closed, active, cancelled, closing>>
            /\ closer \notin {"idle", "cancel"} /\ closer' \notin {"idle", "cancel"}
        BY <1>1, <2>2 DEF Closing, CloseRefuse, CloseDetach, CloseLock, CloseBrain,
               CloseShutdown, CloseDrained, CloseJoin, svc, ops
      <3>2. QED
        BY <3>1 DEF ClosingFits
    <2>3. QED
      BY <2>1, <2>2
  <1>2. ASSUME NEW w \in BOOLEAN, Close(w) PROVE ClosingFits'
    BY <1>2 DEF Close, ClosingFits
  <1>3. ASSUME UNCHANGED <<closed, closer, closing>>,
               active' = active \/ active' = None \/ ~closed
        PROVE  ClosingFits'
    BY <1>3, KeepsCancelled DEF ClosingFits
  <1>4. ASSUME NEW o \in Ops, OpThread(o) PROVE ClosingFits'
    <2>1. UNCHANGED <<closed, closer, closing>> /\ (active' = active \/ active' = None)
      BY <1>4, OpKeeps DEF closers, Finally
    <2>2. QED
      BY <1>3, <2>1
  <1>5. ASSUME NEW o \in Ops, Caller(o) PROVE ClosingFits'
    <2>1. UNCHANGED <<closed, closer, closing>> /\ (active' = active \/ ~closed)
      BY <1>5 DEF Caller, Stream, Accepts, Abandon, Leave, Resolve, closers, svc
    <2>2. QED
      BY <1>3, <2>1
  <1>6. CASE StepThread \/ Cancelling \/ \E w \in Workers : PoolThread(w)
    <2>1. UNCHANGED <<closed, active, closer, closing>>
      BY <1>6 DEF StepThread, StepBegin, StepEnter, StepTool, StepEnd, Cancelling, CancelActive,
             CancelSet, CancelEnd, PoolThread, TakeTask, SummaryLock, TaskDone, closers, svc
    <2>2. QED
      BY <1>3, <2>1
  <1>7. QED
    BY <1>1, <1>2, <1>3, <1>4, <1>5, <1>6 DEF Next, vars, svc, closers

-----------------------------------------------------------------------------
(* The event queue of a request. *)

LEMMA AppendToNone == \A x : Append(<<>>, x) = <<x>>
  OBVIOUS

LEMMA AppendToOne ==
    ASSUME NEW x, NEW y
    PROVE  Append(<<x>>, y) = <<x, y>>
  <1> DEFINE S == {x, y}
             s == Append(<<x>>, y)
             t == <<x, y>>
  <1>1. s \in Seq(S) /\ t \in Seq(S)
    OBVIOUS
  <1>2. Len(s) = 2 /\ Len(t) = 2
    OBVIOUS
  <1>3. s[1] = t[1] /\ s[2] = t[2]
    OBVIOUS
  <1>4. \A i \in 1 .. Len(s) : s[i] = t[i]
    BY <1>2, <1>3
  <1> HIDE DEF S, s, t
  <1>5. s = t
    BY <1>1, <1>2, <1>4, SeqEqual
  <1>6. QED
    BY <1>5 DEF s, t

LEMMA AppendToTwo ==
    ASSUME NEW x, NEW y, NEW z
    PROVE  Append(<<x, y>>, z) = <<x, y, z>>
  <1> DEFINE S == {x, y, z}
             s == Append(<<x, y>>, z)
             t == <<x, y, z>>
  <1>1. s \in Seq(S) /\ t \in Seq(S)
    OBVIOUS
  <1>2. Len(s) = 3 /\ Len(t) = 3
    OBVIOUS
  <1>3. s[1] = t[1] /\ s[2] = t[2] /\ s[3] = t[3]
    OBVIOUS
  <1>4. \A i \in 1 .. Len(s) : s[i] = t[i]
    BY <1>2, <1>3
  <1> HIDE DEF S, s, t
  <1>5. s = t
    BY <1>1, <1>2, <1>4, SeqEqual
  <1>6. QED
    BY <1>5 DEF s, t

LEMMA OutcomeTyped == \A o \in Ops : Outcome(o) \in Outcomes
  BY DEF Outcome, Outcomes

\* One event is put into the queue, or none, and it is the one that is due.
LEMMA OpEmits ==
    ASSUME PcTyped, events \in [Ops -> Seq({"status", "end"} \cup Outcomes)],
           EventsFit, NEW o \in Ops, OpThread(o)
    PROVE  /\ events' = [events EXCEPT ![o] = events'[o]]
           /\ events'[o] \in EventsAt(pc'[o])
  <1> DEFINE due == events[o] \in EventsAt(pc[o])
  <1> USE DEF PcTyped, Running, InBrain, Asking, Goto, Emit, EventsAt
  <1>1. due
    BY DEF EventsFit
  <1>2. CASE Begin(o)
    <2>1. /\ pc[o] = "made" /\ pc'[o] = "lock"
          /\ events' = [events EXCEPT ![o] = Append(events[o], "status")]
      BY <1>2 DEF Begin
    <2>2. events[o] = <<>>
      BY <1>1, <2>1
    <2>3. Append(<<>>, "status") = <<"status">>
      BY AppendToNone
    <2>4. QED
      BY <2>1, <2>2, <2>3
  <1>3. ASSUME pc[o] \in InBrain \cup {"after", "failed"}, NEW x \in Outcomes, Emit(o, x),
               Goto(o, "finally")
        PROVE  events' = [events EXCEPT ![o] = events'[o]] /\ events'[o] \in EventsAt(pc'[o])
    <2>1. pc'[o] = "finally" /\ events' = [events EXCEPT ![o] = Append(events[o], x)]
      BY <1>3
    <2>2. events[o] = <<"status">> /\ Append(<<"status">>, x) = <<"status", x>>
      BY <1>1, <1>3, AppendToOne
    <2>3. QED
      BY <2>1, <2>2
  <1>4. ASSUME events' = events, pc[o] \in Running \ {"made", "finally"},
               pc'[o] \in Running \ {"made", "finally"}
        PROVE  events' = [events EXCEPT ![o] = events'[o]] /\ events'[o] \in EventsAt(pc'[o])
    BY <1>1, <1>4
  <1>5. CASE Finally(o)
    <2>1. /\ pc[o] = "finally" /\ pc'[o] = "done"
          /\ events' = [events EXCEPT ![o] = Append(events[o], "end")]
      BY <1>5 DEF Finally
    <2>2. PICK x \in Outcomes : events[o] = <<"status", x>>
      BY <1>1, <2>1
    <2>3. events'[o] = <<"status", x, "end">>
      BY <2>1, <2>2, AppendToTwo
    <2>4. QED
      BY <2>1, <2>3
  <1>6. CASE Chunk(o)
    BY <1>3, <1>4, <1>6 DEF Chunk, Outcomes
  <1>7. CASE Raise(o)
    BY <1>3, <1>7 DEF Raise, Outcomes
  <1>8. CASE Put(o)
    BY <1>3, <1>4, <1>8 DEF Put, EndAnswer, Outcomes
  <1>9. CASE Conclude(o)
    BY <1>3, <1>9, OutcomeTyped DEF Conclude
  <1>10. CASE Enter(o) \/ Answered(o) \/ Submit(o)
    BY <1>4, <1>10 DEF Enter, Answered, Submit, EndAnswer
  <1>11. CASE CallTool(o) \/ RegisterRequest(o) \/ Wait(o) \/ CheckCancel(o)
    BY <1>4, <1>11 DEF CallTool, RegisterRequest, Wait, CheckCancel, Decided
  <1>12. QED
    BY <1>2, <1>5, <1>6, <1>7, <1>8, <1>9, <1>10, <1>11 DEF OpThread

LEMMA OthersKeepEvents ==
    ASSUME [Next]_vars, ~ \E o \in Ops : OpThread(o)
    PROVE  events' = events
  BY DEF Next, vars, ops, Caller, Stream, Abandon, Leave, Resolve, PoolThread, TakeTask,
         SummaryLock, TaskDone, StepThread, StepBegin, StepEnter, StepTool, StepEnd, Cancelling,
         CancelActive, CancelSet, CancelEnd, Closing, CloseCancel, CloseRefuse, CloseDetach,
         CloseLock, CloseBrain, CloseShutdown, CloseDrained, CloseJoin, Close

LEMMA EventsStep ==
    ASSUME PcTyped, events \in [Ops -> Seq({"status", "end"} \cup Outcomes)],
           EventsFit, [Next]_vars
    PROVE  EventsFit'
  <1>1. ASSUME NEW o \in Ops, OpThread(o) PROVE EventsFit'
    <2>1. /\ pc' = [pc EXCEPT ![o] = pc'[o]] /\ events' = [events EXCEPT ![o] = events'[o]]
          /\ events'[o] \in EventsAt(pc'[o])
      BY <1>1, OpMoves, OpEmits DEF OpMove
    <2>2. QED
      BY <2>1 DEF EventsFit, PcTyped
  <1>2. ASSUME NEW o \in Ops, Stream(o) PROVE EventsFit'
    <2>1. /\ pc[o] = "idle" /\ events' = events
          /\ pc' \in {[pc EXCEPT ![o] = "made"], [pc EXCEPT ![o] = "refused"]}
      BY <1>2 DEF Stream
    <2>2. QED
      BY <2>1 DEF EventsFit, EventsAt, PcTyped
  <1>3. CASE ~ \E o \in Ops : OpThread(o) \/ Stream(o)
    BY <1>3, OthersKeepPc, OthersKeepEvents DEF EventsFit
  <1>4. QED
    BY <1>1, <1>2, <1>3

-----------------------------------------------------------------------------
(* The tasks of the pool. *)

Busy == {w \in Workers : worker[w] # "idle"}
Putting == {o \in Ops : pc[o] \in {"put", "put summary"}}

PoolTyped ==
    /\ capacity \in 0 .. PoolSize /\ queue \in Seq({"memory", "summary"})
    /\ worker \in [Workers -> {"idle", "lock", "memory", "summary"}]

\* Only the holder of the lock is submitting a task.
LEMMA PuttingFits ==
    ASSUME LocksFit
    PROVE  \A o \in Ops : o \in Putting => Putting = {o}
  BY DEF Putting, LocksFit, InBrain

LEMMA BusyFinite == PoolSize \in Nat /\ IsFiniteSet(Workers) /\ IsFiniteSet(Busy)
  <1>1. IsFiniteSet(Workers) /\ Cardinality(Workers) \in Nat /\ Pending \in Nat
    BY ServiceAssumption, FS_CardinalityType DEF ServiceAssumption
  <1>2. IsFiniteSet(Busy)
    BY <1>1, FS_Subset DEF Busy
  <1>3. QED
    BY <1>1, <1>2 DEF PoolSize

\* A step that leaves the pool and who is submitting a task to it.
LEMMA SamePool ==
    ASSUME CapacityBalanced, pool' = pool, Putting' = Putting
    PROVE  CapacityBalanced'
  BY DEF CapacityBalanced, Count, Putting, pool

\* One thread of the pool begins, or ends, a task.
LEMMA BusyMore ==
    ASSUME worker \in [Workers -> {"idle", "lock", "memory", "summary"}],
           NEW w \in Workers, NEW at, worker' = [worker EXCEPT ![w] = at]
    PROVE  /\ Cardinality(Busy) \in Nat
           /\ worker[w] = "idle" /\ at # "idle"
                => Cardinality(Busy') = Cardinality(Busy) + 1
           /\ worker[w] # "idle" /\ at = "idle"
                => Cardinality(Busy') = Cardinality(Busy) - 1
           /\ worker[w] # "idle" /\ at # "idle" => Busy' = Busy
  <1>1. IsFiniteSet(Busy) /\ Cardinality(Busy) \in Nat
    BY BusyFinite, FS_CardinalityType
  <1>2. CASE worker[w] = "idle" /\ at # "idle"
    <2>1. Busy' = Busy \cup {w} /\ w \notin Busy
      BY <1>2 DEF Busy
    <2>2. QED
      BY <1>1, <1>2, <2>1, FS_AddElement
  <1>3. CASE worker[w] # "idle" /\ at = "idle"
    <2>1. Busy' = Busy \ {w} /\ w \in Busy
      BY <1>3 DEF Busy
    <2>2. QED
      BY <1>1, <1>3, <2>1, FS_RemoveElement
  <1>4. CASE worker[w] # "idle" /\ at # "idle"
    BY <1>1, <1>4 DEF Busy
  <1>5. QED
    BY <1>1, <1>2, <1>3, <1>4

LEMMA CapacityStep ==
    ASSUME PcTyped, PoolTyped, LocksFit, LocksFit', CapacityBalanced, [Next]_vars
    PROVE  CapacityBalanced'
  <1>1. /\ Cardinality(Busy) \in Nat /\ Len(queue) \in Nat /\ capacity \in Nat /\ PoolSize \in Nat
        /\ Cardinality(Putting) \in Nat
        /\ capacity + Len(queue) + Cardinality(Busy) + Cardinality(Putting) = PoolSize
    <2>1. Cardinality(Busy) \in Nat /\ PoolSize \in Nat
      BY BusyFinite, FS_CardinalityType
    <2>2. Cardinality(Putting) \in Nat
      <3>1. CASE Putting = {}
        BY <3>1, FS_EmptySet
      <3>2. CASE Putting # {}
        <4>1. PICK o \in Ops : Putting = {o}
          BY <3>2, PuttingFits DEF Putting
        <4>2. QED
          BY <4>1, FS_Singleton
      <3>3. QED
        BY <3>1, <3>2
    <2>3. Len(queue) \in Nat /\ capacity \in Nat
      BY <2>1 DEF PoolTyped
    <2>4. QED
      BY <2>1, <2>2, <2>3 DEF CapacityBalanced, Count, Busy, Putting
  <1>2. SUFFICES capacity' + Len(queue') + Cardinality(Busy') + Cardinality(Putting') = PoolSize
    BY DEF CapacityBalanced, Count, Busy, Putting
  <1>3. ASSUME NEW o \in Ops, Submit(o)
        PROVE  capacity' + Len(queue') + Cardinality(Busy') + Cardinality(Putting') = PoolSize
    <2>1. queue' = queue /\ Busy' = Busy
      BY <1>3 DEF Submit, Busy
    <2>2. CASE brain = "open" /\ capacity > 0
      <3>1. /\ capacity' = capacity - 1 /\ pc[o] \in {"switch", "submit"}
            /\ pc' \in {[pc EXCEPT ![o] = "put"], [pc EXCEPT ![o] = "put summary"]}
        BY <1>3, <2>2 DEF Submit, Goto
      <3>2. lock = o /\ Putting = {}
        BY <3>1 DEF LocksFit, InBrain, Putting
      <3>3. Putting' = {o}
        BY <3>1, <3>2 DEF Putting, PcTyped
      <3>4. Cardinality(Putting) = 0 /\ Cardinality(Putting') = 1
        BY <3>2, <3>3, FS_EmptySet, FS_Singleton
      <3>5. capacity' = capacity - 1 /\ queue' = queue /\ Cardinality(Busy') = Cardinality(Busy)
        BY <2>1, <3>1
      <3>6. QED
        BY <1>1, <3>4, <3>5
    <2>3. CASE ~(brain = "open" /\ capacity > 0)
      <3>1. /\ capacity' = capacity /\ pc[o] \in {"switch", "submit"}
            /\ pc' \in {[pc EXCEPT ![o] = "reply"], [pc EXCEPT ![o] = "after"],
                        [pc EXCEPT ![o] = "failed"]}
        BY <1>3, <2>3 DEF Submit, EndAnswer, Goto
      <3>2. Putting' = Putting
        BY <3>1 DEF Putting, PcTyped
      <3>3. QED
        BY <1>1, <2>1, <3>1, <3>2
    <2>4. QED
      BY <2>2, <2>3
  <1>4. ASSUME NEW o \in Ops, Put(o)
        PROVE  capacity' + Len(queue') + Cardinality(Busy') + Cardinality(Putting') = PoolSize
    <2>1. /\ Busy' = Busy /\ pc[o] \in {"put", "put summary"}
          /\ pc' \in {[pc EXCEPT ![o] = "reply"], [pc EXCEPT ![o] = "after"],
                      [pc EXCEPT ![o] = "failed"], [pc EXCEPT ![o] = "finally"]}
      BY <1>4 DEF Put, EndAnswer, Goto, Busy
    <2>2. Putting = {o}
      BY <2>1, PuttingFits DEF Putting
    <2>3. Putting' = {}
      BY <2>1, <2>2 DEF Putting, PcTyped
    <2>4. /\ Cardinality(Putting) = 1 /\ Cardinality(Putting') = 0
          /\ Cardinality(Busy') = Cardinality(Busy)
      BY <2>1, <2>2, <2>3, FS_EmptySet, FS_Singleton
    <2>5. CASE brain = "shut"
      <3>1. capacity' = capacity + 1 /\ queue' = queue
        BY <1>4, <2>5 DEF Put
      <3>2. QED
        BY <1>1, <2>4, <3>1
    <2>6. CASE brain # "shut"
      <3>1. capacity' = capacity /\ \E t \in {"memory", "summary"} : queue' = Append(queue, t)
        BY <1>4, <2>6 DEF Put
      <3>2. Len(queue') = Len(queue) + 1
        BY <3>1, AppendProperties DEF PoolTyped
      <3>3. QED
        BY <1>1, <2>4, <3>1, <3>2
    <2>7. QED
      BY <2>5, <2>6
  <1>5. ASSUME NEW w \in Workers, PoolThread(w)
        PROVE  capacity' + Len(queue') + Cardinality(Busy') + Cardinality(Putting') = PoolSize
    <2>1. Putting' = Putting
      BY <1>5 DEF PoolThread, TakeTask, SummaryLock, TaskDone, Putting, ops
    <2>2. CASE TakeTask(w)
      <3>1. /\ queue # <<>> /\ queue' = Tail(queue) /\ capacity' = capacity
            /\ worker[w] = "idle"
            /\ worker' = [worker EXCEPT ![w] = IF Head(queue) = "summary" THEN "lock" ELSE "memory"]
        BY <2>2 DEF TakeTask
      <3>2. Len(queue') = Len(queue) - 1
        BY <3>1, HeadTailProperties DEF PoolTyped
      <3>3. PICK at \in {"lock", "memory"} : worker' = [worker EXCEPT ![w] = at]
        BY <3>1
      <3>4. Cardinality(Busy') = Cardinality(Busy) + 1
        BY <3>1, <3>3, BusyMore DEF PoolTyped
      <3>5. QED
        BY <1>1, <2>1, <3>1, <3>2, <3>4
    <2>3. CASE SummaryLock(w)
      <3>1. queue' = queue /\ capacity' = capacity /\ worker[w] = "lock"
            /\ worker' = [worker EXCEPT ![w] = "summary"]
        BY <2>3 DEF SummaryLock
      <3>2. Busy' = Busy
        BY <3>1, BusyMore DEF PoolTyped
      <3>3. QED
        BY <1>1, <2>1, <3>1, <3>2
    <2>4. CASE TaskDone(w)
      <3>1. /\ queue' = queue /\ capacity' = capacity + 1 /\ worker[w] \in {"memory", "summary"}
            /\ worker' = [worker EXCEPT ![w] = "idle"]
        BY <2>4 DEF TaskDone
      <3>2. Cardinality(Busy') = Cardinality(Busy) - 1
        BY <3>1, BusyMore DEF PoolTyped
      <3>3. QED
        BY <1>1, <2>1, <3>1, <3>2
    <2>5. QED
      BY <1>5, <2>2, <2>3, <2>4 DEF PoolThread
  <1>6. CASE CloseShutdown
    <2>1. Putting' = Putting /\ Busy' = Busy
      BY <1>6 DEF CloseShutdown, Putting, Busy, ops
    <2>2. \/ queue' = queue /\ capacity' = capacity
          \/ queue' = <<>> /\ capacity' = capacity + Len(queue)
      BY <1>6 DEF CloseShutdown
    <2>3. Len(<<>>) = 0
      OBVIOUS
    <2>4. QED
      BY <1>1, <2>1, <2>2, <2>3
  <1>7. ASSUME pool' = pool, Putting' = Putting
        PROVE  capacity' + Len(queue') + Cardinality(Busy') + Cardinality(Putting') = PoolSize
    BY <1>1, <1>7 DEF pool, Busy
  <1>8. ASSUME NEW o \in Ops, OpThread(o), ~Submit(o), ~Put(o)
        PROVE  capacity' + Len(queue') + Cardinality(Busy') + Cardinality(Putting') = PoolSize
    <2>1. pool' = pool
      BY <1>8 DEF OpThread, Begin, Enter, Chunk, Raise, Answered, Conclude, Finally, CallTool,
             RegisterRequest, Wait, CheckCancel, pool
    <2>2. pc[o] \notin {"put", "put summary"} /\ pc'[o] \notin {"put", "put summary"}
      BY <1>8 DEF OpThread, Begin, Enter, Chunk, Raise, Answered, Conclude, Finally, CallTool,
             RegisterRequest, Wait, CheckCancel, Decided, EndAnswer, Goto, PcTyped
    <2>3. pc' = [pc EXCEPT ![o] = pc'[o]]
      BY <1>8, OpMoves DEF OpMove
    <2>4. Putting' = Putting
      BY <2>2, <2>3 DEF Putting, PcTyped
    <2>5. QED
      BY <1>7, <2>1, <2>4
  <1>9. ASSUME NEW o \in Ops, Caller(o)
        PROVE  capacity' + Len(queue') + Cardinality(Busy') + Cardinality(Putting') = PoolSize
    BY <1>7, <1>9 DEF Caller, Stream, Abandon, Leave, Resolve, Putting, PcTyped, ops
  <1>10. CASE \/ StepThread \/ Cancelling \/ (Closing /\ ~CloseShutdown)
              \/ \E w \in BOOLEAN : Close(w)
    BY <1>7, <1>10 DEF StepThread, StepBegin, StepEnter, StepTool, StepEnd, Cancelling, CancelActive,
           CancelSet, CancelEnd, Closing, CloseCancel, CloseRefuse, CloseDetach, CloseLock,
           CloseBrain, CloseDrained, CloseJoin, Close, Putting, ops
  <1>11. CASE UNCHANGED vars
    BY <1>7, <1>11 DEF vars, Putting, ops
  <1>12. QED
    BY <1>3, <1>4, <1>5, <1>6, <1>8, <1>9, <1>10, <1>11 DEF Next

-----------------------------------------------------------------------------
(* After close. *)

Over == wait /\ closer \in {"join", "done", "raised"}

LEMMA QuietStep ==
    ASSUME PcTyped, cancelled \in [Ops -> BOOLEAN], LocksFit, ActiveFits, ClosingFits,
           QuietAfterClose, [Next]_vars
    PROVE  QuietAfterClose'
  <1> USE Names
  <1>1. CASE CloseDrained
    <2>1. UNCHANGED <<pc, step, queue, worker>> /\ wait' = wait /\ (wait => PoolEmpty)
      BY <1>1 DEF CloseDrained, ops, durable, pool
    <2>2. wait => lock = Closer
      BY <1>1 DEF CloseDrained, LocksFit
    <2>3. wait => step # "run" /\ \A o \in Ops : pc[o] \notin InBrain
      BY <2>2 DEF LocksFit
    <2>4. QED
      BY <2>1, <2>3 DEF QuietAfterClose, PoolEmpty
  <1>2. ASSUME ~Over' PROVE QuietAfterClose'
    BY <1>2 DEF Over, QuietAfterClose
  <1>3. CASE ~CloseDrained /\ ~Over
    <2>1. CASE Closing \/ \E w \in BOOLEAN : Close(w)
      <3>1. ~Over'
        BY <1>3, <2>1 DEF Over, Closing, CloseCancel, CloseRefuse, CloseDetach, CloseLock,
               CloseBrain, CloseShutdown, CloseJoin, Close
      <3>2. QED
        BY <1>2, <3>1
    <2>2. CASE ~(Closing \/ \E w \in BOOLEAN : Close(w))
      <3>1. closers' = closers
        BY <2>2, OpKeeps DEF Next, vars, Caller, Stream, Abandon, Leave, Resolve, PoolThread,
               TakeTask, SummaryLock, TaskDone, StepThread, StepBegin, StepEnter, StepTool,
               StepEnd, Cancelling, CancelActive, CancelSet, CancelEnd
      <3>2. ~Over'
        BY <1>3, <3>1 DEF Over, closers
      <3>3. QED
        BY <1>2, <3>2
    <2>3. QED
      BY <2>1, <2>2
  <1>4. CASE Over
    <2>1. /\ closed /\ step # "run" /\ queue = <<>>
          /\ \A w \in Workers : worker[w] = "idle"
          /\ \A o \in Ops : pc[o] \notin InBrain
      BY <1>4 DEF Over, QuietAfterClose, PoolEmpty, ClosingFits
    <2>2. ASSUME step' # "run", pool' = pool, \A o \in Ops : pc'[o] \notin InBrain
          PROVE  QuietAfterClose'
      BY <2>1, <2>2 DEF QuietAfterClose, PoolEmpty, pool
    <2>3. ASSUME NEW o \in Ops, OpThread(o) PROVE QuietAfterClose'
      <3>1. pc[o] \notin InBrain /\ active = o /\ closer \notin {"idle", "cancel"}
        BY <1>4, <2>1, <2>3, OpMoves DEF OpMove, ActiveFits, Over
      <3>2. cancelled[o]
        BY <2>1, <3>1 DEF ClosingFits
      <3>3. pc'[o] \notin InBrain /\ pool' = pool /\ step' = step
        BY <2>3, <3>1, <3>2 DEF OpThread, Begin, Enter, Chunk, Raise, Answered, Submit, Put,
               Conclude, Finally, CallTool, RegisterRequest, Wait, CheckCancel, Goto, PcTyped,
               InBrain, Asking, pool, durable
      <3>4. pc' = [pc EXCEPT ![o] = pc'[o]]
        BY <2>3, OpMoves DEF OpMove
      <3>5. QED
        BY <2>1, <2>2, <3>3, <3>4 DEF PcTyped
    <2>4. ASSUME NEW o \in Ops, Caller(o) PROVE QuietAfterClose'
      <3>1. /\ step' = step /\ pool' = pool
            /\ pc' \in {pc, [pc EXCEPT ![o] = "made"], [pc EXCEPT ![o] = "refused"]}
        BY <2>4 DEF Caller, Stream, Abandon, Leave, Resolve, ops, durable
      <3>2. QED
        BY <2>1, <2>2, <3>1 DEF PcTyped, InBrain, Asking
    <2>5. ASSUME NEW w \in Workers, PoolThread(w) PROVE FALSE
      BY <2>1, <2>5 DEF PoolThread, TakeTask, SummaryLock, TaskDone
    <2>6. CASE StepThread
      BY <2>1, <2>2, <2>6 DEF StepThread, StepBegin, StepEnter, StepTool, StepEnd, ops
    <2>7. CASE Closing
      BY <1>4, <2>1, <2>2, <2>7 DEF Over, Closing, CloseCancel, CloseRefuse, CloseDetach, CloseLock,
             CloseBrain, CloseShutdown, CloseDrained, CloseJoin, ops, durable
    <2>8. ASSUME NEW w \in BOOLEAN, Close(w) PROVE FALSE
      BY <1>4, <2>8 DEF Over, Close
    <2>9. CASE Cancelling
      BY <2>1, <2>2, <2>9 DEF Cancelling, CancelActive, CancelSet, CancelEnd, ops, durable
    <2>10. QED
      BY <2>1, <2>2, <2>3, <2>4, <2>5, <2>6, <2>7, <2>8, <2>9 DEF Next, vars, ops, durable
  <1>5. QED
    BY <1>1, <1>3, <1>4

-----------------------------------------------------------------------------
(* Types, one part of TypeOK at a time. *)

ControlTyped ==
    /\ closed \in BOOLEAN /\ active \in Ops \cup {None}
    /\ refusing \in BOOLEAN /\ attached \in BOOLEAN
    /\ policy \in {"none", "allow", "deny"}
    /\ lock \in Ops \cup Workers \cup {None, Closer, JobWorker}
    /\ brain \in {"open", "closed", "shut"}
    /\ closer \in {"idle", "cancel", "refuse", "detach", "lock", "brain",
                   "pool", "drain", "join", "done", "raised"}
    /\ wait \in BOOLEAN /\ closing \in Ops \cup {None}
    /\ step \in {"idle", "lock", "run"} /\ allow \in BOOLEAN
    /\ canceller \in [at : {"idle", "found", "set"}, op : Ops \cup {None}]
    /\ calls \in 0 .. MaxCalls

FlagsTyped ==
    /\ cancelled \in [Ops -> BOOLEAN]
    /\ reader \in [Ops -> {"reading", "leaving", "left"}]

EventsTyped == events \in [Ops -> Seq({"status", "end"} \cup Outcomes)]

AskedTyped ==
    /\ asked \in [Ops -> 0 .. MaxAsks] /\ DOMAIN pending \subseteq Ids
    /\ \A c \in DOMAIN pending :
          pending[c] \in [resolved : BOOLEAN, approved : BOOLEAN]

HistoryTyped ==
    /\ yes \subseteq Ids /\ no \subseteq Ids
    /\ ran \subseteq [by : Ops \cup {JobWorker}, gate : {"allow", "ask", "stdin"},
                      id : 0 .. MaxAsks + 1]

LEMMA TypeParts ==
    TypeOK <=> /\ ControlTyped /\ PcTyped /\ FlagsTyped /\ EventsTyped
               /\ AskedTyped /\ PoolTyped /\ HistoryTyped
  BY DEF TypeOK, ControlTyped, PcTyped, FlagsTyped, EventsTyped, AskedTyped, PoolTyped,
         HistoryTyped

LEMMA ControlStep ==
    ASSUME ControlTyped, [Next]_vars
    PROVE  ControlTyped'
  <1> USE Names
  <1>1. ASSUME NEW o \in Ops, OpThread(o) PROVE ControlTyped'
    <2>1. UNCHANGED <<closed, refusing, attached, policy, brain, closer, wait, closing, step, allow,
                      canceller, calls>>
      BY <1>1, OpKeeps DEF gate, closers, durable
    <2>2. active' \in {active, None}
      BY <1>1, OpKeeps DEF Finally
    <2>3. lock' \in {lock, None, o}
      BY <1>1 DEF OpThread, Begin, Enter, Chunk, Raise, Answered, Submit, Put, Conclude, Finally,
             CallTool, RegisterRequest, Wait, CheckCancel, EndAnswer
    <2>4. QED
      BY <2>1, <2>2, <2>3 DEF ControlTyped
  <1>2. ASSUME NEW o \in Ops, Caller(o) PROVE ControlTyped'
    <2>1. /\ UNCHANGED <<closed, refusing, attached, policy, lock, brain, closer, wait, closing,
                         step, allow, canceller>>
          /\ active' \in {active, o}
          /\ calls' = calls \/ Called
      BY <1>2 DEF Caller, Stream, Abandon, Leave, Resolve, svc, confirms, gate, closers, durable
    <2>2. QED
      BY <2>1 DEF Called, ControlTyped
  <1>3. CASE StepThread
    <2>1. UNCHANGED <<closed, active, refusing, attached, brain, closer, wait, closing, canceller>>
      BY <1>3 DEF StepThread, StepBegin, StepEnter, StepTool, StepEnd, svc, confirms, gate, closers
    <2>2. /\ policy' \in {policy, "none", "allow", "deny"} /\ lock' \in {lock, None, JobWorker}
          /\ step' \in {step, "idle", "lock", "run"} /\ allow' \in {allow} \cup BOOLEAN
          /\ calls' = calls \/ Called
      BY <1>3 DEF StepThread, StepBegin, StepEnter, StepTool, StepEnd, gate, durable
    <2>3. QED
      BY <2>1, <2>2 DEF Called, ControlTyped
  <1>4. CASE Cancelling
    BY <1>4 DEF Cancelling, CancelActive, CancelSet, CancelEnd, Called, ControlTyped, svc,
           confirms, gate, closers, durable
  <1>5. CASE Closing
    <2>1. UNCHANGED <<closed, active, wait, closing, step, allow, canceller, calls>>
      BY <1>5 DEF Closing, CloseCancel, CloseRefuse, CloseDetach, CloseLock, CloseBrain,
             CloseShutdown, CloseDrained, CloseJoin, svc, durable
    <2>2. /\ closer' \in {"refuse", "detach", "lock", "brain", "pool", "drain", "join", "done",
                          "raised"}
          /\ brain' \in {brain, "closed", "shut"} /\ lock' \in {lock, None, Closer}
          /\ policy' \in {policy, "none"}
      BY <1>5 DEF Closing, CloseCancel, CloseRefuse, CloseDetach, CloseLock, CloseBrain,
             CloseShutdown, CloseDrained, CloseJoin, confirms, gate
    <2>3. /\ refusing' = refusing \/ refusing' = TRUE
          /\ attached' = attached \/ attached' = FALSE
      BY <1>5 DEF Closing, CloseCancel, CloseRefuse, CloseDetach, CloseLock, CloseBrain,
             CloseShutdown, CloseDrained, CloseJoin, confirms, gate
    <2>4. refusing' \in BOOLEAN /\ attached' \in BOOLEAN
      BY <2>3 DEF ControlTyped
    <2>5. QED
      BY <2>1, <2>2, <2>4 DEF ControlTyped
  <1>6. ASSUME NEW w \in BOOLEAN, Close(w) PROVE ControlTyped'
    BY <1>6 DEF Close, Called, ControlTyped, confirms, gate, durable
  <1>7. ASSUME NEW w \in Workers, PoolThread(w) PROVE ControlTyped'
    BY <1>7 DEF PoolThread, TakeTask, SummaryLock, TaskDone, ControlTyped, svc, confirms, gate,
           closers, durable
  <1>8. CASE UNCHANGED vars
    BY <1>8 DEF vars, ControlTyped, svc, confirms, gate, closers, durable
  <1>9. QED
    BY <1>1, <1>2, <1>3, <1>4, <1>5, <1>6, <1>7, <1>8 DEF Next

LEMMA PcStep ==
    ASSUME PcTyped, [Next]_vars
    PROVE  PcTyped'
  <1>1. ASSUME NEW o \in Ops, OpThread(o) PROVE PcTyped'
    BY <1>1, OpMoves DEF OpMove, PcTyped
  <1>2. ASSUME NEW o \in Ops, Stream(o) PROVE PcTyped'
    BY <1>2 DEF Stream, PcTyped, Running
  <1>3. QED
    BY <1>1, <1>2, OthersKeepPc DEF PcTyped

LEMMA FlagsStep ==
    ASSUME FlagsTyped, ControlTyped, [Next]_vars
    PROVE  FlagsTyped'
  <1> USE DEF FlagsTyped
  <1>1. ASSUME NEW o \in Ops, OpThread(o) PROVE FlagsTyped'
    BY <1>1, OpKeeps
  <1>2. ASSUME NEW o \in Ops, Caller(o) PROVE FlagsTyped'
    BY <1>2 DEF Caller, Stream, Abandon, Leave, Resolve, ops
  <1>3. CASE Closing \/ \E w \in BOOLEAN : Close(w)
    BY <1>3, Names DEF Closing, CloseCancel, CloseRefuse, CloseDetach, CloseLock, CloseBrain,
           CloseShutdown, CloseDrained, CloseJoin, Close, ops
  <1>4. CASE CancelSet
    BY <1>4 DEF CancelSet
  <1>5. QED
    BY <1>1, <1>2, <1>3, <1>4
       DEF Next, vars, PoolThread, TakeTask, SummaryLock, TaskDone, StepThread, StepBegin,
           StepEnter, StepTool, StepEnd, Cancelling, CancelActive, CancelEnd, ops

LEMMA EventsTypedStep ==
    ASSUME PcTyped, EventsTyped, EventsFit, [Next]_vars
    PROVE  EventsTyped'
  <1>1. ASSUME NEW o \in Ops, OpThread(o) PROVE EventsTyped'
    <2>1. /\ events' = [events EXCEPT ![o] = events'[o]]
          /\ events'[o] \in EventsAt(pc'[o])
      BY <1>1, OpEmits DEF EventsTyped
    <2>2. ASSUME NEW at PROVE EventsAt(at) \subseteq Seq({"status", "end"} \cup Outcomes)
      <3>1. ASSUME NEW x \in Outcomes
            PROVE  /\ <<"status", x>> \in Seq({"status", "end"} \cup Outcomes)
                   /\ <<"status", x, "end">> \in Seq({"status", "end"} \cup Outcomes)
        OBVIOUS
      <3>2. /\ <<>> \in Seq({"status", "end"} \cup Outcomes)
            /\ <<"status">> \in Seq({"status", "end"} \cup Outcomes)
        OBVIOUS
      <3>3. QED
        BY <3>1, <3>2 DEF EventsAt
    <2>3. QED
      BY <2>1, <2>2 DEF EventsTyped
  <1>2. QED
    BY <1>1, OthersKeepEvents DEF EventsTyped

LEMMA AskedStep ==
    ASSUME PcTyped, AskedTyped, OpenFits, [Next]_vars
    PROVE  AskedTyped'
  <1> USE Names
  <1>1. CASE Refusing
    <2>1. asked' = asked /\ DOMAIN pending' = DOMAIN pending
      BY <1>1, Refusals
    <2>2. ASSUME NEW c \in DOMAIN pending
          PROVE  pending'[c] \in {pending[c], [resolved |-> TRUE, approved |-> FALSE]}
      BY <1>1, Refusals
    <2>3. [resolved |-> TRUE, approved |-> FALSE] \in [resolved : BOOLEAN, approved : BOOLEAN]
      OBVIOUS
    <2>4. QED
      BY <2>1, <2>2, <2>3 DEF AskedTyped
  <1>2. ASSUME NEW o \in Ops, RegisterRequest(o) PROVE AskedTyped'
    <2>1. CASE refusing
      BY <1>2, <2>1 DEF RegisterRequest, AskedTyped
    <2>2. CASE ~refusing
      <3> DEFINE new == <<o, asked[o] + 1>>
      <3>1. /\ pc[o] = "register" /\ asked' = [asked EXCEPT ![o] = @ + 1]
            /\ pending' = [c \in DOMAIN pending \cup {new} |->
                              IF c \in DOMAIN pending THEN pending[c]
                              ELSE [resolved |-> FALSE, approved |-> FALSE]]
        BY <1>2, <2>2 DEF RegisterRequest
      <3>2. asked[o] + 1 \in 1 .. MaxAsks
        BY <3>1 DEF OpenFits, AskedTyped
      <3>3. new \in Ids
        BY <3>2 DEF Ids
      <3>4. QED
        BY <3>1, <3>2, <3>3 DEF AskedTyped
    <2>3. QED
      BY <2>1, <2>2
  <1>3. ASSUME NEW o \in Ops, Wait(o) \/ CheckCancel(o) PROVE AskedTyped'
    <2>1. /\ asked' = asked
          /\ \A c \in DOMAIN pending' : c \in DOMAIN pending /\ pending'[c] = pending[c]
      BY <1>3, Decisions
    <2>2. QED
      BY <2>1 DEF AskedTyped
  <1>4. ASSUME NEW o \in Ops, NEW n \in 1 .. MaxAsks, NEW b \in BOOLEAN, Resolve(o, n, b)
        PROVE  AskedTyped'
    BY <1>4 DEF Resolve, ResolvePending, AskedTyped, ops
  <1>5. CASE ~Refusing /\ ~ \E o \in Ops : Confirming(o)
    BY <1>5, OthersKeepAnswers DEF AskedTyped
  <1>6. QED
    BY <1>1, <1>2, <1>3, <1>4, <1>5 DEF Confirming

LEMMA HistoryStep ==
    ASSUME ControlTyped, AskedTyped, HistoryTyped, OpenFits, [Next]_vars
    PROVE  HistoryTyped'
  <1> USE Names
  <1>1. CASE Refusing
    BY <1>1, Refusals DEF HistoryTyped, AskedTyped
  <1>2. ASSUME NEW o \in Ops, RegisterRequest(o) PROVE HistoryTyped'
    BY <1>2 DEF RegisterRequest, HistoryTyped, history
  <1>3. ASSUME NEW r, r \in [by : Ops \cup {JobWorker}, gate : {"allow", "ask", "stdin"},
                             id : 0 .. MaxAsks + 1],
               ran' = ran \cup {r}, yes' = yes, no' = no
        PROVE  HistoryTyped'
    BY <1>3 DEF HistoryTyped
  <1>4. ASSUME NEW o \in Ops, Wait(o) \/ CheckCancel(o) PROVE HistoryTyped'
    <2> DEFINE r == [by |-> o, gate |-> "ask", id |-> asked[o]]
    <2>1. yes' = yes /\ no' = no /\ (ran' = ran \/ ran' = ran \cup {r})
      BY <1>4, Decisions
    <2>2. asked[o] \in 0 .. MaxAsks + 1
      BY DEF AskedTyped
    <2>3. r \in [by : Ops \cup {JobWorker}, gate : {"allow", "ask", "stdin"}, id : 0 .. MaxAsks + 1]
      BY <2>2
    <2> HIDE DEF r
    <2>4. CASE ran' = ran
      BY <2>1, <2>4 DEF HistoryTyped
    <2>5. QED
      BY <1>3, <2>1, <2>3, <2>4
  <1>5. ASSUME NEW o \in Ops, NEW n \in 1 .. MaxAsks, NEW b \in BOOLEAN, Resolve(o, n, b)
        PROVE  HistoryTyped'
    BY <1>5 DEF Resolve, ResolvePending, HistoryTyped, AskedTyped
  <1>6. ASSUME NEW o \in Ops, CallTool(o) PROVE HistoryTyped'
    <2>1. UNCHANGED <<yes, no>>
      BY <1>6 DEF CallTool
    <2>2. CASE ran' = ran
      BY <2>1, <2>2 DEF HistoryTyped
    <2>3. CASE ran' # ran
      <3> DEFINE r == [by |-> o, gate |-> Gate, id |-> 0]
      <3>1. Gate \in {"allow", "stdin"} /\ ran' = ran \cup {r}
        BY <1>6, <2>3 DEF CallTool
      <3>2. r \in [by : Ops \cup {JobWorker}, gate : {"allow", "ask", "stdin"}, id : 0 .. MaxAsks + 1]
        BY <3>1
      <3> HIDE DEF r
      <3>3. QED
        BY <1>3, <2>1, <3>1, <3>2
    <2>4. QED
      BY <2>2, <2>3
  <1>7. CASE StepTool
    <2> DEFINE n == IF allow THEN 1 ELSE 0
               r == [by |-> JobWorker, gate |-> Gate, id |-> n]
    <2>1. yes' = yes /\ no' = no /\ ran' = ran \cup {r} /\ Gate \in {"allow", "stdin"}
      BY <1>7 DEF StepTool
    <2>2. n \in 0 .. MaxAsks + 1
      OBVIOUS
    <2> HIDE DEF n
    <2>3. r \in [by : Ops \cup {JobWorker}, gate : {"allow", "ask", "stdin"}, id : 0 .. MaxAsks + 1]
      BY <2>1, <2>2
    <2> HIDE DEF r
    <2>4. QED
      BY <1>3, <2>1, <2>3
  <1>8. CASE UNCHANGED <<yes, no, ran>>
    BY <1>8 DEF HistoryTyped
  <1>9. QED
    BY <1>1, <1>2, <1>4, <1>5, <1>6, <1>7, <1>8, OthersKeepAnswers DEF Confirming

LEMMA PoolStep ==
    ASSUME PcTyped, PoolTyped, LocksFit, LocksFit', CapacityBalanced, [Next]_vars
    PROVE  PoolTyped'
  <1>1. /\ queue' \in Seq({"memory", "summary"}) /\ capacity' \in Nat
        /\ worker' \in [Workers -> {"idle", "lock", "memory", "summary"}]
    <2> USE BusyFinite DEF PoolTyped
    <2>1. ASSUME NEW w \in Workers, PoolThread(w)
          PROVE  /\ queue' \in Seq({"memory", "summary"}) /\ capacity' \in Nat
                 /\ worker' \in [Workers -> {"idle", "lock", "memory", "summary"}]
      BY <2>1, HeadTailProperties DEF PoolThread, TakeTask, SummaryLock, TaskDone
    <2>2. ASSUME NEW o \in Ops, Submit(o) \/ Put(o)
          PROVE  /\ queue' \in Seq({"memory", "summary"}) /\ capacity' \in Nat
                 /\ worker' \in [Workers -> {"idle", "lock", "memory", "summary"}]
      <3>1. /\ worker' = worker
            /\ queue' = queue \/ \E t \in {"memory", "summary"} : queue' = Append(queue, t)
        BY <2>2 DEF Submit, Put
      <3>2. queue' \in Seq({"memory", "summary"})
        BY <3>1, AppendProperties
      <3>3. CASE Submit(o)
        <4>1. capacity' = capacity \/ (capacity > 0 /\ capacity' = capacity - 1)
          BY <3>3 DEF Submit
        <4>2. QED
          BY <3>1, <3>2, <4>1
      <3>4. CASE Put(o)
        <4>1. capacity' = capacity \/ capacity' = capacity + 1
          BY <3>4 DEF Put
        <4>2. QED
          BY <3>1, <3>2, <4>1
      <3>5. QED
        BY <2>2, <3>3, <3>4
    <2>3. CASE CloseShutdown
      <3>1. /\ worker' = worker /\ (queue' = queue \/ queue' = <<>>)
            /\ capacity' = capacity \/ capacity' = capacity + Len(queue)
        BY <2>3 DEF CloseShutdown
      <3>2. queue' \in Seq({"memory", "summary"})
        BY <3>1, EmptySeq
      <3>3. Len(queue) \in Nat
        OBVIOUS
      <3>4. capacity' \in Nat
        BY <3>1, <3>3
      <3>5. QED
        BY <3>1, <3>2, <3>4
    <2>4. CASE pool' = pool
      BY <2>4 DEF pool
    <2>5. QED
      BY <2>1, <2>2, <2>3, <2>4
         DEF Next, vars, OpThread, Begin, Enter, Chunk, Raise, Answered, Conclude, Finally,
             CallTool, RegisterRequest, Wait, CheckCancel, Caller, Stream, Abandon, Leave, Resolve,
             StepThread, StepBegin, StepEnter, StepTool, StepEnd, Cancelling, CancelActive,
             CancelSet, CancelEnd, Closing, CloseCancel, CloseRefuse, CloseDetach, CloseLock,
             CloseBrain, CloseDrained, CloseJoin, Close
  <1>2. capacity' + Len(queue') + Cardinality(Busy') + Cardinality(Putting') = PoolSize
    BY CapacityStep DEF CapacityBalanced, Count, Busy, Putting
  <1>3. Cardinality(Busy') \in Nat /\ Len(queue') \in Nat
    <2>1. IsFiniteSet(Busy')
      BY BusyFinite, FS_Subset DEF Busy
    <2>2. QED
      BY <1>1, <2>1, FS_CardinalityType
  <1>4. Cardinality(Putting') \in Nat
    <2>1. CASE Putting' = {}
      BY <2>1, FS_EmptySet
    <2>2. CASE Putting' # {}
      <3>1. PICK o \in Ops : pc'[o] \in {"put", "put summary"}
        BY <2>2 DEF Putting
      <3>2. Putting' = {o}
        BY <3>1 DEF Putting, LocksFit, InBrain
      <3>3. QED
        BY <3>2, FS_Singleton
    <2>3. QED
      BY <2>1, <2>2
  <1>5. capacity' \in 0 .. PoolSize
    BY <1>1, <1>2, <1>3, <1>4, BusyFinite
  <1>6. QED
    BY <1>1, <1>5 DEF PoolTyped

-----------------------------------------------------------------------------
(* The inductive invariant. *)

LEMMA InitInvariant == Init => IInv
  <1> SUFFICES ASSUME Init PROVE IInv
    OBVIOUS
  <1> USE Names
  <1>1. TypeOK
    <2>1. ControlTyped
      <3>1. /\ closed \in BOOLEAN /\ refusing \in BOOLEAN /\ attached \in BOOLEAN /\ wait \in BOOLEAN
            /\ allow \in BOOLEAN
        BY DEF Init
      <3>2. /\ active = None /\ policy = "none" /\ lock = None /\ brain = "open" /\ closer = "idle"
            /\ closing = None /\ step = "idle" /\ calls \in 0 .. MaxCalls
        BY DEF Init
      <3>3. canceller \in [at : {"idle", "found", "set"}, op : Ops \cup {None}]
        BY DEF Init
      <3>4. QED
        BY <3>1, <3>2, <3>3 DEF ControlTyped
    <2>2. PcTyped /\ FlagsTyped
      BY DEF Init, PcTyped, FlagsTyped
    <2>3. EventsTyped /\ AskedTyped /\ HistoryTyped
      BY DEF Init, EventsTyped, AskedTyped, HistoryTyped
    <2>4. PoolTyped
      <3>1. PoolSize \in Nat \ {0}
        BY BusyFinite, FS_CardinalityType, ServiceAssumption DEF PoolSize, ServiceAssumption
      <3>2. Len(<<>>) = 0 /\ Len(<<"memory">>) = 1
        OBVIOUS
      <3>3. queue \in {<<>>, <<"memory">>} /\ capacity = PoolSize - Len(queue)
        BY DEF Init
      <3>4. Len(queue) \in {0, 1}
        BY <3>2, <3>3
      <3>5. capacity \in 0 .. PoolSize
        <4>1. capacity = PoolSize - Len(queue)
          BY <3>3
        <4>2. QED
          BY <3>1, <3>4, <4>1
      <3>6. <<>> \in Seq({"memory", "summary"}) /\ <<"memory">> \in Seq({"memory", "summary"})
        OBVIOUS
      <3>7. QED
        BY <3>3, <3>5, <3>6 DEF Init, PoolTyped
    <2>5. QED
      BY <2>1, <2>2, <2>3, <2>4, TypeParts
  <1>2. LocksFit /\ ActiveFits
    BY DEF Init, LocksFit, ActiveFits, Running, InBrain, Asking
  <1>3. OpenFits /\ AnswersFit /\ RunsFit
    BY DEF Init, OpenFits, AnswersFit, RunsFit, Asking
  <1>4. HighToolsAsked /\ GateFits /\ ClosingFits /\ EventsFit /\ QuietAfterClose
    BY DEF Init, HighToolsAsked, GateFits, ClosingFits, EventsFit, EventsAt, QuietAfterClose
  <1>5. CapacityBalanced
    <2>1. Busy = {} /\ Putting = {}
      BY DEF Init, Busy, Putting
    <2>2. Cardinality(Busy) = 0 /\ Cardinality(Putting) = 0 /\ PoolSize \in Nat
      BY <2>1, FS_EmptySet, BusyFinite
    <2>3. queue \in {<<>>, <<"memory">>} /\ capacity = PoolSize - Len(queue)
      BY DEF Init
    <2>4. Len(queue) \in Nat
      BY <2>3
    <2>5. capacity + Len(queue) + Cardinality(Busy) + Cardinality(Putting) = PoolSize
      BY <2>2, <2>3, <2>4
    <2>6. QED
      BY <2>5 DEF CapacityBalanced, Count, Busy, Putting
  <1>6. QED
    BY <1>1, <1>2, <1>3, <1>4, <1>5 DEF IInv

LEMMA NextInvariant == IInv /\ [Next]_vars => IInv'
  <1> SUFFICES ASSUME IInv, [Next]_vars PROVE IInv'
    OBVIOUS
  <1>1. /\ LocksFit /\ ActiveFits /\ OpenFits /\ AnswersFit /\ RunsFit /\ HighToolsAsked /\ GateFits
        /\ ClosingFits /\ EventsFit /\ CapacityBalanced /\ QuietAfterClose
        /\ ControlTyped /\ PcTyped /\ FlagsTyped /\ EventsTyped /\ AskedTyped /\ PoolTyped
        /\ HistoryTyped
    BY TypeParts DEF IInv
  <1>2. LocksFit'
    BY <1>1, LocksStep DEF PoolTyped, ControlTyped
  <1>3. ActiveFits' /\ OpenFits'
    BY <1>1, ActiveStep, OpenStep DEF AskedTyped
  <1>4. AnswersFit'
    BY <1>1, AnswersStep DEF AskedTyped, HistoryTyped
  <1>5. RunsFit'
    BY <1>1, RunsStep DEF AskedTyped
  <1>6. HighToolsAsked'
    BY <1>1, HighStep DEF AskedTyped, ControlTyped
  <1>7. GateFits' /\ ClosingFits'
    BY <1>1, GateStep, ClosingStep DEF FlagsTyped, ControlTyped
  <1>8. EventsFit'
    BY <1>1, EventsStep DEF EventsTyped
  <1>9. CapacityBalanced'
    BY <1>1, <1>2, CapacityStep
  <1>10. QuietAfterClose'
    BY <1>1, QuietStep DEF FlagsTyped
  <1>11. TypeOK'
    <2>1. ControlTyped' /\ PcTyped' /\ FlagsTyped' /\ EventsTyped' /\ AskedTyped'
      BY <1>1, ControlStep, PcStep, FlagsStep, EventsTypedStep, AskedStep
    <2>2. PoolTyped' /\ HistoryTyped'
      BY <1>1, <1>2, PoolStep, HistoryStep
    <2>3. QED
      BY <2>1, <2>2 DEF TypeOK, ControlTyped, PcTyped, FlagsTyped, EventsTyped, AskedTyped,
             PoolTyped, HistoryTyped
  <1>12. QED
    BY <1>2, <1>3, <1>4, <1>5, <1>6, <1>7, <1>8, <1>9, <1>10, <1>11 DEF IInv

\* What is in an event queue, and whose confirmations are open.
LEMMA StreamLemma == IInv => StreamFits
  <1> SUFFICES ASSUME IInv, NEW o \in Ops
               PROVE  /\ events[o] \in {<<>>, <<"status">>}
                             \cup {<<"status", x>> : x \in Outcomes}
                             \cup {<<"status", x, "end">> : x \in Outcomes}
                      /\ Len(events[o]) > 1 => OpenOf({o}) = {}
                      /\ pc[o] = "done" => Len(events[o]) = 3
    BY DEF StreamFits
  <1>1. events[o] \in EventsAt(pc[o]) /\ OpenFits
    BY DEF IInv, EventsFit
  <1>2. CASE pc[o] \in {"finally", "done"}
    <2>1. OpenOf({o}) = {}
      BY <1>1, <1>2 DEF OpenFits, OpenOf, Asking
    <2>2. \E x \in Outcomes : events[o] = IF pc[o] = "done" THEN <<"status", x, "end">>
                                          ELSE <<"status", x>>
      BY <1>1, <1>2 DEF EventsAt
    <2>3. QED
      BY <1>2, <2>1, <2>2
  <1>3. CASE pc[o] \notin {"finally", "done"}
    <2>1. events[o] \in {<<>>, <<"status">>}
      BY <1>1, <1>3 DEF EventsAt
    <2>2. Len(<<>>) = 0 /\ Len(<<"status">>) = 1
      OBVIOUS
    <2>3. Len(events[o]) = 0 \/ Len(events[o]) = 1
      BY <2>1, <2>2
    <2>4. CASE Len(events[o]) = 0
      BY <1>3, <2>1, <2>4
    <2>5. CASE Len(events[o]) = 1
      BY <1>3, <2>1, <2>5
    <2>6. QED
      BY <2>3, <2>4, <2>5
  <1>4. QED
    BY <1>2, <1>3

-----------------------------------------------------------------------------
(* The theorems. *)

(***************************************************************************)
(* The inductive invariant holds: whoever takes and gives back the brain's *)
(* lock, asks, answers, cancels or closes.                                 *)
(***************************************************************************)
THEOREM InvariantHolds == Spec => []IInv
  BY InitInvariant, NextInvariant, PTL DEF Spec

\* The variables keep their types; the semaphore never passes its size.
THEOREM TypeCorrect == Spec => []TypeOK
  <1>1. IInv => TypeOK
    BY DEF IInv
  <1>2. QED
    BY <1>1, InvariantHolds, PTL

(***************************************************************************)
(* A tool with high permission runs only as it was allowed: see            *)
(* HighToolsAsked.                                                         *)
(***************************************************************************)
THEOREM HighToolsSafe == Spec => []HighToolsAsked
  <1>1. IInv => HighToolsAsked
    BY DEF IInv
  <1>2. QED
    BY <1>1, InvariantHolds, PTL

(***************************************************************************)
(* The events of a request are its status, one outcome and the end, and an *)
(* outcome leaves none of its confirmations open.                          *)
(***************************************************************************)
THEOREM StreamSafe == Spec => []StreamFits
  BY StreamLemma, InvariantHolds, PTL

(***************************************************************************)
(* One request at a time, which alone uses the brain and is asked about,   *)
(* and a number of tasks behind it that the semaphore knows.               *)
(***************************************************************************)
THEOREM LimitsSafe == Spec => []LimitsKept
  <1>1. IInv => LimitsKept
    BY DEF IInv, LimitsKept, OneOperation, ActiveFits, LocksFit, OpenFits
  <1>2. QED
    BY <1>1, InvariantHolds, PTL

\* After close(wait=True) nothing uses the brain any more, and nothing will.
THEOREM QuietSafe == Spec => []QuietAfterClose
  <1>1. IInv => QuietAfterClose
    BY DEF IInv
  <1>2. QED
    BY <1>1, InvariantHolds, PTL
=============================================================================
