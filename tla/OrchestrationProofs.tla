------------------------ MODULE OrchestrationProofs ------------------------
(***************************************************************************)
(* Proofs about Orchestration, for any number of processes and callers:    *)
(* every table, copy and memory keeps its type, whatever a thread          *)
(* remembers of a row exists, and every start of a job is paid for by its  *)
(* insertion or by an approval.                                            *)
(*                                                                         *)
(* What each transaction leaves of the run and its steps is stated once,   *)
(* field by field, for the proofs that extend this module.                 *)
(***************************************************************************)
EXTENDS Orchestration, FiniteSetTheorems, WellFoundedInduction, TLAPS

-----------------------------------------------------------------------------
(* References: the program counters and what the threads hold on to. *)

CallerPc == {"down", "idle", "list", "look", "recover", "ready"} \cup Calling

WorkerPc == {"down", "poll", "check0", "claimRun", "check1", "askWait",
             "approve", "prepare", "reread", "check2", "steps", "pick",
             "deadlock", "start", "progress", "execute", "check3", "commit",
             "team", "completeRun", "completeTeam", "failStep", "stop",
             "finish", "pause", "cancel", "fail"}

\* A caller that has linked its copy to the job of the copy's revision.
LinkedPc == {"look", "link", "markWaiting", "cancelJob", "approveJob",
             "rejectJob"}

\* A worker that has chosen the step it executes.
ChosenPc == {"start", "progress", "execute", "check3", "failStep", "commit"}

Busy(p) == pc[p] \notin {"down", "poll"}

ThreadsFit ==
    /\ \A t \in Callers : pc[t] \in CallerPc
    /\ \A p \in Procs :
          /\ pc[p] \in WorkerPc
          /\ Busy(p) <=> work[p].job # NoJob
          /\ phase[p] \in {"down", "starting"} => pc[p] = "down"
          /\ pc[Main[p]] = "recover" => phase[p] = "starting"

\* A row a job method or a worker may leave behind: its starts are paid for.
Paid(r) ==
    /\ r \in J!Row
    /\ r.starts <= r.grants + 1
    /\ r.status = "queued" => r.starts <= r.grants
    /\ r.approval = "granted" => r.grants > 0

JobsPaid == \A v \in DOMAIN jobs : Paid(jobs[v])

RunFits ==
    IF Exists
    THEN /\ run.job \in {NoJob, run.rev}
         /\ run.job # NoJob => run.job \in DOMAIN jobs
         /\ DOMAIN jobs \subseteq 1 .. run.rev
         /\ steps # << >>
    ELSE steps = << >> /\ DOMAIN jobs = {}

CopiesFit ==
    \A t \in Callers :
        /\ pc[t] \in Calling \cup {"look"} =>
              /\ Exists
              /\ seen[t] \in Copy
              /\ seen[t].rev <= run.rev
        /\ pc[t] \in LinkedPc =>
              seen[t].job = seen[t].rev /\ seen[t].job \in DOMAIN jobs

WorkFits ==
    \A p \in Procs :
        /\ work[p].job # NoJob => work[p].job \in DOMAIN jobs
        /\ pc[p] \in ChosenPc => work[p].step \in DOMAIN steps

RefInv ==
    TypeOK /\ ThreadsFit /\ JobsPaid /\ RunFits /\ CopiesFit /\ WorkFits

-----------------------------------------------------------------------------
(* Rows of the jobs table. *)

LEMMA RowNats ==
    ASSUME NEW r \in J!Row
    PROVE  /\ r.starts \in Nat /\ r.grants \in Nat /\ r.attempts \in Nat /\ r.pauses \in Nat
           /\ r.starts + 1 \in Nat /\ r.grants + 1 \in Nat /\ r.attempts + 1 \in Nat
           /\ r.pauses + 1 \in Nat
           /\ r.attempts > 0 => r.attempts - 1 \in Nat
  <1>1. /\ r.starts \in Nat /\ r.grants \in Nat /\ r.attempts \in Nat /\ r.pauses \in Nat
    BY DEF J!Row
  <1>2. QED
    BY <1>1

\* A row that the counters of r, and no more than r's approval, are left in.
Plain(r, t) ==
    /\ t \in J!Row /\ t.starts = r.starts /\ t.grants = r.grants
    /\ t.status = "queued" => r.status = "queued"
    /\ t.approval = "granted" => r.approval = "granted"

LEMMA RowPlain ==
    ASSUME NEW r \in J!Row
    PROVE  /\ Plain(r, J!Cancelled(r)) /\ Plain(r, J!Failed(r))
           /\ Plain(r, [r EXCEPT !.cancel = TRUE])
           /\ Plain(r, [r EXCEPT !.status = "succeeded"])
           /\ Plain(r, [r EXCEPT !.status = "waiting_approval", !.approval = "none"])
  <1>1. /\ {"queued", "running", "waiting_approval", "succeeded", "failed", "cancelled"}
              = J!Status
        /\ "none" \in J!Approval
    BY DEF J!Status, J!Approval, J!Terminal
  <1>2. Plain(r, J!Cancelled(r))
    BY <1>1 DEF Plain, J!Row, J!Cancelled
  <1>3. Plain(r, J!Failed(r))
    BY <1>1 DEF Plain, J!Row, J!Failed
  <1>4. Plain(r, [r EXCEPT !.cancel = TRUE])
    BY <1>1 DEF Plain, J!Row
  <1>5. Plain(r, [r EXCEPT !.status = "succeeded"])
    BY <1>1 DEF Plain, J!Row
  <1>6. Plain(r, [r EXCEPT !.status = "waiting_approval", !.approval = "none"])
    BY <1>1 DEF Plain, J!Row
  <1>7. QED
    BY <1>2, <1>3, <1>4, <1>5, <1>6

\* The three methods that count or answer.
LEMMA RowWaits ==
    ASSUME NEW r \in J!Row
    PROVE  LET s == [r EXCEPT !.status = "waiting_approval",
                              !.attempts = IF @ > 0 THEN @ - 1 ELSE 0,
                              !.approval = "none", !.pauses = @ + 1]
           IN  /\ s \in J!Row /\ s.starts = r.starts /\ s.grants = r.grants
               /\ s.status = "waiting_approval" /\ s.approval = "none"
  <1> DEFINE n == IF r.attempts > 0 THEN r.attempts - 1 ELSE 0
  <1>1. n \in Nat /\ r.pauses + 1 \in Nat
    BY RowNats
  <1>2. "waiting_approval" \in J!Status /\ "none" \in J!Approval
    BY DEF J!Status, J!Approval
  <1> HIDE DEF n
  <1>3. LET s == [r EXCEPT !.status = "waiting_approval", !.attempts = n,
                           !.approval = "none", !.pauses = @ + 1]
        IN  /\ s \in J!Row /\ s.starts = r.starts /\ s.grants = r.grants
            /\ s.status = "waiting_approval" /\ s.approval = "none"
    BY <1>1, <1>2 DEF J!Row
  <1>4. [r EXCEPT !.status = "waiting_approval", !.attempts = n,
                  !.approval = "none", !.pauses = @ + 1]
          = [r EXCEPT !.status = "waiting_approval",
                      !.attempts = IF @ > 0 THEN @ - 1 ELSE 0,
                      !.approval = "none", !.pauses = @ + 1]
    BY DEF n, J!Row
  <1>5. QED
    BY <1>3, <1>4

LEMMA RowAnswered ==
    ASSUME NEW r \in J!Row, NEW b \in BOOLEAN, r.status = "waiting_approval"
    PROVE  LET s == J!ResolveApproval(r, b)
           IN  /\ s \in J!Row /\ s.starts = r.starts
               /\ s.grants = IF b THEN r.grants + 1 ELSE r.grants
               /\ s.status = "queued" => b
               /\ s.approval = "granted" => b
  <1> DEFINE a == [r EXCEPT !.approval = IF b THEN "granted" ELSE "denied",
                            !.grants = IF b THEN @ + 1 ELSE @]
  <1>1. /\ a \in J!Row /\ a.starts = r.starts
        /\ a.grants = IF b THEN r.grants + 1 ELSE r.grants
        /\ a.status = "waiting_approval"
        /\ a.approval = "granted" => b
    <2>1. "granted" \in J!Approval /\ "denied" \in J!Approval /\ r.grants + 1 \in Nat
      BY RowNats DEF J!Approval
    <2>2. CASE b
      BY <2>1, <2>2 DEF J!Row
    <2>3. CASE ~b
      BY <2>1, <2>3 DEF J!Row
    <2>4. QED
      BY <2>2, <2>3
  <1> HIDE DEF a
  <1>2. LET s == [a EXCEPT !.status = "queued", !.due = TRUE]
        IN  s \in J!Row /\ s.starts = a.starts /\ s.grants = a.grants /\ s.approval = a.approval
    BY <1>1 DEF J!Row, J!Status
  <1>3. J!ResolveApproval(r, b) = IF ~b THEN J!Cancelled(a)
                                 ELSE IF r.attempts < r.max
                                 THEN [a EXCEPT !.status = "queued", !.due = TRUE]
                                 ELSE J!Failed(a)
    BY DEF J!ResolveApproval, a
  <1>4. CASE b /\ r.attempts < r.max
    BY <1>1, <1>2, <1>3, <1>4
  <1>5. CASE ~b
    <2>1. Plain(a, J!Cancelled(a)) /\ J!Cancelled(a).status = "cancelled"
      BY <1>1, RowPlain DEF J!Cancelled, J!Row
    <2>2. QED
      BY <1>1, <1>3, <1>5, <2>1 DEF Plain
  <1>6. CASE b /\ ~(r.attempts < r.max)
    <2>1. Plain(a, J!Failed(a)) /\ J!Failed(a).status = "failed"
      BY <1>1, RowPlain DEF J!Failed, J!Row
    <2>2. QED
      BY <1>1, <1>3, <1>6, <2>1 DEF Plain
  <1>7. QED
    BY <1>4, <1>5, <1>6

LEMMA RowPaid ==
    ASSUME NEW r, Paid(r), NEW b \in BOOLEAN, NEW s,
           s \in {J!RequestCancel(r), J!ResolveApproval(r, b), J!Recover(r, FALSE),
                  J!Complete(r), J!WaitForApproval(r), J!MarkCancelled(r), J!Fail(r, FALSE)}
    PROVE  /\ Paid(s)
           /\ s.starts = r.starts /\ s.grants >= r.grants
           /\ r.status \in J!Terminal => s.status = r.status
  <1>1. r \in J!Row /\ r.starts \in Nat /\ r.grants \in Nat
    BY RowNats DEF Paid
  <1>2. CASE s = r
    BY <1>1, <1>2
  <1>3. CASE /\ r.status \notin J!Terminal
             /\ s \in {J!Cancelled(r), J!Failed(r), [r EXCEPT !.cancel = TRUE],
                       [r EXCEPT !.status = "succeeded"],
                       [r EXCEPT !.status = "waiting_approval", !.approval = "none"]}
    <2>1. Plain(r, s)
      BY <1>1, <1>3, RowPlain
    <2>2. QED
      BY <1>1, <1>3, <2>1 DEF Paid, Plain
  <1>4. CASE s = J!ResolveApproval(r, b) /\ r.status = "waiting_approval"
    <2>1. /\ s \in J!Row /\ s.starts = r.starts
          /\ s.grants = IF b THEN r.grants + 1 ELSE r.grants
          /\ s.status = "queued" => b
          /\ s.approval = "granted" => b
      BY <1>1, <1>4, RowAnswered
    <2>2. QED
      BY <1>1, <1>4, <2>1 DEF Paid, J!Terminal
  <1>5. CASE s = J!WaitForApproval(r) /\ r.status = "running" /\ ~r.cancel
    <2>1. /\ s \in J!Row /\ s.starts = r.starts /\ s.grants = r.grants
          /\ s.status = "waiting_approval" /\ s.approval = "none"
      BY <1>1, <1>5, RowWaits DEF J!WaitForApproval
    <2>2. QED
      BY <1>1, <1>5, <2>1 DEF Paid, J!Terminal
  <1>6. QED
    BY <1>2, <1>3, <1>4, <1>5 DEF J!RequestCancel, J!ResolveApproval, J!Recover, J!Complete,
       J!WaitForApproval, J!MarkCancelled, J!Fail, J!Terminal

LEMMA RowClaimed ==
    ASSUME NEW r, Paid(r), J!Claimable(r)
    PROVE  /\ Paid(J!Claim(r)) /\ J!Claim(r).status = "running"
           /\ J!Claim(r).starts = r.starts + 1 /\ J!Claim(r).grants = r.grants
           /\ r.status = "queued"
  <1>1. /\ r \in J!Row /\ r.starts \in Nat /\ r.starts + 1 \in Nat
        /\ r.attempts + 1 \in Nat /\ r.grants \in Nat
    BY RowNats DEF Paid
  <1>2. /\ J!Claim(r) \in J!Row /\ J!Claim(r).status = "running"
        /\ J!Claim(r).starts = r.starts + 1 /\ J!Claim(r).grants = r.grants
        /\ J!Claim(r).approval = r.approval
    BY <1>1 DEF J!Row, J!Status, J!Claim
  <1>3. QED
    BY <1>1, <1>2 DEF Paid, J!Claimable

LEMMA RowNew ==
    ASSUME NEW v \in Nat \ {0}
    PROVE  LET r == J!NewRow("run", v, Attempts, TRUE)
           IN Paid(r) /\ r.starts = 0 /\ r.status = "queued"
  BY OrchestrationAssumption DEF Paid, J!Row, J!NewRow, J!Status, J!Approval, J!Terminal, NoJob

LEMMA PutFacts ==
    ASSUME NEW v, NEW row, Put(v, row)
    PROVE  /\ DOMAIN jobs' = DOMAIN jobs \cup {v} /\ jobs'[v] = row
           /\ \A i \in DOMAIN jobs \ {v} : jobs'[i] = jobs[i]
  BY DEF Put

LEMMA Least ==
    ASSUME NEW S, S \subseteq Nat, S # {}
    PROVE  /\ MinOf(S) \in S
           /\ \A j \in S : MinOf(S) <= j
  <1> DEFINE R == {ss \in Nat \X Nat : ss[1] < ss[2]}
  <1>1. IsWellFoundedOn(R, Nat)
    BY NatLessThanWellFounded DEF OpToRel
  <1>2. PICK m \in S : \A j \in S : ~ (<<j, m>> \in R)
    <2> HIDE DEF R
    <2>1. QED
      BY <1>1, WFMin
  <1>3. \A j \in S : m <= j
    <2>1. SUFFICES ASSUME NEW j \in S PROVE m <= j
      OBVIOUS
    <2>2. j \in Nat /\ m \in Nat
      OBVIOUS
    <2>3. ~ (j < m)
      BY <1>2, <2>2
    <2>4. QED
      BY <2>2, <2>3
  <1>4. \E i \in S : \A j \in S : i <= j
    BY <1>3
  <1>5. QED
    BY <1>4 DEF MinOf

LEMMA LeastIs ==
    ASSUME NEW S, S \subseteq Nat, NEW m \in S, \A j \in S : m <= j
    PROVE  MinOf(S) = m
  <1>1. MinOf(S) \in S /\ \A j \in S : MinOf(S) <= j
    BY Least
  <1>2. MinOf(S) <= m /\ m <= MinOf(S) /\ m \in Nat /\ MinOf(S) \in Nat
    BY <1>1
  <1>3. QED
    BY <1>2

-----------------------------------------------------------------------------
(* Who takes a step, and which of the threads it moves. *)

CallerActs(t) == CallerCalls(t) \/ ThreadStep(t) \/ CallFault(t)

WorkerActs(p) == WorkerStep(p) \/ WorkerFault(p)

LifeActs(p) == Constructs(p) \/ Close(p) \/ Exit(p) \/ Crash(p)

LEMMA Actors ==
    Next => \/ \E t \in Callers : CallerActs(t)
            \/ \E p \in Procs : WorkerActs(p) \/ ClaimFault(p) \/ LifeActs(p)
  BY DEF Next, CallerActs, WorkerActs, LifeActs

LEMMA StepsSeq ==
    ASSUME NEW s \in Seq(Step)
    PROVE  /\ Len(s) \in Nat /\ DOMAIN s = 1 .. Len(s)
           /\ s \in [1 .. Len(s) -> Step] /\ DOMAIN s \subseteq Nat \ {0}
  OBVIOUS

LEMMA SeqSteps ==
    ASSUME NEW n \in Nat, NEW f \in [1 .. n -> Step]
    PROVE  f \in Seq(Step) /\ Len(f) = n
  OBVIOUS

LEMMA RunKnown ==
    ASSUME TypeOK PROVE /\ Exists => run \in Run
                        /\ ~Exists => run = NoRun
  <1>1. \A r \in Run : r.status # "absent"
    BY DEF Run, RunStatus, RunTerminal
  <1>2. NoRun.status = "absent"
    BY DEF NoRun
  <1>3. QED
    BY <1>1, <1>2 DEF TypeOK, Exists

LEMMA NewRunTyped ==
    ASSUME NEW q \in Requests
    PROVE  NewRun(q) \in Run /\ q.total \in Nat \ {0}
  <1>1. q.kind \in Kinds /\ q.high \in BOOLEAN /\ q.total \in Nat \ {0}
    BY OrchestrationAssumption DEF Request
  <1>2. QED
    BY <1>1 DEF NewRun, Run, RunStatus, NoJob

\* A caller's step moves the caller alone: it goes on, its call is over, or
\* the call is a single step.
Goes(t) == \E label \in Calling \cup {"look"}, copy \in Copy : Take(t, label, copy)

Stays == UNCHANGED <<pc, seen>>

LEMMA CallerMoves ==
    ASSUME NEW t \in Callers, CallerActs(t), RefInv
    PROVE  /\ UNCHANGED <<effects, phase, work>>
           /\ Goes(t) \/ Done(t) \/ Stays
           /\ pc[t] \in {"idle", "list", "look"} \cup Calling
  <1>1. UNCHANGED <<effects, phase, work>>
    BY DEF CallerActs, CallerCalls, Create, CreateAgain, CancelRun, Resolve, Resume, CancelJob,
           ResolveJob, ThreadStep, CallerStep, Enqueue, Link, NoteWaiting, NoteFailed, Withdraw,
           CancelItsJob, Answer, List, Look, EnqueueRefused, CallFault, CallerRaises, tables, bounds
  <1>2. pc[t] \in {"idle", "list", "look"} \cup Calling
    BY DEF CallerActs, CallerCalls, Create, CreateAgain, CancelRun, Resolve, Resume, CancelJob,
           ResolveJob, ThreadStep, CallerStep, Enqueue, Link, NoteWaiting, NoteFailed, Withdraw,
           CancelItsJob, Answer, List, Look, EnqueueRefused, CallFault, CallerRaises, Calling, IdleCaller
  <1> DEFINE Out == Goes(t) \/ Done(t) \/ Stays
  <1>3. ASSUME NEW label \in Calling \cup {"look"}, NEW copy \in Copy, Take(t, label, copy)
        PROVE  Out
    BY <1>3 DEF Goes
  <1>4. ASSUME NEW r \in Run PROVE CopyOf(r) \in Copy
    BY DEF CopyOf, Run, Copy
  <1>5. ASSUME NEW r \in Run, Ensure(t, CopyOf(r)) PROVE Out
    BY <1>3, <1>4, <1>5 DEF Ensure, Calling
  <1>6. pc[t] \in Calling \cup {"look"} => seen[t] \in Copy
    BY DEF RefInv, CopiesFit
  <1>7. Exists => run \in Run
    BY RunKnown DEF RefInv
  <1>8. ASSUME Create(t) PROVE Out
    <2>1. PICK q \in Requests : Ensure(t, CopyOf(NewRun(q)))
      BY <1>8 DEF Create
    <2>2. QED
      BY <1>5, <2>1, NewRunTyped
  <1>9. ASSUME CreateAgain(t) PROVE Out
    BY <1>5, <1>7, <1>9 DEF CreateAgain
  <1>10. ASSUME Resume(t) PROVE Out
    <2>1. run \in Run /\ At("failed") # {} /\ ResetFailed /\ Ensure(t, CopyOf(run'))
      BY <1>7, <1>10 DEF Resume, Exists
    <2>2. CopyOf(run') = [status |-> "queued", rev |-> run.rev + 1, job |-> NoJob]
      BY <2>1 DEF ResetFailed, CopyOf, Run
    <2>3. [status |-> "queued", rev |-> run.rev + 1, job |-> NoJob] \in Copy
      <3>1. run.rev + 1 \in Nat \ {0}
        BY <2>1 DEF Run
      <3>2. QED
        BY <3>1 DEF Copy, RunStatus, NoJob
    <2>4. QED
      BY <1>3, <2>1, <2>2, <2>3 DEF Ensure, Calling
  <1>11. ASSUME CancelRun(t) PROVE Out
    BY <1>3, <1>4, <1>7, <1>11 DEF CancelRun, Calling
  <1>12. ASSUME Resolve(t) PROVE Out
    <2>1. run \in Run
      BY <1>7, <1>12 DEF Resolve, Exists
    <2>2. QED
      BY <1>3, <1>4, <1>12, <2>1 DEF Resolve, Calling
  <1>13. ASSUME Enqueue(t) PROVE Out
    <2>1. seen[t] \in Copy
      BY <1>6, <1>13 DEF Enqueue, Calling
    <2>2. [seen[t] EXCEPT !.job = seen[t].rev] \in Copy
      BY <2>1 DEF Copy
    <2>3. QED
      BY <1>3, <1>13, <2>2 DEF Enqueue, Calling
  <1>14. ASSUME Answer(t) PROVE Out
    BY <1>3, <1>6, <1>14 DEF Answer, Calling
  <1>15. ASSUME List(t) PROVE Out
    BY <1>3, <1>4, <1>7, <1>15 DEF List, Calling
  <1>16. ASSUME Look(t) PROVE Out
    BY <1>3, <1>6, <1>16 DEF Look, Calling
  <1>17. ASSUME NEW v \in DOMAIN jobs, CancelJob(t, v) \/ ResolveJob(t, v) PROVE Out
    BY <1>17 DEF CancelJob, ResolveJob, Stays
  <1>18. ASSUME \/ Link(t) \/ NoteWaiting(t) \/ NoteFailed(t) \/ Withdraw(t) \/ CancelItsJob(t)
                \/ EnqueueRefused(t) \/ CallFault(t)
         PROVE  Out
    BY <1>18 DEF Link, NoteWaiting, NoteFailed, Withdraw, CancelItsJob, EnqueueRefused, CallFault,
           CallerRaises
  <1>19. Out
    BY <1>8, <1>9, <1>10, <1>11, <1>12, <1>13, <1>14, <1>15, <1>16, <1>17, <1>18
       DEF CallerActs, CallerCalls, ThreadStep, CallerStep
  <1>20. QED
    BY <1>1, <1>2, <1>19

LEMMA CallerPcs ==
    ASSUME NEW t \in Callers, CallerActs(t), RefInv
    PROVE  /\ \E label \in CallerPc : pc' = [pc EXCEPT ![t] = label] \/ pc' = pc
           /\ pc'[t] = "recover" => pc' = pc \/ phase[Home[t]] = "starting"
           /\ \E copy \in Copy \cup {NoCopy} : seen' = [seen EXCEPT ![t] = copy] \/ seen' = seen
  <1>1. t \in DOMAIN pc
    BY DEF RefInv, TypeOK, Threads
  <1>2. CASE Done(t)
    <2>1. /\ Return(t) \in CallerPc
          /\ Return(t) = "recover" => phase[Home[t]] = "starting"
      BY DEF Return, CallerPc
    <2>2. QED
      BY <1>1, <1>2, <2>1 DEF Done, Take, Goto
  <1>3. CASE Goes(t)
    <2>1. PICK label \in Calling \cup {"look"}, copy \in Copy : Take(t, label, copy)
      BY <1>3 DEF Goes
    <2>2. label \in CallerPc /\ label # "recover"
      BY DEF CallerPc, Calling
    <2>3. QED
      BY <1>1, <2>1, <2>2 DEF Take, Goto
  <1>4. CASE Stays
    BY <1>4 DEF Stays, CallerPc
  <1>5. QED
    BY <1>2, <1>3, <1>4, CallerMoves

\* A worker's step moves the worker alone.
LEMMA WorkerMoves ==
    ASSUME NEW p \in Procs, WorkerActs(p), pc[p] \in WorkerPc, Busy(p) <=> work[p].job # NoJob
    PROVE  /\ UNCHANGED <<phase, seen>> /\ pc[p] # "down"
           /\ \E label \in WorkerPc \ {"down"} : pc' = [pc EXCEPT ![p] = label]
           /\ \E fields : work' = [work EXCEPT ![p] = fields] \/ work' = work
  <1>1. UNCHANGED <<phase, seen>>
    BY DEF WorkerActs, WorkerStep, WorkerFault, Claim, Check, ClaimRun, AskWait, Approve, Prepare,
       Reread, ListSteps, Pick, Deadlock, Start, Progress, Execute, StepFails, Commit, Complete,
       Stop, Settle, tables, bounds
  <1>2. \E label \in WorkerPc \ {"down"} : pc' = [pc EXCEPT ![p] = label]
    BY DEF WorkerActs, WorkerStep, WorkerFault, Claim, Check, ClaimRun, AskWait, Approve, Prepare,
       Reread, ListSteps, Pick, Deadlock, Start, Progress, Execute, StepFails, Commit, Complete,
       Stop, Settle, Goto, Onward, WorkerPc
  <1>3. \E fields : work' = [work EXCEPT ![p] = fields] \/ work' = work
    BY DEF WorkerActs, WorkerStep, WorkerFault, Claim, Check, ClaimRun, AskWait, Approve, Prepare,
       Reread, ListSteps, Pick, Deadlock, Start, Progress, Execute, StepFails, Commit, Complete,
       Stop, Settle, Remember
  <1>4. pc[p] # "down"
    BY DEF WorkerActs, WorkerStep, WorkerFault, Claim, Check, ClaimRun, AskWait, Approve, Prepare,
       Reread, ListSteps, Pick, Deadlock, Start, Progress, Execute, StepFails, Commit, Complete,
       Stop, Settle, Busy
  <1>5. QED
    BY <1>1, <1>2, <1>3, <1>4

\* A process starts, recovers, serves, closes or ends: its threads go down
\* and forget, or they begin.
LEMMA LifeMoves ==
    ASSUME NEW p \in Procs, LifeActs(p)
    PROVE  /\ UNCHANGED <<run, steps, effects>>
           /\ \E s \in {"down", "starting", "serving", "running", "closing"} :
                 phase' = [phase EXCEPT ![p] = s]
           /\ \/ Recover(p)
              \/ Boot(p) /\ jobs' = jobs /\ seen' = seen /\ work' = work
              \/ Close(p) /\ jobs' = jobs /\ seen' = seen /\ work' = work
              \/ Serve(p) /\ jobs' = jobs /\ seen' = seen /\ work' = work
              \/ End(p) /\ jobs' = jobs
  BY DEF LifeActs, Constructs, Boot, Recover, Serve, Close, Exit, Crash, End, tables, bounds, Remember

-----------------------------------------------------------------------------
(* Types: the threads. *)

PhaseTyped == phase \in [Procs -> {"down", "starting", "serving", "running", "closing"}]

LEMMA PcSets == CallerPc \cup WorkerPc \subseteq Pc
  BY DEF CallerPc, WorkerPc, Calling, Pc

LEMMA PhaseStep ==
    ASSUME RefInv, [Next]_vars PROVE PhaseTyped'
  <1>0. PhaseTyped
    BY DEF RefInv, TypeOK, PhaseTyped
  <1>1. ASSUME NEW t \in Callers, CallerActs(t) PROVE PhaseTyped'
    BY <1>0, <1>1, CallerMoves DEF PhaseTyped
  <1>2. ASSUME NEW p \in Procs, WorkerActs(p) PROVE PhaseTyped'
    BY <1>0, <1>2, WorkerMoves DEF PhaseTyped, RefInv, ThreadsFit
  <1>3. ASSUME NEW p \in Procs, ClaimFault(p) PROVE PhaseTyped'
    BY <1>0, <1>3 DEF ClaimFault, PhaseTyped
  <1>4. ASSUME NEW p \in Procs, LifeActs(p) PROVE PhaseTyped'
    BY <1>0, <1>4, LifeMoves DEF PhaseTyped
  <1>5. CASE UNCHANGED vars
    BY <1>0, <1>5 DEF vars, PhaseTyped
  <1>6. QED
    BY <1>1, <1>2, <1>3, <1>4, <1>5, Actors

PcKinds ==
    /\ pc \in [Threads -> Pc]
    /\ \A t \in Callers : pc[t] \in CallerPc
    /\ \A p \in Procs : pc[p] \in WorkerPc

LEMMA PcStep ==
    ASSUME RefInv, [Next]_vars
    PROVE  PcKinds'
  <1>0. PcKinds
    BY DEF RefInv, TypeOK, ThreadsFit, PcKinds
  <1>1. /\ Procs \cap Callers = {} /\ Threads = Procs \cup Callers
        /\ \A p \in Procs : Main[p] \in Callers /\ Home[Main[p]] = p
    BY OrchestrationAssumption DEF Threads
  <1>2. ASSUME NEW t \in Callers, NEW label \in CallerPc, pc' = [pc EXCEPT ![t] = label]
        PROVE  PcKinds'
    BY <1>0, <1>1, <1>2, PcSets DEF PcKinds
  <1>3. ASSUME NEW p \in Procs, NEW label \in WorkerPc, pc' = [pc EXCEPT ![p] = label]
        PROVE  PcKinds'
    BY <1>0, <1>1, <1>3, PcSets DEF PcKinds
  <1>4. CASE pc' = pc
    BY <1>0, <1>4 DEF PcKinds
  <1>5. ASSUME NEW t \in Callers, CallerActs(t) PROVE PcKinds'
    BY <1>2, <1>4, <1>5, CallerPcs
  <1>6. ASSUME NEW p \in Procs, WorkerActs(p) PROVE PcKinds'
    BY <1>3, <1>6, WorkerMoves DEF RefInv, ThreadsFit
  <1>7. ASSUME NEW p \in Procs, LifeActs(p) PROVE PcKinds'
    <2>1. Main[p] \in Callers /\ Home[Main[p]] = p /\ p \notin Callers /\ Main[p] # p
      BY <1>1
    <2>2. CASE Boot(p)
      BY <1>2, <2>1, <2>2 DEF Boot, Goto, CallerPc
    <2>3. CASE Close(p)
      BY <1>2, <2>1, <2>3 DEF Close, Goto, CallerPc
    <2>4. CASE Recover(p)
      <3>1. pc' = [pc EXCEPT ![Main[p]] = "list", ![p] = "poll"]
        BY <2>4 DEF Recover
      <3>2. "list" \in CallerPc /\ "poll" \in WorkerPc
        BY DEF CallerPc, WorkerPc
      <3>3. /\ DOMAIN pc' = Threads /\ pc'[Main[p]] = "list" /\ pc'[p] = "poll"
            /\ \A t \in Threads \ {p, Main[p]} : pc'[t] = pc[t]
        BY <1>0, <1>1, <2>1, <3>1 DEF PcKinds
      <3>4. pc' = [t \in Threads |-> pc'[t]]
        BY <1>0, <3>1 DEF PcKinds
      <3>5. QED
        BY <1>0, <1>1, <2>1, <3>2, <3>3, <3>4, PcSets DEF PcKinds
    <2>5. CASE Serve(p)
      BY <1>0, <1>1, <2>5, PcSets DEF Serve, PcKinds, CallerPc
    <2>6. CASE End(p)
      BY <1>0, <1>1, <2>6, PcSets DEF End, PcKinds, CallerPc, WorkerPc
    <2>7. QED
      BY <1>7, <2>2, <2>3, <2>4, <2>5, <2>6, LifeMoves
  <1>8. QED
    BY <1>4, <1>5, <1>6, <1>7, Actors DEF ClaimFault, vars

\* A worker takes a job, lets it go, or goes on with it.
LEMMA WorkerJobs ==
    ASSUME NEW p \in Procs, WorkerActs(p), RefInv
    PROVE  \/ Claim(p) /\ work'[p].job \in DOMAIN jobs /\ work'[p].job # NoJob
           \/ pc'[p] = "poll" /\ work' = [work EXCEPT ![p] = Idle]
           \/ /\ pc'[p] \notin {"down", "poll"} /\ work[p].job # NoJob
              /\ \E fields \in Work : /\ work' = [work EXCEPT ![p] = fields]
                                      /\ fields.job = work[p].job
  <1>1. /\ work \in [Procs -> Work] /\ p \in DOMAIN pc /\ DOMAIN jobs \subseteq Nat \ {0}
        /\ pc[p] \notin {"down", "poll"} <=> work[p].job # NoJob
    BY DEF RefInv, TypeOK, Threads, ThreadsFit, Busy
  <1>2. CASE Claim(p)
    <2>1. PICK v \in DOMAIN jobs :
             work' = [work EXCEPT ![p] = [Idle EXCEPT !.job = v,
                                             !.granted = jobs[v].approval = "granted"]]
      BY <1>2 DEF Claim, Remember
    <2>2. work'[p].job = v
      BY <1>1, <2>1 DEF Idle
    <2>3. QED
      BY <1>1, <1>2, <2>2 DEF NoJob
  <1>3. CASE Settle(p)
    BY <1>1, <1>3 DEF Settle, Goto, Remember
  <1>4. CASE WorkerFault(p)
    <2>1. \/ pc'[p] = "poll" /\ work' = [work EXCEPT ![p] = Idle]
          \/ pc'[p] \in {"failStep", "fail"} /\ work' = work /\ work[p].job # NoJob
      BY <1>1, <1>4 DEF WorkerFault, Goto, Remember
    <2>2. QED
      BY <1>1, <2>1
  <1>5. CASE /\ WorkerStep(p) /\ ~Claim(p) /\ ~Settle(p)
    <2>1. pc'[p] \notin {"down", "poll"}
      BY <1>1, <1>5 DEF WorkerStep, Check, ClaimRun, AskWait, Approve, Prepare,
         Reread, ListSteps, Pick, Deadlock, Start, Progress, Execute, StepFails, Commit, Complete,
         Stop, Goto, Onward
    <2>2. pc[p] \notin {"down", "poll"}
      BY <1>5 DEF WorkerStep, Check, ClaimRun, AskWait, Approve, Prepare,
         Reread, ListSteps, Pick, Deadlock, Start, Progress, Execute, StepFails, Commit, Complete, Stop
    <2>3. CASE work' = work
      BY <1>1, <2>1, <2>2, <2>3
    <2>4. CASE ClaimRun(p)
      <3> DEFINE f == [work[p] EXCEPT !.ask = run.high /\ ~run.approved]
      <3>1. f \in Work /\ f.job = work[p].job
        BY <1>1 DEF Work
      <3>2. work' = [work EXCEPT ![p] = f]
        BY <2>4 DEF ClaimRun, Remember
      <3>3. QED
        BY <1>1, <2>1, <2>2, <3>1, <3>2
    <2>5. CASE ListSteps(p)
      <3> DEFINE f == [work[p] EXCEPT !.open = Unfinished # {}, !.done = At("completed")]
      <3>1. At("completed") \subseteq Nat
        BY StepsSeq DEF At, RefInv, TypeOK
      <3>2. f \in Work /\ f.job = work[p].job
        BY <1>1, <3>1 DEF Work
      <3>3. work' = [work EXCEPT ![p] = f]
        BY <2>5 DEF ListSteps, Remember
      <3>4. QED
        BY <1>1, <2>1, <2>2, <3>2, <3>3
    <2>6. CASE Pick(p)
      <3> DEFINE next == {i \in At("pending") : Ready(i)}
                 f == [work[p] EXCEPT !.step = MinOf(next)]
      <3>1. next \subseteq Nat
        BY StepsSeq DEF At, RefInv, TypeOK
      <3>2. next # {} => f \in Work /\ f.job = work[p].job
        <4>1. next # {} => MinOf(next) \in Nat
          BY <3>1, Least
        <4>2. QED
          BY <1>1, <4>1 DEF Work
      <3>3. work' = work \/ (next # {} /\ work' = [work EXCEPT ![p] = f])
        BY <2>6 DEF Pick, Remember
      <3>4. QED
        BY <1>1, <2>1, <2>2, <2>3, <3>2, <3>3
    <2>7. QED
      BY <1>5, <2>3, <2>4, <2>5, <2>6 DEF WorkerStep, Check, AskWait, Approve, Prepare,
         Reread, Deadlock, Start, Progress, Execute, StepFails, Commit, Complete, Stop
  <1>6. QED
    BY <1>2, <1>3, <1>4, <1>5 DEF WorkerActs

LEMMA ThreadsStep ==
    ASSUME RefInv, [Next]_vars
    PROVE  ThreadsFit'
  <1>0. /\ Procs \cap Callers = {} /\ Threads = Procs \cup Callers
        /\ \A p \in Procs : Main[p] \in Callers /\ Home[Main[p]] = p
        /\ \A p, q \in Procs : Main[p] = Main[q] => p = q
        /\ pc \in [Threads -> Pc] /\ work \in [Procs -> Work]
    BY OrchestrationAssumption DEF Threads, RefInv, TypeOK
  <1>1. PcKinds' /\ PhaseTyped
    BY PcStep DEF RefInv, TypeOK, PhaseTyped
  <1> DEFINE Fit(p) == /\ Busy(p) <=> work[p].job # NoJob
                       /\ phase[p] \in {"down", "starting"} => pc[p] = "down"
                       /\ pc[Main[p]] = "recover" => phase[p] = "starting"
  <1>2. SUFFICES ASSUME NEW p \in Procs PROVE Fit(p)'
    BY <1>1 DEF ThreadsFit, PcKinds
  <1>3. Fit(p)
    BY DEF RefInv, ThreadsFit
  <1>4. ASSUME UNCHANGED <<pc[p], pc[Main[p]], work[p], phase[p]>> PROVE Fit(p)'
    BY <1>3, <1>4 DEF Busy
  <1>5. ASSUME NEW t \in Callers, CallerActs(t) PROVE Fit(p)'
    <2>1. /\ UNCHANGED <<phase, work>> /\ pc'[p] = pc[p]
          /\ \A u \in Callers \ {t} : pc'[u] = pc[u]
          /\ pc'[t] = "recover" => pc' = pc \/ phase[Home[t]] = "starting"
      BY <1>0, <1>5, CallerMoves, CallerPcs
    <2>2. CASE t # Main[p]
      BY <1>0, <1>4, <2>1, <2>2
    <2>3. CASE t = Main[p]
      BY <1>0, <1>3, <2>1, <2>3 DEF Busy
    <2>4. QED
      BY <2>2, <2>3
  <1>6. ASSUME NEW q \in Procs, WorkerActs(q) PROVE Fit(p)'
    <2>1. /\ UNCHANGED phase /\ pc'[Main[p]] = pc[Main[p]]
          /\ \A r \in Procs \ {q} : pc'[r] = pc[r] /\ work'[r] = work[r]
          /\ pc[q] # "down" /\ pc'[q] # "down"
      BY <1>0, <1>6, WorkerMoves DEF RefInv, ThreadsFit
    <2>2. CASE q # p
      BY <1>4, <2>1, <2>2
    <2>3. CASE q = p
      <3>1. Busy(p)' <=> work'[p].job # NoJob
        <4>1. CASE Claim(p) /\ work'[p].job \in DOMAIN jobs /\ work'[p].job # NoJob
          BY <1>0, <4>1 DEF Claim, Goto, Busy
        <4>2. CASE pc'[p] = "poll" /\ work' = [work EXCEPT ![p] = Idle]
          BY <1>0, <4>2 DEF Busy, Idle
        <4>3. ASSUME pc'[p] \notin {"down", "poll"}, work[p].job # NoJob,
                     NEW fields \in Work, work' = [work EXCEPT ![p] = fields],
                     fields.job = work[p].job
              PROVE  Busy(p)' <=> work'[p].job # NoJob
          BY <1>0, <4>3 DEF Busy
        <4>4. QED
          BY <1>6, <2>3, <4>1, <4>2, <4>3, WorkerJobs
      <3>2. QED
        BY <1>3, <2>1, <2>3, <3>1
    <2>4. QED
      BY <2>2, <2>3
  <1>7. ASSUME NEW q \in Procs, ClaimFault(q) PROVE Fit(p)'
    BY <1>4, <1>7 DEF ClaimFault
  <1>8. ASSUME NEW q \in Procs, LifeActs(q) PROVE Fit(p)'
    <2>1. /\ p \notin Callers /\ q \notin Callers /\ Main[p] # q /\ Main[q] # p /\ Main[p] \in Callers
          /\ p \in Threads /\ Main[p] \in Threads /\ (p # q => Main[p] # Main[q])
          /\ Home[Main[p]] = p
      BY <1>0
    <2>2. CASE Boot(q)
      BY <1>0, <1>1, <1>3, <2>1, <2>2 DEF Boot, Goto, Busy, PhaseTyped, tables, bounds
    <2>3. CASE Close(q)
      BY <1>0, <1>1, <1>3, <2>1, <2>3 DEF Close, Goto, Busy, PhaseTyped, tables, bounds
    <2>4. CASE Recover(q)
      <3>1. /\ pc' = [pc EXCEPT ![Main[q]] = "list", ![q] = "poll"] /\ work' = work
            /\ phase' = [phase EXCEPT ![q] = "serving"] /\ pc[Main[q]] = "recover"
        BY <2>4 DEF Recover
      <3>2. CASE p # q
        BY <1>0, <1>1, <1>4, <2>1, <3>1, <3>2 DEF PhaseTyped
      <3>3. CASE p = q
        <4>1. pc[p] = "down"
          BY <1>3, <3>1, <3>3
        <4>2. pc'[p] = "poll" /\ pc'[Main[p]] = "list" /\ phase'[p] = "serving"
          BY <1>0, <1>1, <2>1, <3>1, <3>3 DEF PhaseTyped
        <4>3. QED
          BY <1>3, <3>1, <4>1, <4>2 DEF Busy
      <3>4. QED
        BY <3>2, <3>3
    <2>5. CASE Serve(q)
      <3>1. /\ pc'[p] = pc[p] /\ work' = work
            /\ pc'[Main[p]] = IF p = q THEN "idle" ELSE pc[Main[p]]
            /\ phase' = [phase EXCEPT ![q] = "running"]
        BY <1>0, <2>1, <2>5 DEF Serve, HomeOf
      <3>2. QED
        BY <1>1, <1>3, <3>1 DEF Busy, PhaseTyped
    <2>6. CASE End(q)
      <3>1. CASE p # q
        <4>1. UNCHANGED <<pc[p], pc[Main[p]], work[p], phase[p]>>
          BY <1>0, <1>1, <2>1, <2>6, <3>1 DEF End, HomeOf, Remember, PhaseTyped
        <4>2. QED
          BY <1>4, <4>1
      <3>2. CASE p = q
        <4>1. /\ pc'[p] = "down" /\ pc'[Main[p]] = "down" /\ work'[p] = Idle
          BY <1>0, <1>1, <2>1, <2>6, <3>2 DEF End, HomeOf, Remember
        <4>2. QED
          BY <4>1 DEF Busy, Idle
      <3>3. QED
        BY <3>1, <3>2
    <2>7. QED
      BY <1>8, <2>2, <2>3, <2>4, <2>5, <2>6, LifeMoves
  <1>9. CASE UNCHANGED vars
    BY <1>4, <1>9 DEF vars
  <1>10. QED
    BY <1>5, <1>6, <1>7, <1>8, <1>9, Actors

-----------------------------------------------------------------------------
(* Types: the jobs. *)

\* Rows are added and never removed; what is counted is not taken back, and
\* a job that has ended stays as it ended.
JobsGrow ==
    /\ DOMAIN jobs \subseteq DOMAIN jobs'
    /\ \A v \in DOMAIN jobs :
          /\ jobs[v].starts <= jobs'[v].starts
          /\ jobs[v].grants <= jobs'[v].grants
          /\ jobs[v].status \in J!Terminal => jobs'[v].status = jobs[v].status

\* Where the rows come from: only _ensure_job adds one.
JobsFrom ==
    \A v \in DOMAIN jobs' \ DOMAIN jobs :
        \E t \in Callers : Enqueue(t) /\ v = seen[t].rev

LEMMA JobsSame ==
    ASSUME JobsPaid, UNCHANGED jobs
    PROVE  JobsPaid' /\ JobsGrow /\ JobsFrom
  <1>1. \A v \in DOMAIN jobs : jobs[v].starts \in Nat /\ jobs[v].grants \in Nat
    BY RowNats DEF JobsPaid, Paid
  <1>2. QED
    BY <1>1 DEF JobsPaid, JobsGrow, JobsFrom

\* One row is rewritten.
LEMMA RowMoved ==
    ASSUME JobsPaid, NEW v \in DOMAIN jobs, NEW row, Put(v, row),
           Paid(row), jobs[v].starts <= row.starts, jobs[v].grants <= row.grants,
           jobs[v].status \in J!Terminal => row.status = jobs[v].status
    PROVE  JobsPaid' /\ JobsGrow /\ JobsFrom
  <1>1. /\ DOMAIN jobs' = DOMAIN jobs /\ jobs'[v] = row
        /\ \A i \in DOMAIN jobs \ {v} : jobs'[i] = jobs[i]
    BY PutFacts
  <1>2. \A i \in DOMAIN jobs : jobs[i].starts \in Nat /\ jobs[i].grants \in Nat
    BY RowNats DEF JobsPaid, Paid
  <1>3. QED
    BY <1>1, <1>2 DEF JobsPaid, JobsGrow, JobsFrom

LEMMA RowRewritten ==
    ASSUME JobsPaid, NEW v \in DOMAIN jobs, NEW row, Put(v, row), NEW b \in BOOLEAN,
           row \in {J!RequestCancel(jobs[v]), J!ResolveApproval(jobs[v], b),
                    J!Recover(jobs[v], FALSE), J!Complete(jobs[v]),
                    J!WaitForApproval(jobs[v]), J!MarkCancelled(jobs[v]),
                    J!Fail(jobs[v], FALSE)}
    PROVE  JobsPaid' /\ JobsGrow /\ JobsFrom
  <1>1. Paid(jobs[v]) /\ jobs[v].starts \in Nat /\ jobs[v].grants \in Nat
    BY RowNats DEF JobsPaid, Paid
  <1>2. /\ Paid(row) /\ row.starts = jobs[v].starts /\ row.grants >= jobs[v].grants
        /\ jobs[v].status \in J!Terminal => row.status = jobs[v].status
    <2> DEFINE r == jobs[v]
    <2>1. /\ Paid(r)
          /\ row \in {J!RequestCancel(r), J!ResolveApproval(r, b), J!Recover(r, FALSE),
                     J!Complete(r), J!WaitForApproval(r), J!MarkCancelled(r), J!Fail(r, FALSE)}
      BY <1>1
    <2> HIDE DEF r
    <2>2. /\ Paid(row) /\ row.starts = r.starts /\ row.grants >= r.grants
          /\ r.status \in J!Terminal => row.status = r.status
      <3>1. CASE row = J!ResolveApproval(r, b)
        BY <2>1, <3>1, RowPaid
      <3>2. CASE row = J!RequestCancel(r)
        BY <2>1, <3>2, RowPaid
      <3>3. CASE row = J!Recover(r, FALSE)
        BY <2>1, <3>3, RowPaid
      <3>4. CASE row = J!Complete(r)
        BY <2>1, <3>4, RowPaid
      <3>5. CASE row = J!WaitForApproval(r)
        BY <2>1, <3>5, RowPaid
      <3>6. CASE row = J!MarkCancelled(r)
        BY <2>1, <3>6, RowPaid
      <3>7. CASE row = J!Fail(r, FALSE)
        BY <2>1, <3>7, RowPaid
      <3>8. QED
        BY <2>1, <3>1, <3>2, <3>3, <3>4, <3>5, <3>6, <3>7
    <2>3. QED
      BY <2>2 DEF r
  <1>3. row.grants \in Nat
    BY <1>2, RowNats DEF Paid
  <1>4. QED
    BY <1>1, <1>2, <1>3, RowMoved

LEMMA RowTaken ==
    ASSUME JobsPaid, NEW v \in DOMAIN jobs, J!Claimable(jobs[v]), Put(v, J!Claim(jobs[v]))
    PROVE  JobsPaid' /\ JobsGrow /\ JobsFrom
  <1>1. Paid(jobs[v]) /\ jobs[v].starts \in Nat /\ jobs[v].grants \in Nat
    BY RowNats DEF JobsPaid, Paid
  <1>2. jobs[v].status \notin J!Terminal
    BY DEF J!Claimable, J!Terminal
  <1>3. QED
    BY <1>1, <1>2, RowClaimed, RowMoved

LEMMA JobsStep ==
    ASSUME RefInv, [Next]_vars
    PROVE  JobsPaid' /\ JobsGrow /\ JobsFrom
  <1> DEFINE Out == JobsPaid' /\ JobsGrow /\ JobsFrom
  <1>0. JobsPaid /\ DOMAIN jobs \subseteq Nat \ {0}
    BY DEF RefInv, TypeOK
  <1>1. ASSUME jobs' = jobs PROVE Out
    BY <1>0, <1>1, JobsSame
  <1>2. ASSUME NEW t \in Callers, CallerActs(t) PROVE Out
    <2>1. pc[t] \in LinkedPc => seen[t].job \in DOMAIN jobs
      BY DEF RefInv, CopiesFit
    <2>2. CASE jobs' = jobs
      BY <1>1, <2>2
    <2>3. CASE Enqueue(t) /\ jobs' # jobs
      <3> DEFINE v == seen[t].rev
                 row == J!NewRow("run", v, Attempts, TRUE)
      <3>1. v \notin DOMAIN jobs /\ Put(v, row)
        BY <2>3 DEF Enqueue
      <3>2. seen[t] \in Copy
        BY <2>3 DEF RefInv, CopiesFit, Enqueue, Calling
      <3>3. v \in Nat \ {0}
        BY <3>2 DEF Copy
      <3>4. Paid(row)
        BY <3>3, RowNew
      <3>5. /\ DOMAIN jobs' = DOMAIN jobs \cup {v} /\ jobs'[v] = row
            /\ \A i \in DOMAIN jobs \ {v} : jobs'[i] = jobs[i]
        BY <3>1, PutFacts
      <3>6. \A i \in DOMAIN jobs : jobs[i].starts \in Nat /\ jobs[i].grants \in Nat
        BY <1>0, RowNats DEF JobsPaid, Paid
      <3> HIDE DEF v, row
      <3>7. JobsPaid' /\ JobsGrow
        BY <1>0, <3>1, <3>4, <3>5, <3>6 DEF JobsPaid, JobsGrow
      <3>8. JobsFrom
        BY <2>3, <3>5 DEF JobsFrom, v
      <3>9. QED
        BY <3>7, <3>8
    <2>4. CASE CancelItsJob(t)
      <3>1. seen[t].job \in DOMAIN jobs
        BY <2>1, <2>4 DEF CancelItsJob, LinkedPc
      <3>2. QED
        BY <1>0, <2>4, <3>1, RowRewritten DEF CancelItsJob
    <2>5. CASE Answer(t)
      <3>1. seen[t].job \in DOMAIN jobs
        BY <2>1, <2>5 DEF Answer, LinkedPc
      <3>2. QED
        BY <1>0, <2>5, <3>1, RowRewritten DEF Answer
    <2>6. ASSUME NEW v \in DOMAIN jobs, CancelJob(t, v) PROVE Out
      BY <1>0, <2>6, RowRewritten DEF CancelJob
    <2>7. ASSUME NEW v \in DOMAIN jobs, ResolveJob(t, v) PROVE Out
      BY <1>0, <2>7, RowRewritten DEF ResolveJob
    <2>8. QED
      BY <1>2, <2>2, <2>3, <2>4, <2>5, <2>6, <2>7
         DEF CallerActs, CallerCalls, Create, CreateAgain, CancelRun, Resolve, Resume, ThreadStep,
             CallerStep, Link, NoteWaiting, NoteFailed, Withdraw, List, Look, EnqueueRefused,
             CallFault, CallerRaises, tables
  <1>3. ASSUME NEW p \in Procs, WorkerActs(p) PROVE Out
    <2>1. CASE jobs' = jobs
      BY <1>1, <2>1
    <2>2. CASE Claim(p)
      BY <1>0, <2>2, RowTaken DEF Claim
    <2>3. CASE Settle(p)
      <3>1. work[p].job # NoJob
        BY <2>3 DEF Settle, RefInv, ThreadsFit, Busy
      <3>2. work[p].job \in DOMAIN jobs
        BY <3>1 DEF RefInv, WorkFits
      <3>3. Settlement(p) \in {J!Complete(jobs[work[p].job]), J!WaitForApproval(jobs[work[p].job]),
                               J!MarkCancelled(jobs[work[p].job]), J!Fail(jobs[work[p].job], FALSE)}
        BY <2>3 DEF Settle, Settlement, Held
      <3>4. QED
        BY <1>0, <2>3, <3>2, <3>3, RowRewritten DEF Settle
    <2>4. QED
      BY <1>3, <2>1, <2>2, <2>3
         DEF WorkerActs, WorkerStep, WorkerFault, Check, ClaimRun, AskWait, Approve, Prepare, Reread,
             ListSteps, Pick, Deadlock, Start, Progress, Execute, StepFails, Commit, Complete, Stop,
             tables
  <1>4. ASSUME NEW p \in Procs, ClaimFault(p) PROVE Out
    BY <1>0, <1>4, RowTaken DEF ClaimFault
  <1>5. ASSUME NEW p \in Procs, LifeActs(p) PROVE Out
    <2>1. CASE jobs' = jobs
      BY <1>1, <2>1
    <2>2. CASE Recover(p)
      <3>1. /\ DOMAIN jobs' = DOMAIN jobs
            /\ \A v \in DOMAIN jobs : jobs'[v] \in {jobs[v], J!Recover(jobs[v], FALSE)}
        BY <2>2 DEF Recover
      <3>2. \A v \in DOMAIN jobs : Paid(jobs[v]) /\ jobs[v].starts \in Nat /\ jobs[v].grants \in Nat
        BY <1>0, RowNats DEF JobsPaid, Paid
      <3>3. ASSUME NEW v \in DOMAIN jobs
            PROVE  /\ Paid(jobs'[v]) /\ jobs[v].starts <= jobs'[v].starts
                   /\ jobs[v].grants <= jobs'[v].grants
                   /\ jobs[v].status \in J!Terminal => jobs'[v].status = jobs[v].status
        <4>1. CASE jobs'[v] = jobs[v]
          BY <3>2, <4>1
        <4>2. CASE jobs'[v] = J!Recover(jobs[v], FALSE)
          <5>1. /\ Paid(jobs'[v]) /\ jobs'[v].starts = jobs[v].starts
                /\ jobs'[v].grants >= jobs[v].grants
                /\ jobs[v].status \in J!Terminal => jobs'[v].status = jobs[v].status
            BY <3>2, <4>2, RowPaid
          <5>2. jobs'[v].grants \in Nat
            BY <5>1, RowNats DEF Paid
          <5>3. QED
            BY <3>2, <5>1, <5>2
        <4>3. QED
          BY <3>1, <4>1, <4>2
      <3>4. QED
        BY <3>1, <3>3 DEF JobsPaid, JobsGrow, JobsFrom
    <2>3. QED
      BY <1>5, <2>1, <2>2, LifeMoves
  <1>6. CASE UNCHANGED vars
    BY <1>1, <1>6 DEF vars, tables
  <1>7. QED
    BY <1>2, <1>3, <1>4, <1>5, <1>6, Actors

-----------------------------------------------------------------------------
(* What the transactions on the run and its steps do, field by field. *)

\* The steps are those they were, up to their statuses.
SameSteps ==
    /\ steps' \in Seq(Step) /\ DOMAIN steps' = DOMAIN steps
    /\ \A i \in DOMAIN steps : /\ steps'[i].attempts = steps[i].attempts
                               /\ steps'[i].input = steps[i].input
                               /\ steps'[i].marker = steps[i].marker

Revised == run'.rev = run.rev /\ run'.kind = run.kind /\ run'.high = run.high

\* The run is what it was, up to its status and what the two names say.
SameRun ==
    /\ run' \in Run /\ Revised
    /\ run'.approved = run.approved /\ run'.done = run.done

LEMMA RunSet ==
    ASSUME run \in Run, NEW s \in RunStatus, SetRun(s)
    PROVE  /\ SameRun /\ run'.status = s /\ run'.job = run.job
           /\ run'.stopped = run.stopped /\ run'.result = run.result
  BY DEF SetRun, Run, SameRun, Revised

LEMMA StepsMarked ==
    ASSUME steps \in Seq(Step), NEW S, NEW s \in StepStatus, steps' = Marked(S, s)
    PROVE  /\ SameSteps
           /\ \A i \in DOMAIN steps :
                 steps'[i].status = IF i \in S THEN s ELSE steps[i].status
  <1>1. /\ Len(steps) \in Nat /\ DOMAIN steps = 1 .. Len(steps)
        /\ \A i \in DOMAIN steps : steps[i] \in Step
    BY StepsSeq
  <1>2. /\ DOMAIN steps' = DOMAIN steps
        /\ \A i \in DOMAIN steps : steps'[i] = IF i \in S THEN [steps[i] EXCEPT !.status = s] ELSE steps[i]
        /\ steps' = [i \in DOMAIN steps |-> steps'[i]]
    BY DEF Marked
  <1>3. \A i \in DOMAIN steps :
           /\ steps'[i] \in Step /\ steps'[i].attempts = steps[i].attempts
           /\ steps'[i].input = steps[i].input /\ steps'[i].marker = steps[i].marker
           /\ steps'[i].status = IF i \in S THEN s ELSE steps[i].status
    BY <1>1, <1>2 DEF Step
  <1>4. steps' \in Seq(Step)
    BY <1>1, <1>2, <1>3, SeqSteps
  <1>5. QED
    BY <1>2, <1>3, <1>4 DEF SameSteps

LEMMA StepsUntouched ==
    ASSUME steps \in Seq(Step), UNCHANGED steps
    PROVE  SameSteps
  BY DEF SameSteps

LEMMA StatusNames ==
    /\ {"queued", "running", "waiting_approval", "completed", "failed", "cancelled"} = RunStatus
    /\ {"pending", "running", "completed", "failed", "cancelled", "skipped"} = StepStatus
    /\ {"completed", "failed", "cancelled"} = RunTerminal
  BY DEF RunStatus, RunTerminal, StepStatus

\* claim_job, mark_waiting_approval.
LEMMA Linking ==
    ASSUME run \in Run, NEW v \in Nat, ClaimJob(v) \/ MarkWaiting(v)
    PROVE  /\ SameRun /\ run'.stopped = run.stopped /\ run'.result = run.result
           /\ \/ run' = run
              \/ /\ Claims(v) /\ run'.job = v
                 /\ run'.status \in {run.status, "waiting_approval"}
  BY StatusNames, ZenonT(30) DEF ClaimJob, MarkWaiting, Run, SameRun, Revised

LEMMA Approving ==
    ASSUME run \in Run, NEW v \in Nat, MarkApproved(v)
    PROVE  /\ run' \in Run /\ Revised /\ run'.done = run.done /\ run'.job = run.job
           /\ run'.stopped = run.stopped /\ run'.result = run.result
           /\ \/ run' = run
              \/ Owns(v) /\ run'.status = "running" /\ run'.approved
  BY StatusNames, ZenonT(30) DEF MarkApproved, Run, Revised

LEMMA Preparing ==
    ASSUME run \in Run, steps \in Seq(Step), NEW v, PrepareResume(v)
    PROVE  /\ SameRun /\ SameSteps /\ run'.job = run.job
           /\ run'.stopped = run.stopped /\ run'.result = run.result
           /\ \/ ~Owns(v) /\ UNCHANGED <<run, steps>>
              \/ /\ Prepares(v) /\ run'.status = "running"
                 /\ \A i \in DOMAIN steps :
                       steps'[i].status = IF i \in At("running") THEN "pending" ELSE steps[i].status
              \/ /\ Owns(v) /\ ~Prepares(v) /\ run'.status = "failed"
                 /\ \A i \in DOMAIN steps :
                       steps'[i].status = IF i \in At("running") /\ Spent(i) THEN "failed"
                                          ELSE steps[i].status
  <1>1. CASE ~Owns(v)
    BY <1>1, StepsUntouched DEF PrepareResume, Same, SameRun, Revised
  <1>2. CASE Owns(v) /\ Prepares(v)
    BY <1>2, StepsMarked, RunSet, StatusNames DEF PrepareResume
  <1>3. CASE Owns(v) /\ ~Prepares(v)
    <2>1. steps' = Marked({i \in At("running") : Spent(i)}, "failed") /\ SetRun("failed")
      BY <1>3 DEF PrepareResume
    <2>2. QED
      BY <1>3, <2>1, StepsMarked, RunSet, StatusNames
  <1>4. QED
    BY <1>1, <1>2, <1>3

LEMMA Starting ==
    ASSUME run \in Run, steps \in Seq(Step), NEW i \in DOMAIN steps, NEW input \in SUBSET Nat,
           StartStep(i, input)
    PROVE  /\ SameRun /\ run'.job = run.job
           /\ run'.stopped = run.stopped /\ run'.result = run.result
           /\ steps' \in Seq(Step) /\ DOMAIN steps' = DOMAIN steps
           /\ \A j \in DOMAIN steps \ {i} : steps'[j] = steps[j]
           /\ steps'[i].marker = steps[i].marker
           /\ \/ UNCHANGED <<run, steps>> /\ ~Starts(i)
              \/ /\ Starts(i) /\ run'.status = "running" /\ steps'[i].status = "running"
                 /\ steps'[i].input = input /\ steps'[i].attempts = steps[i].attempts + 1
              \/ /\ ~Starts(i) /\ ~Ended /\ steps[i].status = "pending"
                 /\ run'.status = "failed" /\ steps'[i].status = "failed"
                 /\ steps'[i].input = steps[i].input /\ steps'[i].attempts = steps[i].attempts
  <1>1. /\ Len(steps) \in Nat /\ DOMAIN steps = 1 .. Len(steps)
        /\ \A j \in DOMAIN steps : steps[j] \in Step
    BY StepsSeq
  <1>2. CASE Starts(i)
    <2>1. /\ steps' = [steps EXCEPT ![i].status = "running", ![i].input = input,
                                    ![i].attempts = @ + 1]
          /\ SetRun("running")
      BY <1>2 DEF StartStep
    <2>2. /\ DOMAIN steps' = DOMAIN steps
          /\ \A j \in DOMAIN steps \ {i} : steps'[j] = steps[j]
          /\ steps' = [j \in DOMAIN steps |-> steps'[j]]
      BY <2>1
    <2>3. /\ steps'[i] \in Step /\ steps'[i].status = "running" /\ steps'[i].input = input
          /\ steps'[i].attempts = steps[i].attempts + 1 /\ steps'[i].marker = steps[i].marker
      <3>1. steps[i] \in Step /\ steps[i].attempts + 1 \in Nat
        BY <1>1 DEF Step
      <3>2. steps'[i] = [steps[i] EXCEPT !.status = "running", !.input = input, !.attempts = @ + 1]
        BY <2>1
      <3> DEFINE n == steps[i].attempts + 1
      <3>3. steps'[i] = [steps[i] EXCEPT !.status = "running", !.input = input, !.attempts = n]
        BY <3>1, <3>2 DEF Step
      <3> HIDE DEF n
      <3>4. /\ steps'[i] \in Step /\ steps'[i].status = "running" /\ steps'[i].input = input
            /\ steps'[i].attempts = n /\ steps'[i].marker = steps[i].marker
        <4>1. n \in Nat
          BY <3>1 DEF n
        <4>2. QED
          BY <3>1, <3>3, <4>1, StatusNames DEF Step
      <3>5. QED
        BY <3>4 DEF n
    <2>4. steps' \in Seq(Step)
      BY <1>1, <2>2, <2>3, SeqSteps
    <2>5. QED
      BY <1>2, <2>1, <2>2, <2>3, <2>4, RunSet, StatusNames
  <1>3. CASE ~Starts(i) /\ ~Ended /\ steps[i].status = "pending" /\ Spent(i)
    <2>1. steps' = Marked({i}, "failed") /\ SetRun("failed")
      BY <1>3 DEF StartStep
    <2>2. \A j \in DOMAIN steps \ {i} : steps'[j] = steps[j]
      BY <2>1 DEF Marked
    <2>3. /\ SameSteps
          /\ \A j \in DOMAIN steps : steps'[j].status = IF j \in {i} THEN "failed" ELSE steps[j].status
      BY <2>1, StepsMarked, StatusNames
    <2>4. steps'[i].status = "failed"
      BY <2>3
    <2>5. QED
      BY <1>3, <2>1, <2>2, <2>3, <2>4, RunSet, StatusNames DEF SameSteps
  <1>4. CASE ~Starts(i) /\ UNCHANGED <<run, steps>>
    BY <1>4 DEF SameRun, Revised
  <1>5. QED
    BY <1>2, <1>3, <1>4 DEF StartStep, Same

LEMMA Completing ==
    ASSUME run \in Run, steps \in Seq(Step), NEW i \in DOMAIN steps, NEW marker \in BOOLEAN,
           CompleteStep(i, marker), steps[i].status = "running"
    PROVE  /\ run' \in Run /\ Revised /\ run'.status = run.status /\ run'.job = run.job
           /\ run'.stopped = run.stopped /\ run'.result = run.result
           /\ run'.approved = run.approved /\ run'.done = run.done + 1
           /\ steps' \in Seq(Step) /\ DOMAIN steps' = DOMAIN steps
           /\ \A j \in DOMAIN steps \ {i} : steps'[j] = steps[j]
           /\ steps'[i].status = "completed" /\ steps'[i].marker = marker
           /\ steps'[i].input = steps[i].input /\ steps'[i].attempts = steps[i].attempts
  <1>1. /\ Len(steps) \in Nat /\ DOMAIN steps = 1 .. Len(steps)
        /\ \A j \in DOMAIN steps : steps[j] \in Step
    BY StepsSeq
  <1>2. /\ steps' = [steps EXCEPT ![i].status = "completed", ![i].marker = marker]
        /\ run' = [run EXCEPT !.done = @ + 1]
    BY DEF CompleteStep
  <1>3. /\ DOMAIN steps' = DOMAIN steps
        /\ \A j \in DOMAIN steps \ {i} : steps'[j] = steps[j]
        /\ steps' = [j \in DOMAIN steps |-> steps'[j]]
    BY <1>2
  <1>4. steps'[i] = [steps[i] EXCEPT !.status = "completed", !.marker = marker]
    BY <1>2
  <1>5. /\ steps'[i] \in Step /\ steps'[i].status = "completed" /\ steps'[i].marker = marker
        /\ steps'[i].input = steps[i].input /\ steps'[i].attempts = steps[i].attempts
    BY <1>1, <1>4, StatusNames DEF Step
  <1>6. steps' \in Seq(Step)
    BY <1>1, <1>3, <1>5, SeqSteps
  <1>7. /\ run' \in Run /\ Revised /\ run'.status = run.status /\ run'.job = run.job
        /\ run'.stopped = run.stopped /\ run'.result = run.result
        /\ run'.approved = run.approved /\ run'.done = run.done + 1
    <2>1. run.done + 1 \in Nat
      BY DEF Run
    <2>2. QED
      BY <1>2, <2>1 DEF Run, Revised
  <1>8. QED
    BY <1>3, <1>5, <1>6, <1>7

LEMMA Failing ==
    ASSUME run \in Run, steps \in Seq(Step), NEW i, FailStep(i)
    PROVE  /\ SameRun /\ SameSteps /\ run'.status = "failed" /\ run'.job = run.job
           /\ run'.stopped = run.stopped /\ run'.result = run.result
           /\ \A j \in DOMAIN steps :
                 steps'[j].status = IF j = i /\ steps[j].status = "running" THEN "failed"
                                    ELSE IF steps[j].status = "pending" THEN "skipped"
                                    ELSE steps[j].status
  <1>1. /\ Len(steps) \in Nat /\ DOMAIN steps = 1 .. Len(steps)
        /\ \A j \in DOMAIN steps : steps[j] \in Step
    BY StepsSeq
  <1>2. /\ DOMAIN steps' = DOMAIN steps
        /\ \A j \in DOMAIN steps :
              steps'[j] = IF j = i /\ steps[j].status = "running"
                          THEN [steps[j] EXCEPT !.status = "failed"]
                          ELSE IF steps[j].status = "pending"
                          THEN [steps[j] EXCEPT !.status = "skipped"]
                          ELSE steps[j]
        /\ steps' = [j \in DOMAIN steps |-> steps'[j]]
    BY DEF FailStep
  <1>3. \A j \in DOMAIN steps :
           /\ steps'[j] \in Step /\ steps'[j].attempts = steps[j].attempts
           /\ steps'[j].input = steps[j].input /\ steps'[j].marker = steps[j].marker
           /\ steps'[j].status = IF j = i /\ steps[j].status = "running" THEN "failed"
                                 ELSE IF steps[j].status = "pending" THEN "skipped"
                                 ELSE steps[j].status
    BY <1>1, <1>2, StatusNames DEF Step
  <1>4. steps' \in Seq(Step)
    BY <1>1, <1>2, <1>3, SeqSteps
  <1>5. SetRun("failed")
    BY DEF FailStep
  <1>6. QED
    BY <1>2, <1>3, <1>4, <1>5, RunSet, StatusNames DEF SameSteps

LEMMA Finishing ==
    ASSUME run \in Run, steps \in Seq(Step), NEW result \in SUBSET Nat, NEW skip \in BOOLEAN,
           CompleteRun(result, skip)
    PROVE  /\ SameRun /\ SameSteps /\ run'.job = run.job /\ run'.stopped = run.stopped
           /\ \/ Ended /\ UNCHANGED <<run, steps>>
              \/ /\ ~Ended /\ run'.status = "completed" /\ run'.result = result
                 /\ \A i \in DOMAIN steps :
                       steps'[i].status = IF skip /\ i \in At("pending") THEN "skipped"
                                          ELSE steps[i].status
  <1>1. CASE Ended
    BY <1>1, StepsUntouched DEF CompleteRun, Same, SameRun, Revised
  <1>2. CASE ~Ended
    <2>1. run' = [run EXCEPT !.status = "completed", !.result = result]
      BY <1>2 DEF CompleteRun
    <2>2. /\ SameRun /\ run'.job = run.job /\ run'.stopped = run.stopped
          /\ run'.status = "completed" /\ run'.result = result
      BY <2>1, StatusNames DEF Run, SameRun, Revised
    <2>3. CASE skip
      BY <1>2, <2>2, <2>3, StepsMarked, StatusNames DEF CompleteRun
    <2>4. CASE ~skip
      <3>1. steps' = steps
        BY <1>2, <2>4 DEF CompleteRun
      <3>2. QED
        BY <1>2, <2>2, <2>4, <3>1, StepsUntouched
    <2>5. QED
      BY <2>3, <2>4
  <1>3. QED
    BY <1>1, <1>2

LEMMA Cancelling ==
    ASSUME run \in Run, steps \in Seq(Step), Cancel
    PROVE  /\ SameRun /\ SameSteps /\ run'.job = run.job /\ run'.result = run.result
           /\ \/ Ended /\ UNCHANGED <<run, steps>>
              \/ /\ ~Ended /\ run'.status = "cancelled" /\ run'.stopped
                 /\ \A i \in DOMAIN steps :
                       steps'[i].status = IF i \in Unfinished THEN "cancelled"
                                          ELSE steps[i].status
  <1>1. CASE Ended
    BY <1>1, StepsUntouched DEF Cancel, Same, SameRun, Revised
  <1>2. CASE ~Ended
    <2>1. run' = [run EXCEPT !.status = "cancelled", !.stopped = TRUE]
      BY <1>2 DEF Cancel
    <2>2. /\ SameRun /\ run'.job = run.job /\ run'.stopped /\ run'.result = run.result
          /\ run'.status = "cancelled"
      BY <2>1, StatusNames DEF Run, SameRun, Revised
    <2>3. QED
      BY <1>2, <2>2, StepsMarked, StatusNames DEF Cancel
  <1>3. QED
    BY <1>1, <1>2

LEMMA MarkingFailed ==
    ASSUME run \in Run, steps \in Seq(Step), MarkFailed
    PROVE  /\ SameRun /\ SameSteps /\ run'.job = run.job
           /\ run'.stopped = run.stopped /\ run'.result = run.result
           /\ \/ Ended /\ UNCHANGED <<run, steps>>
              \/ /\ ~Ended /\ run'.status = "failed"
                 /\ \A i \in DOMAIN steps :
                       steps'[i].status = IF i \notin Unfinished THEN steps[i].status
                                          ELSE IF i = MinOf(Unfinished) THEN "failed" ELSE "skipped"
  <1>1. CASE Ended
    BY <1>1, StepsUntouched DEF MarkFailed, Same, SameRun, Revised
  <1>2. CASE ~Ended
    <2> DEFINE U == Unfinished
               m == MinOf(Unfinished)
    <2>1. /\ SetRun("failed")
          /\ steps' = [i \in DOMAIN steps |->
                        IF i \notin U THEN steps[i]
                        ELSE IF i = m THEN [steps[i] EXCEPT !.status = "failed"]
                        ELSE [steps[i] EXCEPT !.status = "skipped"]]
      BY <1>2 DEF MarkFailed
    <2> HIDE DEF U, m
    <2>2. /\ Len(steps) \in Nat /\ DOMAIN steps = 1 .. Len(steps)
          /\ \A j \in DOMAIN steps : steps[j] \in Step
      BY StepsSeq
    <2>3. /\ DOMAIN steps' = DOMAIN steps
          /\ \A j \in DOMAIN steps :
                steps'[j] = IF j \notin U THEN steps[j]
                            ELSE IF j = m THEN [steps[j] EXCEPT !.status = "failed"]
                            ELSE [steps[j] EXCEPT !.status = "skipped"]
          /\ steps' = [j \in DOMAIN steps |-> steps'[j]]
      BY <2>1
    <2>4. \A j \in DOMAIN steps :
             /\ steps'[j] \in Step /\ steps'[j].attempts = steps[j].attempts
             /\ steps'[j].input = steps[j].input /\ steps'[j].marker = steps[j].marker
             /\ steps'[j].status = IF j \notin U THEN steps[j].status
                                   ELSE IF j = m THEN "failed" ELSE "skipped"
      BY <2>2, <2>3, StatusNames DEF Step
    <2>5. steps' \in Seq(Step)
      BY <2>2, <2>3, <2>4, SeqSteps
    <2>6. QED
      BY <1>2, <2>1, <2>3, <2>4, <2>5, RunSet, StatusNames DEF SameSteps, U, m
  <1>3. QED
    BY <1>1, <1>2

LEMMA Resetting ==
    ASSUME run \in Run, steps \in Seq(Step), ResetFailed
    PROVE  LET first == MinOf(At("failed")) IN
           /\ run' \in Run /\ run'.rev = run.rev + 1 /\ run'.kind = run.kind /\ run'.high = run.high
           /\ run'.status = "queued" /\ run'.job = NoJob /\ ~run'.stopped
           /\ run'.approved = run.approved
           /\ run'.done = Cardinality({i \in At("completed") : i < first})
           /\ steps' \in Seq(Step) /\ DOMAIN steps' = DOMAIN steps
           /\ \A i \in DOMAIN steps : steps'[i] = IF i < first THEN steps[i] ELSE NewStep
  <1> DEFINE first == MinOf(At("failed"))
             n == Cardinality({i \in At("completed") : i < first})
             r == run.rev + 1
  <1>1. /\ Len(steps) \in Nat /\ DOMAIN steps = 1 .. Len(steps)
        /\ \A j \in DOMAIN steps : steps[j] \in Step
    BY StepsSeq
  <1>2. n \in Nat
    <2>1. IsFiniteSet(1 .. Len(steps))
      BY <1>1, FS_Interval
    <2>2. {i \in At("completed") : i < first} \subseteq 1 .. Len(steps)
      BY <1>1 DEF At
    <2>3. QED
      BY <2>1, <2>2, FS_Subset, FS_CardinalityType
  <1>3. /\ run' = [run EXCEPT !.status = "queued", !.rev = r, !.job = NoJob, !.stopped = FALSE,
                              !.done = n, !.result = {}]
        /\ steps' = [i \in DOMAIN steps |-> IF i < first THEN steps[i] ELSE NewStep]
    BY DEF ResetFailed, Run
  <1>4. r \in Nat \ {0}
    BY DEF Run
  <1> HIDE DEF n, first, r
  <1>5. /\ run' \in Run /\ run'.rev = r /\ run'.kind = run.kind /\ run'.high = run.high
        /\ run'.status = "queued" /\ run'.job = NoJob /\ ~run'.stopped
        /\ run'.approved = run.approved /\ run'.done = n
    BY <1>2, <1>3, <1>4, StatusNames DEF Run, NoJob
  <1>6. NewStep \in Step
    BY StatusNames DEF NewStep, Step
  <1>7. /\ DOMAIN steps' = DOMAIN steps
        /\ \A i \in DOMAIN steps : steps'[i] = IF i < first THEN steps[i] ELSE NewStep
        /\ steps' = [i \in DOMAIN steps |-> steps'[i]]
    BY <1>3
  <1>8. steps' \in Seq(Step)
    BY <1>1, <1>6, <1>7, SeqSteps
  <1>9. QED
    BY <1>5, <1>7, <1>8 DEF n, first, r

-----------------------------------------------------------------------------
(* Which of them a step of a thread performs. *)

CreateMove ==
    /\ ~Exists
    /\ \E q \in Requests : run' = NewRun(q) /\ steps' = [i \in 1 .. q.total |-> NewStep]

LinkMove ==
    /\ Exists /\ UNCHANGED steps
    /\ \E v \in DOMAIN jobs : ClaimJob(v) \/ MarkWaiting(v)

ResumeMove == run.status = "failed" /\ At("failed") # {} /\ ResetFailed

LEMMA CallerTables ==
    ASSUME NEW t \in Callers, CallerActs(t), RefInv
    PROVE  \/ UNCHANGED <<run, steps>>
           \/ CreateMove
           \/ LinkMove \/ (Exists /\ Cancel) \/ (Exists /\ MarkFailed)
           \/ ResumeMove
  <1>1. /\ pc[t] \in Calling => Exists
        /\ pc[t] \in LinkedPc => seen[t].job = seen[t].rev /\ seen[t].job \in DOMAIN jobs
    BY DEF RefInv, CopiesFit
  <1>2. CASE Create(t)
    BY <1>2 DEF Create, CreateMove
  <1>3. CASE Link(t) \/ NoteWaiting(t)
    <2>1. Exists /\ seen[t].rev \in DOMAIN jobs
      BY <1>1, <1>3 DEF Link, NoteWaiting, LinkedPc, Calling
    <2>2. QED
      BY <1>3, <2>1 DEF Link, NoteWaiting, LinkMove
  <1>4. CASE NoteFailed(t) \/ Withdraw(t)
    BY <1>1, <1>4 DEF NoteFailed, Withdraw, Calling
  <1>5. CASE CancelRun(t)
    BY <1>5 DEF CancelRun
  <1>6. CASE Resume(t)
    BY <1>6 DEF Resume, ResumeMove
  <1>7. QED
    BY <1>2, <1>3, <1>4, <1>5, <1>6
       DEF CallerActs, CallerCalls, CreateAgain, Resolve, CancelJob, ResolveJob, ThreadStep,
           CallerStep, Enqueue, CancelItsJob, Answer, List, Look, EnqueueRefused, CallFault,
           CallerRaises, tables

LEMMA WorkerTables ==
    ASSUME NEW p \in Procs, WorkerActs(p), RefInv
    PROVE  \/ UNCHANGED <<run, steps>>
           \/ /\ Exists /\ work[p].job \in DOMAIN jobs
              /\ \/ LinkMove \/ Cancel \/ MarkFailed
                 \/ Approve(p) \/ Prepare(p) \/ Start(p) \/ StepFails(p) \/ Commit(p) \/ Complete(p)
  <1>1. Busy(p) => Exists /\ work[p].job \in DOMAIN jobs
    BY DEF RefInv, ThreadsFit, WorkFits, RunFits
  <1>2. CASE ClaimRun(p) \/ AskWait(p)
    BY <1>1, <1>2 DEF ClaimRun, AskWait, LinkMove, Busy
  <1>3. CASE Approve(p)
    BY <1>1, <1>3 DEF Approve, Busy
  <1>4. CASE Deadlock(p) \/ Stop(p)
    BY <1>1, <1>4 DEF Deadlock, Stop, Busy
  <1>5. CASE Prepare(p) \/ Start(p) \/ StepFails(p) \/ Commit(p) \/ Complete(p)
    BY <1>1, <1>5 DEF Prepare, Start, StepFails, Commit, Complete, Busy
  <1>6. QED
    BY <1>2, <1>3, <1>4, <1>5
       DEF WorkerActs, WorkerStep, WorkerFault, Claim, Check, Reread, ListSteps, Pick, Progress,
           Execute, Settle, tables

LEMMA InputTyped ==
    ASSUME NEW p \in Procs, NEW i, work[p] \in Work
    PROVE  Input(p, i) \in SUBSET Nat /\ Result(p) \in SUBSET Nat
  <1>1. work[p].done \subseteq Nat
    BY DEF Work
  <1>2. \A S, n : S \subseteq Nat => Latest(S, n) \subseteq Nat
    BY DEF Latest
  <1>3. QED
    BY <1>1, <1>2 DEF Input, Result, Earlier

\* What every transaction leaves of the run, and what it may do to its job.
Lasts ==
    /\ run' \in Run /\ steps' \in Seq(Step) /\ DOMAIN steps' = DOMAIN steps
    /\ run'.kind = run.kind /\ run'.high = run.high
    /\ \/ /\ run'.rev = run.rev
          /\ run'.job = run.job \/ (run'.job = run.rev /\ run.rev \in DOMAIN jobs)
       \/ run'.rev = run.rev + 1 /\ run'.job = NoJob

LEMMA TablesMove ==
    ASSUME RefInv, [Next]_vars
    PROVE  UNCHANGED <<run, steps>> \/ CreateMove \/ (Exists /\ Lasts)
  <1>1. /\ Exists => run \in Run
        /\ steps \in Seq(Step) /\ DOMAIN jobs \subseteq Nat \ {0}
        /\ \A p \in Procs : work[p] \in Work
    BY RunKnown DEF RefInv, TypeOK
  <1>2. ASSUME Exists, SameRun, run'.job = run.job, SameSteps PROVE Lasts
    BY <1>2 DEF SameRun, Revised, SameSteps, Lasts
  <1>3. CASE LinkMove
    <2>1. PICK v \in DOMAIN jobs : ClaimJob(v) \/ MarkWaiting(v)
      BY <1>3 DEF LinkMove
    <2>2. SameRun /\ SameSteps
      BY <1>1, <1>3, <2>1, Linking, StepsUntouched DEF LinkMove
    <2>3. run' = run \/ (Claims(v) /\ run'.job = v)
      BY <1>1, <1>3, <2>1, Linking DEF LinkMove
    <2>4. QED
      BY <1>3, <2>2, <2>3 DEF LinkMove, Lasts, SameRun, Revised, SameSteps, Claims
  <1>4. ASSUME NEW p \in Procs, Exists, work[p].job \in DOMAIN jobs, Approve(p)
        PROVE  Exists /\ Lasts
    <2>1. /\ run' \in Run /\ Revised /\ run'.job = run.job
      BY <1>1, <1>4, Approving DEF Approve
    <2>2. QED
      BY <1>1, <1>4, <2>1, StepsUntouched DEF Approve, Lasts, Revised, SameSteps
  <1>5. CASE Exists /\ (Cancel \/ MarkFailed)
    BY <1>1, <1>2, <1>5, Cancelling, MarkingFailed
  <1>6. CASE ResumeMove
    <2>1. Exists
      BY <1>6 DEF ResumeMove, Exists
    <2>2. QED
      BY <1>1, <1>6, <2>1, Resetting DEF ResumeMove, Lasts
  <1>7. ASSUME NEW p \in Procs, WorkerActs(p)
        PROVE  UNCHANGED <<run, steps>> \/ (Exists /\ Lasts)
    <2>1. CASE Exists /\ Prepare(p)
      BY <1>1, <1>2, <2>1, Preparing DEF Prepare
    <2>2. CASE Exists /\ Start(p)
      <3>1. work[p].step \in DOMAIN steps /\ Input(p, work[p].step) \in SUBSET Nat
        BY <1>1, <2>2, InputTyped DEF Start, RefInv, WorkFits, ChosenPc
      <3>2. /\ SameRun /\ run'.job = run.job
            /\ steps' \in Seq(Step) /\ DOMAIN steps' = DOMAIN steps
        BY <1>1, <2>2, <3>1, Starting DEF Start
      <3>3. QED
        BY <2>2, <3>2 DEF Lasts, SameRun, Revised
    <2>3. CASE Exists /\ StepFails(p)
      BY <1>1, <1>2, <2>3, Failing DEF StepFails
    <2>4. CASE Exists /\ Commit(p)
      <3>1. work[p].step \in DOMAIN steps
        BY <2>4 DEF Commit, RefInv, WorkFits, ChosenPc
      <3>2. PICK marker \in BOOLEAN : CompleteStep(work[p].step, marker)
        BY <2>4 DEF Commit
      <3>3. CASE steps[work[p].step].status = "running"
        BY <1>1, <2>4, <3>1, <3>2, <3>3, Completing DEF Lasts, Revised
      <3>4. CASE steps[work[p].step].status # "running"
        BY <3>2, <3>4 DEF CompleteStep, Same
      <3>5. QED
        BY <3>3, <3>4
    <2>5. CASE Exists /\ Complete(p)
      <3>1. Result(p) \in SUBSET Nat
        BY <1>1, InputTyped
      <3>2. PICK skip \in BOOLEAN : CompleteRun(Result(p), skip)
        BY <2>5 DEF Complete
      <3>3. QED
        BY <1>1, <1>2, <2>5, <3>1, <3>2, Finishing
    <2>6. QED
      BY <1>3, <1>4, <1>5, <1>7, <2>1, <2>2, <2>3, <2>4, <2>5, WorkerTables DEF CreateMove
  <1>8. ASSUME NEW t \in Callers, CallerActs(t)
        PROVE  UNCHANGED <<run, steps>> \/ CreateMove \/ (Exists /\ Lasts)
    BY <1>3, <1>5, <1>6, <1>8, CallerTables DEF LinkMove, ResumeMove, Exists
  <1>9. ASSUME NEW p \in Procs, ClaimFault(p) \/ LifeActs(p) PROVE UNCHANGED <<run, steps>>
    BY <1>9, LifeMoves DEF ClaimFault
  <1>10. CASE UNCHANGED vars
    BY <1>10 DEF vars, tables
  <1>11. QED
    BY <1>7, <1>8, <1>9, <1>10, Actors

-----------------------------------------------------------------------------
(* Types: the rows of the run, and what is remembered of them. *)

RunTyped == run \in Run \cup {NoRun} /\ steps \in Seq(Step)

\* A run stays, with its steps, and its revision does not fall.
RunLasts ==
    Exists => /\ Exists' /\ DOMAIN steps' = DOMAIN steps
              /\ run'.kind = run.kind /\ run'.high = run.high /\ run.rev <= run'.rev

LEMMA RunStep ==
    ASSUME RefInv, [Next]_vars
    PROVE  RunTyped' /\ RunLasts /\ RunFits'
  <1>1. /\ RunTyped /\ RunFits /\ DOMAIN jobs \subseteq Nat \ {0}
        /\ Exists => run \in Run /\ run.rev \in Nat \ {0}
    BY RunKnown DEF RefInv, TypeOK, RunTyped, Run
  <1>2. JobsGrow /\ JobsFrom
    BY JobsStep
  <1>3. \A v \in DOMAIN jobs' \ DOMAIN jobs : Exists /\ UNCHANGED <<run, steps>> /\ v \in 1 .. run.rev
    <2>1. SUFFICES ASSUME NEW t \in Callers, Enqueue(t), seen[t].rev \in DOMAIN jobs'
                   PROVE  Exists /\ UNCHANGED <<run, steps>> /\ seen[t].rev \in 1 .. run.rev
      BY <1>2 DEF JobsFrom
    <2>2. Exists /\ seen[t] \in Copy /\ seen[t].rev <= run.rev
      BY <2>1 DEF Enqueue, RefInv, CopiesFit, Calling
    <2>3. QED
      BY <1>1, <2>1, <2>2 DEF Enqueue, Copy
  <1>4. CASE UNCHANGED <<run, steps>>
    <2>1. Exists' <=> Exists
      BY <1>4 DEF Exists
    <2>2. CASE Exists
      <3>1. DOMAIN jobs' \subseteq 1 .. run.rev
        BY <1>1, <1>2, <1>3, <2>2 DEF RunFits, JobsGrow
      <3>2. QED
        BY <1>1, <1>2, <1>4, <2>1, <2>2, <3>1 DEF RunTyped, RunLasts, RunFits, JobsGrow
    <2>3. CASE ~Exists
      <3>1. DOMAIN jobs' = {}
        BY <1>1, <1>2, <1>3, <2>3 DEF RunFits, JobsGrow
      <3>2. QED
        BY <1>1, <1>4, <2>1, <2>3, <3>1 DEF RunTyped, RunLasts, RunFits
    <2>4. QED
      BY <2>2, <2>3
  <1>5. CASE CreateMove
    <2>1. PICK q \in Requests : run' = NewRun(q) /\ steps' = [i \in 1 .. q.total |-> NewStep]
      BY <1>5 DEF CreateMove
    <2>2. NewRun(q) \in Run /\ q.total \in Nat \ {0} /\ NewStep \in Step
      BY NewRunTyped, StatusNames DEF NewStep, Step
    <2>3. steps' \in Seq(Step) /\ Len(steps') = q.total /\ steps' # << >>
      BY <2>1, <2>2, SeqSteps
    <2>4. Exists' /\ run'.job = NoJob
      BY <2>1 DEF Exists, NewRun
    <2>5. DOMAIN jobs' = {}
      BY <1>1, <1>2, <1>3, <1>5 DEF CreateMove, RunFits, JobsGrow
    <2>6. QED
      BY <1>5, <2>1, <2>2, <2>3, <2>4, <2>5 DEF CreateMove, RunTyped, RunLasts, RunFits
  <1>6. CASE Exists /\ Lasts /\ ~UNCHANGED <<run, steps>>
    <2>1. run' \in Run /\ run'.status # "absent" /\ run'.rev \in Nat \ {0} /\ run'.rev >= run.rev
      BY <1>1, <1>6 DEF Lasts, Run, RunStatus, RunTerminal
    <2>2. steps' # << >>
      <3>1. Len(steps) \in Nat /\ DOMAIN steps = 1 .. Len(steps) /\ Len(steps) # 0
        BY <1>1, <1>6, StepsSeq DEF RunTyped, RunFits
      <3>2. 1 \in DOMAIN steps'
        BY <1>6, <3>1 DEF Lasts
      <3>3. QED
        BY <3>2
    <2>3. DOMAIN jobs' \subseteq 1 .. run'.rev
      BY <1>1, <1>2, <1>3, <1>6, <2>1 DEF RunFits, JobsGrow
    <2>4. /\ run'.job \in {NoJob, run'.rev}
          /\ run'.job # NoJob => run'.job \in DOMAIN jobs'
      BY <1>1, <1>2, <1>6, <2>1 DEF RunFits, JobsGrow, Lasts, NoJob
    <2>5. RunLasts
      BY <1>1, <1>6, <2>1 DEF RunLasts, Lasts, Exists
    <2>6. QED
      BY <1>6, <2>1, <2>2, <2>3, <2>4, <2>5 DEF RunTyped, RunFits, Lasts, Exists
  <1>7. QED
    BY <1>4, <1>5, <1>6, TablesMove

EffectsTyped ==
    /\ DOMAIN effects \subseteq Nat \X Nat
    /\ \A x \in DOMAIN effects : effects[x] \in Nat

LEMMA EffectsStep ==
    ASSUME RefInv, [Next]_vars
    PROVE  EffectsTyped'
  <1>0. EffectsTyped
    BY DEF RefInv, TypeOK, EffectsTyped
  <1>1. ASSUME UNCHANGED effects PROVE EffectsTyped'
    BY <1>0, <1>1 DEF EffectsTyped
  <1>2. ASSUME NEW p \in Procs, Execute(p), effects' # effects PROVE EffectsTyped'
    <2> DEFINE x == <<work[p].job, work[p].step>>
    <2>1. x \in Nat \X Nat
      BY DEF RefInv, TypeOK, Work
    <2>2. effects' = [y \in DOMAIN effects \cup {x} |->
                        (IF y \in DOMAIN effects THEN effects[y] ELSE 0)
                        + (IF y = x THEN 1 ELSE 0)]
      BY <1>2 DEF Execute
    <2> HIDE DEF x
    <2>3. \A y \in DOMAIN effects' :
             effects'[y] = (IF y \in DOMAIN effects THEN effects[y] ELSE 0)
                           + (IF y = x THEN 1 ELSE 0)
      BY <2>2
    <2>4. \A y \in DOMAIN effects' : effects'[y] \in Nat
      BY <1>0, <2>3 DEF EffectsTyped
    <2>5. QED
      BY <1>0, <2>1, <2>2, <2>4 DEF EffectsTyped
  <1>3. ASSUME NEW p \in Procs, WorkerActs(p) PROVE EffectsTyped'
    BY <1>1, <1>2, <1>3
       DEF WorkerActs, WorkerStep, WorkerFault, Claim, Check, ClaimRun, AskWait, Approve, Prepare,
           Reread, ListSteps, Pick, Deadlock, Start, Progress, Execute, StepFails, Commit, Complete,
           Stop, Settle
  <1>4. QED
    BY <1>1, <1>3, Actors, CallerMoves, LifeMoves DEF ClaimFault, vars

LEMMA BoundsStep ==
    ASSUME TypeOK, [Next]_vars
    PROVE  calls' \in Nat /\ lives' \in Nat /\ faults' \in Nat
  <1>1. \A n \in Nat : n + 1 \in Nat
    OBVIOUS
  <1>2. calls \in Nat /\ lives \in Nat /\ faults \in Nat
    BY DEF TypeOK
  <1>3. ASSUME NEW t \in Callers, CallerActs(t) PROVE calls' \in Nat /\ lives' \in Nat /\ faults' \in Nat
    BY <1>1, <1>2, <1>3
       DEF CallerActs, CallerCalls, Create, CreateAgain, CancelRun, Resolve, Resume, CancelJob,
           ResolveJob, Call, ThreadStep, CallerStep, Enqueue, Link, NoteWaiting, NoteFailed,
           Withdraw, CancelItsJob, Answer, List, Look, EnqueueRefused, CallFault, Fault, bounds
  <1>4. ASSUME NEW p \in Procs, WorkerActs(p) PROVE calls' \in Nat /\ lives' \in Nat /\ faults' \in Nat
    BY <1>1, <1>2, <1>4
       DEF WorkerActs, WorkerStep, WorkerFault, Fault, Claim, Check, ClaimRun, AskWait, Approve,
           Prepare, Reread, ListSteps, Pick, Deadlock, Start, Progress, Execute, StepFails, Commit,
           Complete, Stop, Settle, bounds
  <1>5. ASSUME NEW p \in Procs, LifeActs(p) \/ ClaimFault(p)
        PROVE  calls' \in Nat /\ lives' \in Nat /\ faults' \in Nat
    BY <1>1, <1>2, <1>5
       DEF LifeActs, Constructs, Boot, Recover, Serve, Close, Exit, Crash, End, ClaimFault, Fault,
           bounds
  <1>6. QED
    BY <1>2, <1>3, <1>4, <1>5, Actors DEF vars, bounds

LEMMA WorkStep ==
    ASSUME RefInv, [Next]_vars
    PROVE  work' \in [Procs -> Work] /\ WorkFits'
  <1>0. /\ work \in [Procs -> Work] /\ pc \in [Threads -> Pc] /\ WorkFits
        /\ Procs \cap Callers = {} /\ Threads = Procs \cup Callers
        /\ DOMAIN jobs \subseteq Nat \ {0}
    BY OrchestrationAssumption DEF RefInv, TypeOK, Threads
  <1>1. DOMAIN jobs \subseteq DOMAIN jobs' /\ (Exists => DOMAIN steps' = DOMAIN steps)
    BY JobsStep, RunStep DEF JobsGrow, RunLasts
  <1> DEFINE Fit(p) == /\ work[p].job # NoJob => work[p].job \in DOMAIN jobs
                       /\ pc[p] \in ChosenPc => work[p].step \in DOMAIN steps
  <1>2. \A p \in Procs : Fit(p) /\ (pc[p] \in ChosenPc => Exists)
    BY <1>0 DEF WorkFits, RefInv, ThreadsFit, Busy, RunFits, ChosenPc
  <1>3. ASSUME NEW p \in Procs, pc'[p] = pc[p] \/ pc'[p] \notin ChosenPc, work'[p] = work[p]
        PROVE  Fit(p)'
    BY <1>1, <1>2, <1>3
  <1>4. ASSUME work' \in [Procs -> Work], \A p \in Procs : Fit(p)'
        PROVE  work' \in [Procs -> Work] /\ WorkFits'
    BY <1>4 DEF WorkFits
  <1> HIDE DEF Fit
  <1>5. ASSUME NEW t \in Callers, CallerActs(t) PROVE work' \in [Procs -> Work] /\ WorkFits'
    <2>1. work' = work /\ \A p \in Procs : pc'[p] = pc[p]
      BY <1>0, <1>5, CallerMoves, CallerPcs
    <2>2. QED
      BY <1>0, <1>3, <1>4, <2>1
  <1>6. ASSUME NEW p \in Procs, WorkerActs(p) PROVE work' \in [Procs -> Work] /\ WorkFits'
    <2>1. /\ \A q \in Procs \ {p} : pc'[q] = pc[q] /\ work'[q] = work[q]
          /\ pc'[p] \in WorkerPc
      BY <1>0, <1>6, WorkerMoves DEF RefInv, ThreadsFit
    <2>2. CASE Claim(p) /\ work'[p].job \in DOMAIN jobs
      <3>1. PICK v \in DOMAIN jobs :
               work' = [work EXCEPT ![p] = [Idle EXCEPT !.job = v,
                                               !.granted = jobs[v].approval = "granted"]]
        BY <2>2 DEF Claim, Remember
      <3> DEFINE b == jobs[v].approval = "granted"
      <3>2. b \in BOOLEAN /\ v \in Nat
        BY <1>0
      <3> HIDE DEF b
      <3>3. [Idle EXCEPT !.job = v, !.granted = b] \in Work
        BY <3>2 DEF Idle, Work
      <3>4. work' \in [Procs -> Work]
        BY <1>0, <3>1, <3>3 DEF b
      <3>5. pc'[p] = "check0"
        BY <1>0, <2>2 DEF Claim, Goto
      <3>6. Fit(p)'
        BY <1>1, <2>2, <3>5 DEF Fit, ChosenPc
      <3>7. QED
        BY <1>3, <1>4, <2>1, <3>4, <3>6
    <2>3. CASE pc'[p] = "poll" /\ work' = [work EXCEPT ![p] = Idle]
      <3>1. Idle \in Work
        BY DEF Idle, Work, NoJob
      <3>2. Fit(p)'
        BY <1>0, <2>3 DEF Fit, ChosenPc, Idle
      <3>3. QED
        BY <1>0, <1>3, <1>4, <2>1, <2>3, <3>1, <3>2
    <2>4. ASSUME NEW fields \in Work, work' = [work EXCEPT ![p] = fields],
                 fields.job = work[p].job, work[p].job # NoJob
          PROVE  work' \in [Procs -> Work] /\ WorkFits'
      <3>1. work' \in [Procs -> Work] /\ work'[p].job = work[p].job
        BY <1>0, <2>4
      <3>2. work'[p].job \in DOMAIN jobs'
        BY <1>1, <1>2, <2>4, <3>1 DEF Fit
      <3>3. pc'[p] \in ChosenPc => work'[p].step \in DOMAIN steps'
        <4>1. CASE Pick(p)
          <5> DEFINE next == {i \in At("pending") : Ready(i)}
          <5>1. next \subseteq Nat /\ next \subseteq DOMAIN steps
            BY StepsSeq DEF At, RefInv, TypeOK
          <5>2. steps' = steps
            BY <4>1 DEF Pick, tables
          <5>3. CASE next = {}
            BY <1>0, <4>1, <5>3 DEF Pick, Goto, ChosenPc
          <5>4. CASE next # {}
            <6>1. MinOf(next) \in next
              BY <5>1, <5>4, Least
            <6>2. work' = [work EXCEPT ![p] = [work[p] EXCEPT !.step = MinOf(next)]]
              BY <4>1, <5>4 DEF Pick, Remember
            <6>3. work'[p].step = MinOf(next)
              BY <1>0, <6>2 DEF Work
            <6>4. QED
              BY <5>1, <5>2, <6>1, <6>3
          <5>5. QED
            BY <5>3, <5>4
        <4>2. CASE pc'[p] \in ChosenPc /\ ~Pick(p)
          <5>1. pc[p] \in ChosenPc /\ work' = work
            BY <1>0, <1>6, <2>4, <4>2
               DEF WorkerActs, WorkerStep, WorkerFault, Claim, Check, ClaimRun, AskWait, Approve,
                   Prepare, Reread, ListSteps, Deadlock, Start, Progress, Execute, StepFails, Commit,
                   Complete, Stop, Settle, Goto, Onward, ChosenPc
          <5>2. QED
            BY <1>1, <1>2, <5>1 DEF Fit
        <4>3. QED
          BY <4>1, <4>2
      <3>4. Fit(p)'
        BY <3>2, <3>3 DEF Fit
      <3>5. QED
        BY <1>3, <1>4, <2>1, <3>1, <3>4
    <2>5. QED
      BY <1>6, <2>2, <2>3, <2>4, WorkerJobs
  <1>7. ASSUME NEW p \in Procs, ClaimFault(p) PROVE work' \in [Procs -> Work] /\ WorkFits'
    BY <1>0, <1>3, <1>4, <1>7 DEF ClaimFault
  <1>8. ASSUME NEW p \in Procs, LifeActs(p) PROVE work' \in [Procs -> Work] /\ WorkFits'
    <2>1. p \in Threads /\ Main[p] \in Callers /\ p \notin Callers
      BY <1>0, OrchestrationAssumption
    <2>2. CASE End(p)
      <3>1. Idle \in Work
        BY DEF Idle, Work, NoJob
      <3>2. /\ work' = [work EXCEPT ![p] = Idle]
            /\ \A q \in Procs : pc'[q] = pc[q] \/ pc'[q] \notin ChosenPc
            /\ pc'[p] = "down"
        BY <1>0, <2>1, <2>2 DEF End, Remember, HomeOf, ChosenPc
      <3>3. Fit(p)'
        BY <1>0, <3>2 DEF Fit, ChosenPc, Idle
      <3>4. QED
        BY <1>0, <1>3, <1>4, <3>1, <3>2, <3>3
    <2>3. CASE work' = work /\ \A q \in Procs : pc'[q] = pc[q] \/ pc'[q] \notin ChosenPc
      BY <1>0, <1>3, <1>4, <2>3
    <2>4. CASE Boot(p) /\ work' = work
      BY <1>0, <2>1, <2>3, <2>4 DEF Boot, Goto
    <2>5. CASE Close(p) /\ work' = work
      BY <1>0, <2>1, <2>3, <2>5 DEF Close, Goto
    <2>6. CASE Serve(p) /\ work' = work
      BY <1>0, <2>1, <2>3, <2>6 DEF Serve
    <2>7. CASE Recover(p)
      <3>1. pc' = [pc EXCEPT ![Main[p]] = "list", ![p] = "poll"] /\ work' = work
        BY <2>7 DEF Recover
      <3>2. \A q \in Procs : pc'[q] = pc[q] \/ pc'[q] = "poll"
        BY <1>0, <2>1, <3>1
      <3>3. QED
        BY <2>3, <3>1, <3>2 DEF ChosenPc
    <2>8. QED
      BY <1>8, <2>2, <2>4, <2>5, <2>6, <2>7, LifeMoves
  <1>9. CASE UNCHANGED vars
    BY <1>0, <1>3, <1>4, <1>9 DEF vars
  <1>10. QED
    BY <1>5, <1>6, <1>7, <1>8, <1>9, Actors

LEMMA SeenStep ==
    ASSUME RefInv, [Next]_vars
    PROVE  seen' \in [Callers -> Copy \cup {NoCopy}] /\ CopiesFit'
  <1>0. /\ seen \in [Callers -> Copy \cup {NoCopy}] /\ pc \in [Threads -> Pc]
        /\ Procs \cap Callers = {} /\ Threads = Procs \cup Callers
        /\ DOMAIN jobs \subseteq Nat \ {0} /\ CopiesFit /\ RunFits
        /\ \A p \in Procs : Main[p] \in Callers
        /\ Exists => run \in Run /\ run.rev \in Nat
    BY OrchestrationAssumption, RunKnown DEF RefInv, TypeOK, Threads, Run
  <1>1. /\ DOMAIN jobs \subseteq DOMAIN jobs'
        /\ Exists => Exists' /\ run'.rev \in Nat /\ run.rev <= run'.rev
    BY JobsStep, RunStep DEF JobsGrow, RunLasts, RunTyped, Run, Exists, NoRun
  <1> DEFINE Fit(t) == /\ pc[t] \in Calling \cup {"look"} =>
                            Exists /\ seen[t] \in Copy /\ seen[t].rev <= run.rev
                       /\ pc[t] \in LinkedPc =>
                            seen[t].job = seen[t].rev /\ seen[t].job \in DOMAIN jobs
  <1>2. \A t \in Callers : Fit(t)
    BY <1>0 DEF CopiesFit
  <1>3. ASSUME NEW t \in Callers, pc'[t] = pc[t], seen'[t] = seen[t] PROVE Fit(t)'
    <2>1. seen[t] \in Copy => seen[t].rev \in Nat
      BY DEF Copy
    <2>2. QED
      BY <1>0, <1>1, <1>2, <1>3, <2>1
  <1>4. ASSUME NEW t \in Callers, pc'[t] \in {"down", "idle", "list", "recover", "ready"} PROVE Fit(t)'
    BY <1>4 DEF LinkedPc, Calling
  <1>5. ASSUME seen' \in [Callers -> Copy \cup {NoCopy}], \A t \in Callers : Fit(t)'
        PROVE  seen' \in [Callers -> Copy \cup {NoCopy}] /\ CopiesFit'
    BY <1>5 DEF CopiesFit
  <1>6. ASSUME NEW t \in Callers, CallerActs(t)
        PROVE  seen' \in [Callers -> Copy \cup {NoCopy}] /\ CopiesFit'
    <2>1. /\ seen' \in [Callers -> Copy \cup {NoCopy}]
          /\ \A u \in Callers \ {t} : pc'[u] = pc[u] /\ seen'[u] = seen[u]
      BY <1>0, <1>6, CallerPcs
    <2>2. SUFFICES Fit(t)'
      BY <1>3, <1>5, <2>1
    <2>3. ASSUME NEW label, NEW copy, Take(t, label, copy)
          PROVE  pc'[t] = label /\ seen'[t] = copy
      BY <1>0, <2>3 DEF Take, Goto
    <2>4. ASSUME NEW r \in Run PROVE CopyOf(r) \in Copy /\ CopyOf(r).rev = r.rev /\ CopyOf(r).job = r.job
      BY DEF CopyOf, Run, Copy
    <2>5. CASE Done(t)
      <3>1. pc'[t] = Return(t)
        BY <2>3, <2>5 DEF Done
      <3>2. QED
        BY <1>4, <3>1 DEF Return
    \* A copy just made of the run.
    <2>6. ASSUME Exists', Take(t, "enqueue", CopyOf(run')), run' \in Run PROVE Fit(t)'
      <3>1. run'.rev \in Nat
        BY <2>6 DEF Run
      <3>2. QED
        BY <2>3, <2>4, <2>6, <3>1 DEF LinkedPc
    <2>7. ASSUME Exists, run' = run, jobs' = jobs, run.job # NoJob, NEW label, Take(t, label, CopyOf(run))
          PROVE  Fit(t)'
      <3>1. run.job = run.rev /\ run.job \in DOMAIN jobs
        BY <1>0, <2>7 DEF RunFits
      <3>2. Exists'
        BY <1>1, <2>7
      <3>3. QED
        BY <1>0, <2>3, <2>4, <2>7, <3>1, <3>2
    <2>8. CASE Create(t)
      <3>1. PICK q \in Requests : run' = NewRun(q) /\ Ensure(t, CopyOf(NewRun(q)))
        BY <2>8 DEF Create
      <3>2. run' \in Run /\ Exists'
        BY <3>1, NewRunTyped DEF NewRun, Exists
      <3>3. QED
        BY <2>5, <2>6, <3>1, <3>2 DEF Ensure
    <2>9. CASE CreateAgain(t)
      BY <1>0, <1>1, <2>5, <2>6, <2>9 DEF CreateAgain, Ensure, tables
    <2>10. CASE CancelRun(t)
      <3>1. CASE run.job = NoJob
        BY <2>5, <2>10, <3>1 DEF CancelRun
      <3>2. CASE run.job # NoJob
        <4>1. Exists /\ run \in Run /\ Cancel /\ steps \in Seq(Step) /\ jobs' = jobs
              /\ Take(t, "cancelJob", CopyOf(run))
          BY <1>0, <2>10, <3>2 DEF CancelRun, RefInv, TypeOK
        <4>2. run'.rev = run.rev
          BY <4>1, Cancelling DEF SameRun, Revised
        <4>3. run.job = run.rev /\ run.job \in DOMAIN jobs
          BY <1>0, <3>2, <4>1 DEF RunFits
        <4>4. QED
          BY <1>0, <1>1, <2>3, <2>4, <4>1, <4>2, <4>3
      <3>3. QED
        BY <3>1, <3>2
    <2>11. CASE Resolve(t)
      BY <2>7, <2>11 DEF Resolve, Exists, tables
    <2>12. CASE Resume(t)
      <3>1. run \in Run /\ Exists /\ ResetFailed /\ steps \in Seq(Step)
        BY <1>0, <2>12 DEF Resume, Exists, RefInv, TypeOK
      <3>2. run' \in Run /\ run'.status = "queued"
        BY <3>1, Resetting
      <3>3. Take(t, "enqueue", CopyOf(run'))
        BY <2>12, <3>2 DEF Resume, Ensure, CopyOf, RunTerminal
      <3>4. QED
        BY <1>1, <2>6, <3>1, <3>2, <3>3
    <2>13. CASE Enqueue(t)
      <3>1. /\ Exists /\ seen[t] \in Copy /\ seen[t].rev <= run.rev /\ run' = run
            /\ seen[t].rev \in DOMAIN jobs'
        BY <1>2, <2>13, PutFacts DEF Enqueue, Calling
      <3>2. /\ seen'[t] = [seen[t] EXCEPT !.job = seen[t].rev]
        BY <2>3, <2>13 DEF Enqueue
      <3>3. seen'[t] \in Copy /\ seen'[t].rev = seen[t].rev /\ seen'[t].job = seen[t].rev
        BY <3>1, <3>2 DEF Copy
      <3>4. QED
        BY <1>1, <3>1, <3>3
    <2>14. CASE Answer(t)
      <3>1. CASE Take(t, "withdraw", seen[t])
        BY <1>1, <1>2, <2>3, <2>14, <3>1 DEF Answer, Calling, LinkedPc
      <3>2. QED
        BY <2>5, <2>14, <3>1 DEF Answer
    <2>15. CASE List(t)
      <3>1. run' = run /\ jobs' = jobs
        BY <2>15 DEF List, tables
      <3>2. CASE ~Exists \/ Ended
        BY <2>5, <2>15, <3>2 DEF List
      <3>3. CASE Exists /\ run.job = NoJob
        BY <1>0, <1>1, <2>5, <2>6, <2>15, <3>1, <3>3 DEF List
      <3>4. CASE Exists /\ run.job # NoJob
        BY <2>5, <2>7, <2>15, <3>1, <3>4 DEF List
      <3>5. QED
        BY <3>2, <3>3, <3>4
    <2>16. CASE Look(t)
      <3>1. /\ run' = run /\ jobs' = jobs /\ Exists /\ seen[t] \in Copy /\ seen[t].rev <= run.rev
            /\ seen[t].job = seen[t].rev /\ seen[t].job \in DOMAIN jobs
        BY <1>2, <2>16 DEF Look, tables, LinkedPc
      <3>2. Done(t) \/ seen'[t] = seen[t]
        BY <2>3, <2>16 DEF Look
      <3>3. QED
        BY <1>1, <2>5, <3>1, <3>2
    <2>17. CASE Stays
      BY <1>3, <2>17 DEF Stays
    <2>18. QED
      BY <1>6, <2>5, <2>8, <2>9, <2>10, <2>11, <2>12, <2>13, <2>14, <2>15, <2>16, <2>17
         DEF CallerActs, CallerCalls, CancelJob, ResolveJob, Stays, ThreadStep, CallerStep, Link,
             NoteWaiting, NoteFailed, Withdraw, CancelItsJob, EnqueueRefused, CallFault, CallerRaises
  <1>7. ASSUME \A t \in Callers : pc'[t] = pc[t], seen' = seen
        PROVE  seen' \in [Callers -> Copy \cup {NoCopy}] /\ CopiesFit'
    BY <1>0, <1>3, <1>5, <1>7
  <1>8. ASSUME NEW p \in Procs, WorkerActs(p)
        PROVE  seen' \in [Callers -> Copy \cup {NoCopy}] /\ CopiesFit'
    BY <1>0, <1>7, <1>8, WorkerMoves DEF RefInv, ThreadsFit
  <1>9. ASSUME NEW p \in Procs, LifeActs(p)
        PROVE  seen' \in [Callers -> Copy \cup {NoCopy}] /\ CopiesFit'
    <2>1. p \in Threads /\ Main[p] \in Callers /\ p \notin Callers /\ Main[p] \in Threads
      BY <1>0
    <2>2. CASE /\ seen' = seen
               /\ \A t \in Callers : \/ pc'[t] = pc[t]
                                     \/ pc'[t] \in {"down", "idle", "list", "recover", "ready"}
      BY <1>0, <1>3, <1>4, <1>5, <2>2
    <2>3. CASE End(p)
      <3>1. \A t \in Callers : \/ pc'[t] = pc[t] /\ seen'[t] = seen[t]
                               \/ pc'[t] = "down"
        BY <1>0, <2>3 DEF End, HomeOf
      <3>2. seen' \in [Callers -> Copy \cup {NoCopy}]
        BY <1>0, <2>3 DEF End
      <3>3. QED
        BY <1>3, <1>4, <1>5, <3>1, <3>2
    <2>4. CASE Boot(p) /\ seen' = seen
      BY <1>0, <2>1, <2>2, <2>4 DEF Boot, Goto
    <2>5. CASE Close(p) /\ seen' = seen
      BY <1>0, <2>1, <2>2, <2>5 DEF Close, Goto
    <2>6. CASE Serve(p) /\ seen' = seen
      BY <1>0, <2>1, <2>2, <2>6 DEF Serve
    <2>7. CASE Recover(p)
      <3>1. pc' = [pc EXCEPT ![Main[p]] = "list", ![p] = "poll"] /\ seen' = seen
        BY <2>7 DEF Recover
      <3>2. \A t \in Callers : pc'[t] = pc[t] \/ pc'[t] = "list"
        BY <1>0, <2>1, <3>1
      <3>3. QED
        BY <2>2, <3>1, <3>2
    <2>8. QED
      BY <1>9, <2>3, <2>4, <2>5, <2>6, <2>7, LifeMoves
  <1>10. CASE UNCHANGED vars
    BY <1>7, <1>10 DEF vars
  <1>11. QED
    BY <1>6, <1>7, <1>8, <1>9, <1>10, Actors DEF ClaimFault

LEMMA RefInit ==
    ASSUME Init PROVE RefInv
  <1>1. NoCopy \in Copy \cup {NoCopy} /\ Idle \in Work /\ << >> \in Seq(Step)
    BY DEF Idle, Work, NoJob
  <1>2. ~Exists
    BY DEF Init, Exists, NoRun
  <1>3. TypeOK
    BY <1>1 DEF Init, TypeOK, Pc
  <1>4. ThreadsFit
    BY OrchestrationAssumption DEF Init, ThreadsFit, CallerPc, WorkerPc, Busy, Idle, Threads
  <1>5. JobsPaid /\ RunFits /\ WorkFits
    BY <1>2 DEF Init, JobsPaid, RunFits, WorkFits, Idle, ChosenPc, Threads
  <1>6. CopiesFit
    BY DEF Init, CopiesFit, Calling, LinkedPc, Threads
  <1>7. QED
    BY <1>3, <1>4, <1>5, <1>6 DEF RefInv

LEMMA RefStep ==
    ASSUME RefInv, [Next]_vars PROVE RefInv'
  <1>1. ThreadsFit' /\ JobsPaid' /\ RunFits' /\ CopiesFit' /\ WorkFits'
    BY ThreadsStep, JobsStep, RunStep, SeenStep, WorkStep
  <1>2. TypeOK'
    <2>1. RunTyped' /\ EffectsTyped' /\ PhaseTyped' /\ PcKinds'
      BY RunStep, EffectsStep, PhaseStep, PcStep
    <2>2. DOMAIN jobs' \subseteq Nat \ {0} /\ \A v \in DOMAIN jobs' : jobs'[v] \in J!Row
      <3>1. \A v \in DOMAIN jobs' : jobs'[v] \in J!Row
        BY <1>1 DEF JobsPaid, Paid
      <3>2. CASE Exists'
        BY <1>1, <3>1, <3>2 DEF RunFits
      <3>3. CASE ~Exists'
        BY <1>1, <3>1, <3>3 DEF RunFits
      <3>4. QED
        BY <3>2, <3>3
    <2>3. /\ seen' \in [Callers -> Copy \cup {NoCopy}] /\ work' \in [Procs -> Work]
          /\ calls' \in Nat /\ lives' \in Nat /\ faults' \in Nat
      BY SeenStep, WorkStep, BoundsStep DEF RefInv
    <2>4. QED
      BY <2>1, <2>2, <2>3 DEF TypeOK, RunTyped, EffectsTyped, PhaseTyped, PcKinds
  <1>3. QED
    BY <1>1, <1>2 DEF RefInv

LEMMA RefAlways == Spec => []RefInv
  <1>1. Init => RefInv
    BY RefInit
  <1>2. RefInv /\ [Next]_vars => RefInv'
    BY RefStep
  <1>3. QED
    BY <1>1, <1>2, PTL DEF Spec

(***************************************************************************)
(* Whatever the number of processes and callers, every row, copy and       *)
(* memory of the orchestration keeps its type; and with it, what threads   *)
(* remember of a row exists: the run has at most the job of its revision,  *)
(* which is in the table, and a copy is never of a later revision.         *)
(***************************************************************************)
THEOREM TypeCorrect == Spec => []TypeOK
  <1>1. RefInv => TypeOK
    BY DEF RefInv
  <1>2. QED
    BY <1>1, RefAlways, PTL
=============================================================================
